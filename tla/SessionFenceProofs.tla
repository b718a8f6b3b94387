-------------------------- MODULE SessionFenceProofs --------------------------
(***************************************************************************)
(* The fences of SessionFence exclude operations and closes, count their   *)
(* readers and bind a detached destroy to its session, for any handles,    *)
(* threads and number of calls.                                            *)
(***************************************************************************)
EXTENDS SessionFence, FiniteSetTheorems, WellFoundedInduction, TLAPS

-----------------------------------------------------------------------------
(* The inductive invariant *)

InPC == {"op_native", "op_exit"}
CountPC == {"op_recheck", "op_uncount"} \cup InPC
FencePC == {"op_load", "op_count"} \cup CountPC
OpPC == {"arm", "op_get"} \cup FencePC
CommitPC == {"cl_store", "cl_remove"}
DonePC == {"cl_native", "cl_reopen"} \cup CommitPC
HoldPC == {"cl_get", "cl_mark", "cl_drain"} \cup DonePC
ClosePC == {"cl_evict", "cl_forget"} \cup HoldPC

\* The guards of a close whose fences have been drained.
Drained(r) ==
  {g \in r.held : r.pc \in DonePC \/ (r.pc = "cl_drain" /\ g[1] \notin r.todo)}

\* A fence that is not closed is the one in the table, for whoever uses it;
\* an operation at the provider uses one that is not closed.
UseOK(r) ==
  /\ r.pc \in OpPC \cup {"open_note", "cl_mark"} => r.h \in Handles
  /\ r.pc \in FencePC \cup {"cl_mark"} =>
       r.f # 0 /\ (Life(r.f) # "closed" => table[r.h] = r.f)
  /\ r.pc \in InPC => Life(r.f) # "closed"

\* A guard's fence is in the table and marked, until its close is committed.
HoldOK(r) ==
  /\ r.pc \notin HoldPC => r.held = {}
  /\ \A g \in r.held :
       /\ table[g[1]] = g[2]
       /\ Life(g[2]) = IF r.pc = "cl_remove" /\ g[1] = Min(r.todo) THEN "closed" ELSE "closing"

\* What a close still has to do, at each of its stages.
TodoOK(r) ==
  /\ r.pc \in {"cl_get", "cl_mark"} => r.todo # {} /\ r.todo \cap HeldHandles(r.held) = {}
  /\ r.pc = "cl_mark" => r.h \in r.todo
  /\ r.pc = "cl_drain" => r.todo # {} /\ r.todo \subseteq HeldHandles(r.held)
  /\ r.pc \in {"cl_reopen"} \cup CommitPC => r.todo # {} /\ r.todo = HeldHandles(r.held)

\* Phases: close-alls and mints are different loads; a single close is about
\* its handle; a settlement is bound to the fence that its mint captured.
PhaseOK(r) ==
  /\ r.pc \in OpPC => r.phase # "all"
  /\ r.pc \in ClosePC => r.phase \in {"plain", "all"}
  /\ r.phase = "all" => load = "close_alls"
  /\ r.phase \in {"mint", "settle"} =>
       load = "mints" /\ r.pc \in OpPC /\ (r.pc # "arm" => r.expect # 0)
  /\ r.phase = "settle" => r.want # 0 /\ r.pc # "arm" /\ (r.pc \in FencePC => r.f = r.expect)
  /\ r.pc \in ClosePC /\ r.phase = "plain" =>
       /\ r.h \in Handles
       /\ r.pc \in {"cl_get", "cl_mark"} => r.todo = {r.h} /\ r.held = {}
       /\ r.pc \in {"cl_drain"} \cup DonePC => HeldHandles(r.held) = {r.h}

TaskOK(r) == UseOK(r) /\ HoldOK(r) /\ TodoOK(r) /\ PhaseOK(r)

TasksOK == \A t \in Tasks : TaskOK(task[t])

\* A fence is in the table once, and has one guard that closes it.
OnceOK ==
  /\ \A h, i \in Handles : table[h] # 0 /\ table[h] = table[i] => h = i
  /\ \A t, u \in Tasks : \A g \in task[t].held : g \in task[u].held => t = u

\* No operation is at the provider under a fence that has been drained.
InsideOK ==
  \A t, u \in Tasks : task[t].pc \in InPC => \A g \in Drained(task[u]) : g[2] # task[t].f

CountOK ==
  \A f \in FenceIds : IsFiniteSet(Counted(f)) /\ fences[f].readers = Cardinality(Counted(f))

\* What a mint made, or a settlement is to destroy, is at session want.
Bound(r) == r.phase = "settle" \/ (r.phase = "mint" /\ r.pc = "op_exit" /\ r.want # 0)

\* The close of fence f of handle h has closed the session behind it.
Over(h, f) == \E u \in Tasks : task[u].pc \in CommitPC /\ <<h, f>> \in task[u].held

\* As long as the captured fence is in the table and its close has not taken
\* effect, the session behind the handle is the one of the mint.
MintOK ==
  \A t \in Tasks : Bound(task[t]) /\ table[task[t].h] = task[t].expect
                   /\ ~Over(task[t].h, task[t].expect) => nat[task[t].h] = task[t].want

IInv == TypeOK /\ TasksOK /\ OnceOK /\ InsideOK /\ CountOK /\ MintOK

-----------------------------------------------------------------------------
(* Sets and records *)

\* enter_write_all finds a smallest handle among those left.
LEMMA MinIn ==
  ASSUME NEW S, S \subseteq Handles, S # {}
  PROVE  Min(S) \in S
<1>1. S \subseteq Nat
  BY FenceAssumption
<1>2. PICK x \in S : \A y \in S : ~(<<y, x>> \in OpToRel(<, Nat))
  BY <1>1, NatLessThanWellFounded, WFMin
<1>3. \A y \in S : x <= y
  <2>1. ASSUME NEW y \in S, ~(x <= y) PROVE FALSE
    <3>1. x \in Nat /\ y \in Nat /\ y < x
      BY <1>1, <2>1
    <3>2. <<y, x>> \in OpToRel(<, Nat)
      BY <3>1 DEF OpToRel
    <3> QED BY <1>2, <3>2
  <2> QED BY <2>1
<1> QED BY <1>3 DEF Min

\* A finite set of readers, with one more and one less.
LEMMA Count ==
  ASSUME NEW S, IsFiniteSet(S)
  PROVE  /\ Cardinality(S) \in Nat
         /\ \A x : x \notin S =>
              IsFiniteSet(S \cup {x}) /\ Cardinality(S \cup {x}) = Cardinality(S) + 1
         /\ \A x \in S : IsFiniteSet(S \ {x}) /\ Cardinality(S \ {x}) = Cardinality(S) - 1
         /\ Cardinality(S) = 0 => S = {}
BY FS_CardinalityType, FS_AddElement, FS_RemoveElement, FS_EmptySet

\* The fields of the fences and of the threads.
LEMMA Fields ==
  ASSUME TypeOK
  PROVE  /\ Len(fences) \in Nat /\ 0 \notin FenceIds /\ 0 \notin Handles
         /\ \A f \in FenceIds : /\ f \in Nat /\ fences[f].readers \in Nat
                                /\ fences[f].life \in {"open", "closing", "closed"}
         /\ \A t \in Tasks :
              /\ task[t].pc \in PC /\ task[t].h \in {0} \cup Handles
              /\ task[t].f \in {0} \cup FenceIds /\ task[t].expect \in {0} \cup FenceIds
              /\ task[t].want \in Nat /\ task[t].phase \in {"plain", "mint", "settle", "all"}
              /\ task[t].todo \subseteq Handles /\ task[t].held \subseteq Handles \X FenceIds
         /\ \A h \in Handles : table[h] \in {0} \cup FenceIds /\ nat[h] \in Nat
<1>1. Len(fences) \in Nat /\ 0 \notin FenceIds /\ 0 \notin Handles
  BY FenceAssumption DEF TypeOK, FenceIds
<1>2. \A f \in FenceIds : /\ f \in Nat /\ fences[f].readers \in Nat
                          /\ fences[f].life \in {"open", "closing", "closed"}
  <2> DEFINE R == [readers : Nat, life : {"open", "closing", "closed"}]
  <2>0. fences \in Seq(R)
    BY DEF TypeOK
  <2>a. \A f \in FenceIds : f \in Nat
    BY <1>1 DEF FenceIds
  <2> HIDE DEF R
  <2>b. \A f \in FenceIds : fences[f] \in R
    BY <2>0 DEF FenceIds
  <2>1. \A f \in FenceIds : f \in Nat /\ fences[f] \in [readers : Nat, life : {"open", "closing", "closed"}]
    BY <2>a, <2>b DEF R
  <2>2. ASSUME NEW f \in FenceIds
        PROVE  fences[f].readers \in Nat /\ fences[f].life \in {"open", "closing", "closed"}
    BY <2>1
  <2> QED BY <2>1, <2>2
<1>3. \A t \in Tasks : task[t] \in TaskType
  BY DEF TypeOK
<1>4. \A t \in Tasks :
        /\ task[t].pc \in PC /\ task[t].h \in {0} \cup Handles
        /\ task[t].f \in {0} \cup FenceIds /\ task[t].expect \in {0} \cup FenceIds
        /\ task[t].want \in 0 .. opened /\ task[t].phase \in {"plain", "mint", "settle", "all"}
        /\ task[t].todo \subseteq Handles /\ task[t].held \subseteq Handles \X FenceIds
  BY <1>3 DEF TaskType
<1>5. opened \in Nat
  BY DEF TypeOK
<1>6. \A t \in Tasks : task[t].want \in Nat
  BY <1>4, <1>5
<1>7. \A h \in Handles : table[h] \in {0} \cup FenceIds /\ nat[h] \in Nat
  BY <1>5 DEF TypeOK
<1> QED BY <1>1, <1>2, <1>4, <1>6, <1>7

\* A guard names a handle and a fence.
LEMMA Guards ==
  ASSUME TypeOK, NEW t \in Tasks, NEW g \in task[t].held
  PROVE  g[1] \in Handles /\ g[2] \in FenceIds /\ g = <<g[1], g[2]>>
<1>1. g \in Handles \X FenceIds
  BY Fields
<1> QED BY <1>1

\* What a step may do to fences and table without disturbing their users: add a
\* fence for a handle that has none, and count.
Grown ==
  /\ FenceIds \subseteq FenceIds'
  /\ \A f \in FenceIds : fences'[f].life = fences[f].life
  /\ \A h \in Handles : table'[h] = table[h] \/ (table[h] = 0 /\ table'[h] \notin FenceIds)
  /\ \A h, i \in Handles : table'[h] # 0 /\ table'[h] = table'[i] => h = i

\* A thread that does not move keeps its part of the invariant.
LEMMA GrownTask ==
  ASSUME TypeOK, Grown, UNCHANGED load, NEW u \in Tasks, task'[u] = task[u], TaskOK(task[u])
  PROVE  TaskOK(task[u])'
<1> DEFINE r == task[u]
<1>0. /\ r.f \in {0} \cup FenceIds /\ 0 \notin FenceIds
      /\ \A g \in r.held : g[1] \in Handles /\ g[2] \in FenceIds
  BY Fields, Guards
<1>1. UseOK(r)'
  <2>1. r.pc \in FencePC \cup {"cl_mark"} => r.f \in FenceIds /\ r.h \in Handles
    BY <1>0 DEF TaskOK, UseOK, OpPC
  <2>2. r.pc \in FencePC \cup {"cl_mark"} => (fences'[r.f].life # "closed" => table'[r.h] = r.f)
    BY <1>0, <2>1 DEF TaskOK, UseOK, Grown, Life
  <2>3. r.pc \in InPC => fences'[r.f].life # "closed"
    BY <1>0, <2>1 DEF TaskOK, UseOK, Grown, Life, FencePC, CountPC
  <2> QED BY <1>0, <2>1, <2>2, <2>3 DEF TaskOK, UseOK, Life
<1>2. HoldOK(r)'
  <2>1. \A g \in r.held : table'[g[1]] = table[g[1]] /\ fences'[g[2]].life = fences[g[2]].life
    BY <1>0 DEF TaskOK, HoldOK, Grown
  <2> QED BY <2>1 DEF TaskOK, HoldOK, Life
<1>3. TodoOK(r)' /\ PhaseOK(r)'
  BY DEF TaskOK, TodoOK, PhaseOK
<1> QED BY <1>1, <1>2, <1>3 DEF TaskOK

\* entry(h).or_insert_with: the fence of h, old or new.
LEMMA GetGrows ==
  ASSUME TypeOK, OnceOK, NEW h \in Handles, NEW f \in Candidates(h), GetOrCreate(h, f)
  PROVE  /\ Grown /\ f \in FenceIds' /\ f # 0 /\ table'[h] = f
         /\ table' \in [Handles -> {0} \cup FenceIds']
         /\ fences' \in Seq([readers : Nat, life : {"open", "closing", "closed"}])
         /\ \A e \in FenceIds : fences'[e] = fences[e]
         /\ \A e \in FenceIds' \ FenceIds : fences'[e].readers = 0
<1>0. Len(fences) \in Nat /\ 0 \notin FenceIds /\ \A i \in Handles : table[i] \in {0} \cup FenceIds
  BY Fields
<1>1. CASE table[h] # 0
  BY <1>0, <1>1 DEF GetOrCreate, Candidates, Grown, OnceOK, FenceIds, TypeOK
<1>2. CASE table[h] = 0
  <2>1. f = Len(fences) + 1 /\ fences' = Append(fences, NewFence) /\ table' = [table EXCEPT ![h] = f]
    BY <1>2 DEF GetOrCreate
  <2>2. NewFence \in [readers : Nat, life : {"open", "closing", "closed"}] /\ NewFence.readers = 0
    BY DEF NewFence
  <2>3. /\ fences' \in Seq([readers : Nat, life : {"open", "closing", "closed"}])
        /\ Len(fences') = Len(fences) + 1
        /\ \A e \in 1 .. Len(fences) : fences'[e] = fences[e]
        /\ fences'[Len(fences) + 1] = NewFence
    BY <2>1, <2>2 DEF TypeOK
  <2>4. FenceIds' = FenceIds \cup {f} /\ f \notin FenceIds /\ f # 0
    BY <1>0, <2>1, <2>3 DEF FenceIds
  <2>5. \A e \in FenceIds : fences'[e] = fences[e]
    BY <2>3 DEF FenceIds
  <2>6. table'[h] = f /\ \A i \in Handles \ {h} : table'[i] = table[i]
    BY <2>1 DEF TypeOK
  <2>7. \A i, j \in Handles : table'[i] # 0 /\ table'[i] = table'[j] => i = j
    BY <1>0, <2>4, <2>6 DEF OnceOK
  <2>8. \A i \in Handles : table'[i] = table[i] \/ (table[i] = 0 /\ table'[i] \notin FenceIds)
    BY <1>2, <2>4, <2>6
  <2>9. Grown
    BY <2>4, <2>5, <2>7, <2>8 DEF Grown
  <2>10. table' \in [Handles -> {0} \cup FenceIds']
    BY <2>1, <2>4 DEF TypeOK
  <2> QED BY <2>1, <2>2, <2>3, <2>4, <2>5, <2>6, <2>9, <2>10
<1> QED BY <1>1, <1>2

\* Steps that leave fences and table alone.
LEMMA SameGrown ==
  ASSUME TypeOK, OnceOK, UNCHANGED table, FenceIds' = FenceIds,
         \A f \in FenceIds : fences'[f].life = fences[f].life
  PROVE  Grown
BY DEF Grown, OnceOK

-----------------------------------------------------------------------------
(* Steps of one thread *)

\* A thread moves and keeps its guards; fences and table only grow.
LEMMA MoveTasks ==
  ASSUME IInv, NEW t \in Tasks, NEW r, task' = [task EXCEPT ![t] = r],
         UNCHANGED load, Grown, r.held = task[t].held, TaskOK(r)',
         r.pc \in InPC => \/ task[t].pc \in InPC /\ r.f = task[t].f
                          \/ r.f \in FenceIds /\ Life(r.f) = "open",
         \A g \in Drained(r) : g \in Drained(task[t]) \/ Counted(g[2]) = {}
  PROVE  TasksOK' /\ OnceOK' /\ InsideOK'
<1>0. TypeOK /\ task'[t] = r /\ \A u \in Tasks \ {t} : task'[u] = task[u]
  BY DEF IInv, TypeOK
<1>1. TasksOK'
  <2> SUFFICES ASSUME NEW u \in Tasks PROVE TaskOK(task[u])'
    BY DEF TasksOK
  <2>1. CASE u = t
    BY <1>0, <2>1 DEF TaskOK, UseOK, HoldOK, TodoOK, PhaseOK
  <2>2. CASE u # t
    BY <1>0, <2>2, GrownTask DEF IInv, TasksOK
  <2> QED BY <2>1, <2>2
<1>2. OnceOK'
  <2>1. \A u \in Tasks : task'[u].held = task[u].held
    BY <1>0
  <2>2. \A u, v \in Tasks : \A g \in task'[u].held : g \in task'[v].held => u = v
    BY <2>1 DEF IInv, OnceOK
  <2> QED BY <2>2 DEF OnceOK, Grown
<1>3. InsideOK'
  <2> SUFFICES ASSUME NEW u \in Tasks, NEW v \in Tasks, task'[u].pc \in InPC,
                      NEW g \in Drained(task'[v]), g[2] = task'[u].f
               PROVE  FALSE
    BY DEF InsideOK, Drained
  <2>1. g \in Drained(task[v]) \/ Counted(g[2]) = {}
    BY <1>0
  <2>2. g \in task[v].held /\ g[2] \in FenceIds
    <3>1. g \in task[v].held
      BY <1>0 DEF Drained
    <3> QED BY <1>0, <3>1, Guards
  <2>3. CASE task[u].pc \in InPC /\ task'[u].f = task[u].f
    <3>1. u \in Counted(g[2])
      BY <2>3 DEF Counted, InPC
    <3>2. g \in Drained(task[v])
      BY <2>1, <3>1
    <3> QED BY <2>3, <3>2 DEF IInv, InsideOK
  <2>4. CASE Life(g[2]) = "open"
    BY <2>2, <2>4 DEF IInv, TasksOK, TaskOK, HoldOK
  <2> QED BY <1>0, <2>3, <2>4
<1> QED BY <1>1, <1>2, <1>3

\* The session of a mint: nothing changes for it when a thread that is not about
\* to commit a close moves, and no open session is replaced.
LEMMA MoveMint ==
  ASSUME IInv, NEW t \in Tasks, NEW r, task' = [task EXCEPT ![t] = r], Grown, TaskOK(r)',
         \A h \in Handles : nat[h] # 0 => nat'[h] = nat[h],
         task[t].pc \notin CommitPC,
         Bound(r) => \/ nat'[r.h] = r.want
                     \/ /\ Bound(task[t]) /\ r.h = task[t].h /\ r.expect = task[t].expect
                        /\ r.want = task[t].want
  PROVE  MintOK'
<1>0. TypeOK /\ task'[t] = r /\ \A u \in Tasks \ {t} : task'[u] = task[u]
  BY DEF IInv, TypeOK
<1> SUFFICES ASSUME NEW u \in Tasks, Bound(task'[u]), table'[task'[u].h] = task'[u].expect,
                    ~Over(task[u].h, task[u].expect)'
             PROVE  nat'[task'[u].h] = task'[u].want
  BY DEF MintOK, Bound, Over
<1>1. CASE u = t /\ nat'[r.h] = r.want
  BY <1>0, <1>1
<1>2. CASE /\ Bound(task[u]) /\ task'[u].h = task[u].h /\ task'[u].expect = task[u].expect
           /\ task'[u].want = task[u].want
  <2>1. /\ task[u].h \in Handles /\ task[u].expect \in FenceIds /\ task[u].want # 0
    <3>1. TaskOK(task[u]) /\ task[u].expect \in {0} \cup FenceIds
      BY <1>0, Fields DEF IInv, TasksOK
    <3>2. task[u].pc \in OpPC /\ task[u].pc # "arm" /\ task[u].want # 0
      BY <1>2, <3>1 DEF TaskOK, PhaseOK, Bound
    <3> QED BY <1>2, <3>1, <3>2 DEF TaskOK, UseOK, PhaseOK, Bound
  <2>2. table[task[u].h] = task[u].expect
    BY <1>2, <2>1 DEF Grown
  <2>3. ~Over(task[u].h, task[u].expect)
    <3> SUFFICES ASSUME NEW v \in Tasks, task[v].pc \in CommitPC,
                        <<task[u].h, task[u].expect>> \in task[v].held
                 PROVE  FALSE
      BY DEF Over
    <3>1. task'[v] = task[v]
      BY <1>0
    <3> QED BY <1>2, <3>1 DEF Over
  <2>4. nat[task[u].h] = task[u].want
    BY <1>2, <2>2, <2>3 DEF IInv, MintOK
  <2> QED BY <1>2, <2>1, <2>4
<1> QED BY <1>0, <1>1, <1>2

\* The counters, when no one becomes or ceases to be a reader.
LEMMA SameCount ==
  ASSUME IInv, NEW t \in Tasks, NEW r, task' = [task EXCEPT ![t] = r], FenceIds \subseteq FenceIds',
         \A f \in FenceIds : fences'[f].readers = fences[f].readers,
         \A f \in FenceIds' \ FenceIds : fences'[f].readers = 0,
         r.pc \in CountPC <=> task[t].pc \in CountPC,
         r.pc \in CountPC => r.f = task[t].f
  PROVE  CountOK'
<1>0. TypeOK /\ task'[t] = r /\ \A u \in Tasks \ {t} : task'[u] = task[u]
  BY DEF IInv, TypeOK
<1>1. ASSUME NEW f PROVE Counted(f)' = Counted(f)
  BY <1>0 DEF Counted, CountPC, InPC
<1>2. ASSUME NEW f \in FenceIds' \ FenceIds PROVE Counted(f) = {}
  <2>1. \A u \in Tasks : task[u].f \in {0} \cup FenceIds /\ 0 \notin FenceIds
    BY <1>0, Fields
  <2>2. \A u \in Tasks : task[u].pc \in CountPC => task[u].f # 0
    BY DEF IInv, TasksOK, TaskOK, UseOK, FencePC
  <2> QED BY <2>1, <2>2 DEF Counted, CountPC, InPC
<1>3. IsFiniteSet({}) /\ Cardinality({}) = 0
  BY FS_EmptySet
<1>4. ASSUME NEW f \in FenceIds'
      PROVE  IsFiniteSet(Counted(f)') /\ fences'[f].readers = Cardinality(Counted(f)')
  BY <1>1, <1>2, <1>3 DEF IInv, CountOK
<1> QED BY <1>4 DEF CountOK

\* A thread becomes a reader of its fence.
LEMMA CountUp ==
  ASSUME IInv, NEW t \in Tasks, NEW r, task' = [task EXCEPT ![t] = r],
         task[t].f \in FenceIds, task[t].pc \notin CountPC, r.pc \in CountPC, r.f = task[t].f,
         fences' = [fences EXCEPT ![task[t].f].readers = @ + 1]
  PROVE  CountOK'
<1>0. TypeOK /\ task'[t] = r /\ \A u \in Tasks \ {t} : task'[u] = task[u]
  BY DEF IInv, TypeOK
<1>1. /\ FenceIds' = FenceIds /\ fences'[task[t].f].readers = fences[task[t].f].readers + 1
      /\ \A f \in FenceIds \ {task[t].f} : fences'[f].readers = fences[f].readers
  BY <1>0 DEF TypeOK, FenceIds
<1>2. ASSUME NEW f \in FenceIds, f # task[t].f PROVE Counted(f)' = Counted(f)
  BY <1>0, <1>2 DEF Counted, CountPC, InPC
<1>3. ASSUME NEW f \in FenceIds, f = task[t].f
      PROVE Counted(f)' = Counted(f) \cup {t} /\ t \notin Counted(f)
  BY <1>0, <1>3 DEF Counted, CountPC, InPC
<1>4. ASSUME NEW f \in FenceIds
      PROVE  IsFiniteSet(Counted(f)') /\ fences'[f].readers = Cardinality(Counted(f)')
  <2>0. IsFiniteSet(Counted(f)) /\ fences[f].readers = Cardinality(Counted(f))
    BY DEF IInv, CountOK
  <2>1. CASE f # task[t].f
    BY <1>1, <1>2, <2>0, <2>1
  <2>2. CASE f = task[t].f
    BY <1>1, <1>3, <2>0, <2>2, Count
  <2> QED BY <2>1, <2>2
<1> QED BY <1>1, <1>4 DEF CountOK

\* A reader leaves its fence.
LEMMA CountDown ==
  ASSUME IInv, NEW t \in Tasks, NEW r, task' = [task EXCEPT ![t] = r],
         task[t].f \in FenceIds, task[t].pc \in CountPC, r.pc \notin CountPC,
         fences' = [fences EXCEPT ![task[t].f].readers = @ - 1]
  PROVE  CountOK' /\ fences[task[t].f].readers - 1 \in Nat
<1>0. TypeOK /\ task'[t] = r /\ \A u \in Tasks \ {t} : task'[u] = task[u]
  BY DEF IInv, TypeOK
<1>1. /\ FenceIds' = FenceIds /\ fences'[task[t].f].readers = fences[task[t].f].readers - 1
      /\ \A f \in FenceIds \ {task[t].f} : fences'[f].readers = fences[f].readers
  BY <1>0 DEF TypeOK, FenceIds
<1>2. ASSUME NEW f \in FenceIds, f # task[t].f PROVE Counted(f)' = Counted(f)
  BY <1>0, <1>2 DEF Counted, CountPC, InPC
<1>3. ASSUME NEW f \in FenceIds, f = task[t].f
      PROVE Counted(f)' = Counted(f) \ {t} /\ t \in Counted(f)
  BY <1>0, <1>3 DEF Counted, CountPC, InPC
<1>4. ASSUME NEW f \in FenceIds
      PROVE  /\ IsFiniteSet(Counted(f)') /\ fences'[f].readers = Cardinality(Counted(f)')
             /\ f = task[t].f => fences[f].readers - 1 \in Nat
  <2>0. IsFiniteSet(Counted(f)) /\ fences[f].readers = Cardinality(Counted(f))
    BY DEF IInv, CountOK
  <2>1. CASE f # task[t].f
    BY <1>1, <1>2, <2>0, <2>1
  <2>2. CASE f = task[t].f
    <3>1. /\ IsFiniteSet(Counted(f) \ {t})
          /\ Cardinality(Counted(f) \ {t}) = Cardinality(Counted(f)) - 1
      BY <1>3, <2>0, <2>2, Count
    <3>2. Cardinality(Counted(f) \ {t}) \in Nat
      BY <3>1, Count
    <3> QED BY <1>1, <1>3, <2>0, <2>2, <3>1, <3>2
  <2> QED BY <2>1, <2>2
<1> QED BY <1>1, <1>4 DEF CountOK

\* A move of one thread, put together.
LEMMA Move ==
  ASSUME IInv, TypeOK', NEW t \in Tasks, NEW r, task' = [task EXCEPT ![t] = r],
         UNCHANGED load, Grown, r.held = task[t].held, TaskOK(r)',
         r.pc \in InPC => \/ task[t].pc \in InPC /\ r.f = task[t].f
                          \/ r.f \in FenceIds /\ Life(r.f) = "open",
         \A g \in Drained(r) : g \in Drained(task[t]) \/ Counted(g[2]) = {},
         \A h \in Handles : nat[h] # 0 => nat'[h] = nat[h],
         task[t].pc \notin CommitPC,
         Bound(r) => \/ nat'[r.h] = r.want
                     \/ /\ Bound(task[t]) /\ r.h = task[t].h /\ r.expect = task[t].expect
                        /\ r.want = task[t].want,
         CountOK'
  PROVE  IInv'
BY MoveTasks, MoveMint DEF IInv

\* The threads' types, after a move.
LEMMA TypeStep ==
  ASSUME TypeOK, NEW t \in Tasks, NEW r, r \in TaskType', task' = [task EXCEPT ![t] = r],
         FenceIds \subseteq FenceIds', opened' \in {opened, opened + 1}
  PROVE  task' \in [Tasks -> TaskType']
<1>1. opened \in Nat /\ 0 .. opened \subseteq 0 .. opened'
  BY DEF TypeOK
<1>2. TaskType \subseteq TaskType'
  <2> SUFFICES ASSUME NEW x \in TaskType PROVE x \in TaskType'
    OBVIOUS
  <2>1. Handles \X FenceIds \subseteq Handles \X FenceIds'
    OBVIOUS
  <2> QED BY <1>1, <2>1 DEF TaskType
<1>3. task \in [Tasks -> TaskType']
  BY <1>2 DEF TypeOK
<1> QED BY <1>3

\* A thread that is done has nothing.
LEMMA IdleFacts ==
  /\ Idle.pc = "idle" /\ Idle.held = {} /\ Idle.phase = "plain" /\ Drained(Idle) = {} /\ ~Bound(Idle)
  /\ Idle.pc \notin CountPC /\ Idle.pc \notin InPC
  /\ opened \in Nat => Idle \in TaskType
  /\ TaskOK(Idle)
<1>1. /\ Idle.pc = "idle" /\ Idle.held = {} /\ Idle.phase = "plain"
  BY DEF Idle
<1>2. opened \in Nat => Idle \in TaskType
  BY DEF Idle, TaskType, PC
<1>3. TaskOK(Idle)
  BY <1>1 DEF TaskOK, UseOK, HoldOK, TodoOK, PhaseOK, OpPC, FencePC, CountPC, InPC, ClosePC, HoldPC,
              DonePC, CommitPC
<1> QED BY <1>1, <1>2, <1>3 DEF Drained, Bound, CountPC, InPC

\* A thread without guards ends, and is no reader.
LEMMA FinishStep ==
  ASSUME IInv, NEW t \in Tasks, Finish(t), task[t].held = {}, task[t].pc \notin CountPC \cup CommitPC,
         UNCHANGED <<load, fences, table, nat, opened, starts>>,
         slot' \subseteq Handles, mech' \in [Handles -> 0 .. opened]
  PROVE  IInv'
<1>0. TypeOK /\ FenceIds' = FenceIds /\ opened \in Nat
  BY DEF IInv, TypeOK, FenceIds
<1>1. PICK r : r = Idle
  OBVIOUS
<1>2. /\ r \in TaskType' /\ TaskOK(r)' /\ r.held = {} /\ r.pc \notin InPC /\ r.pc \notin CountPC
      /\ ~Bound(r) /\ Drained(r) = {}
  <2>1. r \in TaskType /\ TaskOK(r)
    BY <1>0, <1>1, IdleFacts
  <2>2. r \in TaskType' /\ TaskOK(r)'
    BY <1>0, <2>1 DEF TaskType, TaskOK, UseOK, HoldOK, TodoOK, PhaseOK, Life
  <2> QED BY <1>1, <2>2, IdleFacts
<1>3. task' = [task EXCEPT ![t] = r]
  BY <1>1 DEF Finish
<1>4. TypeOK'
  BY <1>0, <1>2, <1>3, TypeStep DEF TypeOK
<1>5. Grown
  BY <1>0, SameGrown DEF IInv
<1>6. CountOK'
  BY <1>0, <1>2, <1>3, SameCount
<1> QED BY <1>2, <1>3, <1>4, <1>5, <1>6, Move

\* A thread without guards that is no reader goes on, and is none then.
LEMMA PlainStep ==
  ASSUME IInv, NEW t \in Tasks, NEW r, task' = [task EXCEPT ![t] = r], r \in TaskType', TaskOK(r)',
         task[t].held = {}, r.held = {}, task[t].pc \notin CountPC, r.pc \notin CountPC,
         task[t].pc \notin CommitPC,
         Bound(r) => /\ Bound(task[t]) /\ r.h = task[t].h /\ r.expect = task[t].expect
                     /\ r.want = task[t].want,
         UNCHANGED <<load, fences, table, nat, opened>>,
         starts' \in 0 .. MaxStarts, slot' \subseteq Handles, mech' \in [Handles -> 0 .. opened]
  PROVE  IInv'
<1>0. TypeOK /\ FenceIds' = FenceIds
  BY DEF IInv, TypeOK, FenceIds
<1>1. TypeOK'
  BY <1>0, TypeStep DEF TypeOK
<1>2. Grown
  BY <1>0, SameGrown DEF IInv
<1>3. CountOK'
  BY <1>0, SameCount
<1>4. Drained(r) = {} /\ r.pc \notin InPC
  BY DEF Drained, CountPC
<1> QED BY <1>1, <1>2, <1>3, <1>4, Move

-----------------------------------------------------------------------------
(* Calls begin *)

\* A thread takes up a call.
LEMMA StartStep ==
  ASSUME IInv, UNCHANGED load, NEW t \in Tasks, NEW r, Start(t, r), r \in TaskType, TaskOK(r),
         r.held = {}, r.pc \notin CountPC, ~Bound(r)
  PROVE  IInv'
<1>0. /\ task' = [task EXCEPT ![t] = r] /\ task[t].pc = "idle" /\ starts' \in 0 .. MaxStarts
      /\ UNCHANGED <<load, fences, table, nat, opened, slot, mech>> /\ TypeOK
  BY FenceAssumption DEF Start, At, IInv, TypeOK
<1>1. r \in TaskType' /\ TaskOK(r)'
  BY <1>0 DEF TaskType, FenceIds, TaskOK, UseOK, HoldOK, TodoOK, PhaseOK, Life
<1>2. task[t].held = {}
  BY <1>0 DEF IInv, TasksOK, TaskOK, HoldOK, HoldPC, DonePC, CommitPC
<1>3. task[t].pc \notin CountPC /\ task[t].pc \notin CommitPC
  BY <1>0 DEF CountPC, InPC, CommitPC
<1> QED BY <1>0, <1>1, <1>2, <1>3, PlainStep DEF TypeOK

\* Every call begins with the invariant in place.
LEMMA StartsOK ==
  ASSUME IInv, UNCHANGED load, NEW t \in Tasks,
         \/ StartOpen(t) \/ StartCloseAll(t)
         \/ \E h \in Handles : StartOp(t, h) \/ StartMint(t, h) \/ StartClose(t, h)
  PROVE  IInv'
<1>0. TypeOK /\ opened \in Nat /\ slot \subseteq Handles /\ \A h \in Handles : nat[h] \in 0 .. opened
  BY DEF IInv, TypeOK
<1> USE DEF TaskOK, UseOK, HoldOK, TodoOK, PhaseOK, OpPC, FencePC, CountPC, InPC, ClosePC, HoldPC,
            DonePC, CommitPC, Bound
<1>1. CASE StartOpen(t)
  <2>1. PICK r : r = [Idle EXCEPT !.pc = "open_native"]
    OBVIOUS
  <2>2. r \in TaskType /\ r.pc = "open_native" /\ r.held = {} /\ r.phase = "plain"
    BY <1>0, <2>1 DEF Idle, TaskType, PC
  <2>3. Start(t, r)
    BY <1>1, <2>1 DEF StartOpen
  <2> QED BY <2>2, <2>3, StartStep
<1>2. CASE StartCloseAll(t)
  <2>1. PICK r : r = [Idle EXCEPT !.pc = IF slot = {} THEN "cl_native" ELSE "cl_get",
                                  !.phase = "all", !.todo = slot]
    OBVIOUS
  <2>2. /\ r \in TaskType /\ r.pc = IF slot = {} THEN "cl_native" ELSE "cl_get"
        /\ r.held = {} /\ r.phase = "all" /\ r.todo = slot
    <3>1. r = [pc |-> IF slot = {} THEN "cl_native" ELSE "cl_get", h |-> 0, f |-> 0, want |-> 0,
               expect |-> 0, phase |-> "all", todo |-> slot, held |-> {}]
      BY <2>1 DEF Idle
    <3>2. (IF slot = {} THEN "cl_native" ELSE "cl_get") \in PC
      BY DEF PC
    <3>3. r \in TaskType
      BY <1>0, <3>1, <3>2 DEF TaskType
    <3> QED BY <3>1, <3>3
  <2>3. Start(t, r) /\ load = "close_alls"
    BY <1>2, <2>1 DEF StartCloseAll
  <2>4. TaskOK(r) /\ r.pc \notin CountPC
    BY <2>2, <2>3 DEF HeldHandles
  <2> QED BY <2>2, <2>3, <2>4, StartStep
<1>3. ASSUME NEW h \in Handles, StartOp(t, h) PROVE IInv'
  <2>1. PICK r : r = [Idle EXCEPT !.pc = "op_get", !.h = h, !.want = nat[h]]
    OBVIOUS
  <2>2. r \in TaskType /\ r.pc = "op_get" /\ r.held = {} /\ r.phase = "plain" /\ r.h = h
    BY <1>0, <2>1 DEF Idle, TaskType, PC
  <2>3. Start(t, r)
    BY <1>3, <2>1 DEF StartOp
  <2> QED BY <2>2, <2>3, StartStep
<1>4. ASSUME NEW h \in Handles, StartMint(t, h) PROVE IInv'
  <2>1. PICK r : r = [Idle EXCEPT !.pc = "arm", !.h = h, !.want = nat[h], !.phase = "mint"]
    OBVIOUS
  <2>2. r \in TaskType /\ r.pc = "arm" /\ r.held = {} /\ r.phase = "mint" /\ r.h = h
    BY <1>0, <2>1 DEF Idle, TaskType, PC
  <2>3. Start(t, r) /\ load = "mints"
    BY <1>4, <2>1 DEF StartMint
  <2> QED BY <2>2, <2>3, StartStep
<1>5. ASSUME NEW h \in Handles, StartClose(t, h) PROVE IInv'
  <2>1. PICK r : r = [Idle EXCEPT !.pc = "cl_get", !.h = h, !.todo = {h}]
    OBVIOUS
  <2>2. /\ r \in TaskType /\ r.pc = "cl_get" /\ r.held = {} /\ r.phase = "plain" /\ r.h = h
        /\ r.todo = {h}
    <3>1. r = [pc |-> "cl_get", h |-> h, f |-> 0, want |-> 0,
               expect |-> 0, phase |-> "plain", todo |-> {h}, held |-> {}]
      BY <2>1 DEF Idle
    <3>2. r \in TaskType
      BY <1>0, <3>1 DEF TaskType, PC
    <3> QED BY <3>1, <3>2
  <2>3. Start(t, r)
    BY <1>5, <2>1 DEF StartClose
  <2>4. TaskOK(r)
    BY <2>2 DEF HeldHandles
  <2> QED BY <2>2, <2>3, <2>4, StartStep
<1> QED BY <1>1, <1>2, <1>3, <1>4, <1>5

-----------------------------------------------------------------------------
(* Opens and operations *)

\* What is known of a thread in an operation, or in an open.
LEMMA OpFacts ==
  ASSUME IInv, NEW t \in Tasks, task[t].pc \in OpPC \cup {"open_native", "open_note"}
  PROVE  /\ TypeOK /\ opened \in Nat /\ task[t] \in TaskType /\ task[t].held = {}
         /\ task[t].pc \notin CommitPC /\ Drained(task[t]) = {}
         /\ task[t].pc # "open_native" => task[t].h \in Handles
         /\ task[t].pc \in FencePC => task[t].f \in FenceIds
<1>0. TypeOK /\ TaskOK(task[t]) /\ opened \in Nat /\ task[t] \in TaskType
  BY DEF IInv, TypeOK, TasksOK
<1>1. task[t].held = {} /\ task[t].pc \notin CommitPC
  BY <1>0 DEF TaskOK, HoldOK, OpPC, FencePC, CountPC, InPC, HoldPC, DonePC, CommitPC
<1>2. task[t].pc # "open_native" => task[t].h \in Handles
  BY <1>0 DEF TaskOK, UseOK
<1>3. task[t].pc \in FencePC => task[t].f \in FenceIds
  BY <1>0, Fields DEF TaskOK, UseOK
<1> QED BY <1>0, <1>1, <1>2, <1>3 DEF Drained

\* C_OpenSession returns a handle that is not in use.
LEMMA OpenNativeOK ==
  ASSUME IInv, UNCHANGED load, NEW t \in Tasks, OpenNative(t)
  PROVE  IInv'
<1>0. /\ task[t].pc = "open_native" /\ opened' = opened + 1
      /\ UNCHANGED <<load, fences, table, slot, mech, starts>>
  BY DEF OpenNative, At
<1>1. PICK h \in Handles :
        /\ nat[h] = 0 /\ nat' = [nat EXCEPT ![h] = opened']
        /\ task' = [task EXCEPT ![t].pc = "open_note", ![t].h = h]
  BY DEF OpenNative
<1>2. TypeOK /\ opened \in Nat /\ task[t] \in TaskType /\ task[t].held = {} /\ task[t].pc \notin CommitPC
  BY <1>0, OpFacts
<1>3. PICK r : r = [task[t] EXCEPT !.pc = "open_note", !.h = h]
  OBVIOUS
<1>4. task' = [task EXCEPT ![t] = r]
  BY <1>1, <1>3
<1>5. /\ r.pc = "open_note" /\ r.h = h /\ r.held = {} /\ r.phase = task[t].phase
      /\ r \in TaskType
  BY <1>2, <1>3 DEF TaskType, PC
<1>6. FenceIds' = FenceIds /\ 0 .. opened \subseteq 0 .. opened' /\ opened' \in Nat
  BY <1>0, <1>2 DEF FenceIds
<1>7. r \in TaskType'
  BY <1>5, <1>6 DEF TaskType
<1>8. TaskOK(r)'
  <2>1. TaskOK(task[t])
    BY DEF IInv, TasksOK
  <2> QED BY <1>0, <1>5, <2>1
        DEF TaskOK, UseOK, HoldOK, TodoOK, PhaseOK, OpPC, FencePC, CountPC, InPC, ClosePC, HoldPC,
            DonePC, CommitPC
<1>9. TypeOK'
  <2>1. nat' \in [Handles -> 0 .. opened'] /\ mech' \in [Handles -> 0 .. opened']
    BY <1>0, <1>1, <1>2, <1>6 DEF TypeOK
  <2>2. task' \in [Tasks -> TaskType']
    BY <1>0, <1>2, <1>4, <1>6, <1>7, TypeStep
  <2> QED BY <1>0, <1>2, <1>6, <2>1, <2>2 DEF TypeOK
<1>10. Grown
  BY <1>0, <1>2, <1>6, SameGrown DEF IInv
<1>11. CountOK'
  BY <1>0, <1>4, <1>5, <1>6, SameCount DEF CountPC, InPC
<1>12. \A i \in Handles : nat[i] # 0 => nat'[i] = nat[i]
  BY <1>1, <1>2 DEF TypeOK
<1>13. ~Bound(r) /\ Drained(r) = {} /\ r.pc \notin InPC
  <2>1. r.phase \notin {"mint", "settle"}
    BY <1>5, <1>8 DEF TaskOK, PhaseOK, OpPC, FencePC, CountPC, InPC
  <2> QED BY <1>5, <2>1 DEF Bound, Drained, InPC
<1> QED BY <1>0, <1>2, <1>4, <1>5, <1>8, <1>9, <1>10, <1>11, <1>12, <1>13, Move

\* remember_session_slot.
LEMMA OpenNoteOK ==
  ASSUME IInv, UNCHANGED load, NEW t \in Tasks, OpenNote(t)
  PROVE  IInv'
<1>1. task[t].pc = "open_note" /\ slot' = slot \cup {task[t].h} /\ Finish(t)
      /\ UNCHANGED <<fences, table, nat, opened, mech, starts>>
  BY DEF OpenNote, At
<1>2. TypeOK /\ task[t].held = {} /\ task[t].h \in Handles
  BY <1>1, OpFacts
<1>3. slot' \subseteq Handles /\ mech' \in [Handles -> 0 .. opened]
  BY <1>1, <1>2 DEF TypeOK
<1> QED BY <1>1, <1>2, <1>3, FinishStep DEF CountPC, InPC, CommitPC

\* A thread gets the fence of a handle and keeps what it has.
LEMMA GetStep ==
  ASSUME IInv, NEW t \in Tasks, NEW h \in Handles, NEW f \in Candidates(h), GetOrCreate(h, f),
         NEW r, task' = [task EXCEPT ![t] = r], r \in TaskType', TaskOK(r)',
         r.held = task[t].held, task[t].pc \notin CountPC, r.pc \notin CountPC,
         task[t].pc \notin CommitPC, Drained(r) = {},
         Bound(r) => /\ Bound(task[t]) /\ r.h = task[t].h /\ r.expect = task[t].expect
                     /\ r.want = task[t].want,
         UNCHANGED <<load, nat, opened, slot, mech, starts>>
  PROVE  IInv'
<1>0. TypeOK /\ OnceOK
  BY DEF IInv
<1>1. /\ Grown /\ table' \in [Handles -> {0} \cup FenceIds']
      /\ fences' \in Seq([readers : Nat, life : {"open", "closing", "closed"}])
      /\ \A e \in FenceIds : fences'[e] = fences[e]
      /\ \A e \in FenceIds' \ FenceIds : fences'[e].readers = 0
  BY <1>0, GetGrows
<1>2. FenceIds \subseteq FenceIds'
  BY <1>1 DEF Grown
<1>3. TypeOK'
  BY <1>0, <1>1, <1>2, TypeStep DEF TypeOK
<1>4. CountOK'
  BY <1>1, <1>2, SameCount
<1>5. r.pc \notin InPC
  BY DEF CountPC
<1> QED BY <1>1, <1>3, <1>4, <1>5, Move

\* incarnation_or_create.
LEMMA ArmOK ==
  ASSUME IInv, UNCHANGED load, NEW t \in Tasks, Arm(t)
  PROVE  IInv'
<1>0. task[t].pc = "arm" /\ UNCHANGED <<load, nat, opened, slot, mech, starts>>
  BY DEF Arm, At
<1>1. /\ TypeOK /\ opened \in Nat /\ task[t] \in TaskType /\ task[t].held = {} /\ task[t].h \in Handles
      /\ task[t].pc \notin CommitPC
  BY <1>0, OpFacts DEF OpPC
<1>2. PICK h \in Handles : h = task[t].h
  BY <1>1
<1>3. PICK f \in Candidates(h) :
        GetOrCreate(h, f) /\ task' = [task EXCEPT ![t].pc = "op_get", ![t].expect = f]
  BY <1>2 DEF Arm
<1>4. PICK r : r = [task[t] EXCEPT !.pc = "op_get", !.expect = f]
  OBVIOUS
<1>5. task' = [task EXCEPT ![t] = r]
  BY <1>3, <1>4
<1>6. Grown /\ f \in FenceIds' /\ f # 0
  BY <1>1, <1>3, GetGrows DEF IInv
<1>7. /\ r.pc = "op_get" /\ r.h = h /\ r.held = {} /\ r.phase = task[t].phase /\ r.expect = f
      /\ r.want = task[t].want
  BY <1>1, <1>2, <1>4 DEF TaskType
<1>8. r \in TaskType'
  <2>1. FenceIds \subseteq FenceIds' /\ Handles \X FenceIds \subseteq Handles \X FenceIds'
    BY <1>6 DEF Grown
  <2> QED BY <1>0, <1>1, <1>4, <1>6, <2>1 DEF TaskType, PC
<1>9. TaskOK(task[t])
  BY DEF IInv, TasksOK
<1>10. r.phase # "settle" /\ r.phase # "all"
  BY <1>0, <1>7, <1>9 DEF TaskOK, PhaseOK, OpPC
<1>11. TaskOK(r)'
  BY <1>0, <1>6, <1>7, <1>9, <1>10
     DEF TaskOK, UseOK, HoldOK, TodoOK, PhaseOK, OpPC, FencePC, CountPC, InPC, ClosePC, HoldPC,
         DonePC, CommitPC
<1>12. ~Bound(r) /\ Drained(r) = {} /\ r.pc \notin CountPC /\ task[t].pc \notin CountPC
  BY <1>0, <1>7, <1>10 DEF Bound, Drained, CountPC, InPC
<1> QED BY <1>0, <1>1, <1>3, <1>5, <1>7, <1>8, <1>11, <1>12, GetStep

\* enter and enter_checked, up to the clone of the Arc.
LEMMA OpGetOK ==
  ASSUME IInv, UNCHANGED load, NEW t \in Tasks, OpGet(t)
  PROVE  IInv'
<1>0. task[t].pc = "op_get" /\ UNCHANGED <<load, nat, opened, slot, mech, starts>>
  BY DEF OpGet, At
<1>1. /\ TypeOK /\ opened \in Nat /\ task[t] \in TaskType /\ task[t].held = {} /\ task[t].h \in Handles
      /\ task[t].pc \notin CommitPC
  BY <1>0, OpFacts DEF OpPC
<1>2. TaskOK(task[t])
  BY DEF IInv, TasksOK
<1>a. task[t].pc \notin CountPC
  BY <1>0 DEF CountPC, InPC
<1>3. CASE task[t].phase # "settle"
  <2>2. PICK h \in Handles : h = task[t].h
    BY <1>1
  <2>3. PICK f \in Candidates(h) :
          GetOrCreate(h, f) /\ task' = [task EXCEPT ![t].pc = "op_load", ![t].f = f]
    BY <1>3, <2>2 DEF OpGet
  <2>4. PICK r : r = [task[t] EXCEPT !.pc = "op_load", !.f = f]
    OBVIOUS
  <2>5. task' = [task EXCEPT ![t] = r]
    BY <2>3, <2>4
  <2>6. Grown /\ f \in FenceIds' /\ f # 0 /\ table'[h] = f
    BY <1>1, <2>3, GetGrows DEF IInv
  <2>7. /\ r.pc = "op_load" /\ r.h = h /\ r.held = {} /\ r.phase = task[t].phase /\ r.f = f
        /\ r.expect = task[t].expect
    BY <1>1, <2>2, <2>4 DEF TaskType
  <2>8. r \in TaskType'
    <3>1. FenceIds \subseteq FenceIds' /\ Handles \X FenceIds \subseteq Handles \X FenceIds'
      BY <2>6 DEF Grown
    <3> QED BY <1>0, <1>1, <2>4, <2>6, <3>1 DEF TaskType, PC
  <2>11. TaskOK(r)'
    BY <1>0, <1>2, <1>3, <2>6, <2>7
       DEF TaskOK, UseOK, HoldOK, TodoOK, PhaseOK, OpPC, FencePC, CountPC, InPC, ClosePC, HoldPC,
           DonePC, CommitPC
  <2>12. ~Bound(r) /\ Drained(r) = {} /\ r.pc \notin CountPC
    BY <1>3, <2>7 DEF Bound, Drained, CountPC, InPC
  <2> QED BY <1>0, <1>1, <1>a, <2>3, <2>5, <2>7, <2>8, <2>11, <2>12, GetStep
<1>4. CASE /\ task[t].phase = "settle" /\ table[task[t].h] = task[t].expect
           /\ task' = [task EXCEPT ![t].pc = "op_load", ![t].f = task[t].expect]
           /\ UNCHANGED <<fences, table>>
  <2>4. PICK r : r = [task[t] EXCEPT !.pc = "op_load", !.f = task[t].expect]
    OBVIOUS
  <2>5. task' = [task EXCEPT ![t] = r]
    BY <1>4, <2>4
  <2>6. /\ r.pc = "op_load" /\ r.h = task[t].h /\ r.held = {} /\ r.phase = "settle"
        /\ r.f = task[t].expect /\ r.expect = task[t].expect /\ r.want = task[t].want
        /\ r \in TaskType
    BY <1>1, <1>4, <2>4 DEF TaskType, PC
  <2>7. r \in TaskType'
    BY <1>0, <1>4, <2>6 DEF TaskType, FenceIds
  <2>8. TaskOK(r)'
    BY <1>0, <1>1, <1>2, <1>4, <2>6
       DEF TaskOK, UseOK, HoldOK, TodoOK, PhaseOK, OpPC, FencePC, CountPC, InPC, ClosePC, HoldPC,
           DonePC, CommitPC
  <2>9. r.pc \notin CountPC /\ Bound(task[t])
    BY <1>4, <2>6 DEF CountPC, InPC, Bound
  <2> QED BY <1>0, <1>1, <1>4, <1>a, <2>5, <2>6, <2>7, <2>8, <2>9, PlainStep DEF TypeOK
<1>5. CASE Finish(t) /\ UNCHANGED <<fences, table>>
  BY <1>0, <1>1, <1>5, <1>a, FinishStep DEF TypeOK
<1> QED BY <1>3, <1>4, <1>5 DEF OpGet

\* A counter changes; nothing else of the fences does.
LEMMA Counter ==
  ASSUME TypeOK, NEW f \in FenceIds, NEW n \in Nat, fences' = [fences EXCEPT ![f].readers = n]
  PROVE  /\ fences' \in Seq([readers : Nat, life : {"open", "closing", "closed"}])
         /\ FenceIds' = FenceIds /\ \A e \in FenceIds : fences'[e].life = fences[e].life
<1> DEFINE R == [readers : Nat, life : {"open", "closing", "closed"}]
<1>1. fences \in Seq(R) /\ Len(fences) \in Nat
  BY Fields DEF TypeOK
<1> HIDE DEF R
<1>2. fences[f] \in R
  BY <1>1 DEF FenceIds
<1> USE DEF R
<1>3. [fences[f] EXCEPT !.readers = n] \in R
  BY <1>2
<1>4. fences' \in Seq(R) /\ Len(fences') = Len(fences)
  BY <1>1, <1>3 DEF FenceIds
<1>5. \A e \in FenceIds : fences'[e].life = fences[e].life
  BY <1>1, <1>2 DEF FenceIds
<1> QED BY <1>4, <1>5 DEF FenceIds

\* The first load of the lifecycle.
LEMMA OpLoadOK ==
  ASSUME IInv, UNCHANGED load, NEW t \in Tasks, OpLoad(t)
  PROVE  IInv'
<1>0. task[t].pc = "op_load" /\ UNCHANGED <<load, fences, table, nat, opened, slot, mech, starts>>
  BY DEF OpLoad, At
<1>1. /\ TypeOK /\ opened \in Nat /\ task[t] \in TaskType /\ task[t].held = {}
      /\ task[t].pc \notin CommitPC /\ task[t].pc \notin CountPC
  BY <1>0, OpFacts DEF OpPC, FencePC, CountPC, InPC
<1>2. TaskOK(task[t])
  BY DEF IInv, TasksOK
<1>3. CASE Go(t, "op_count")
  <2>1. PICK r : r = [task[t] EXCEPT !.pc = "op_count"]
    OBVIOUS
  <2>2. task' = [task EXCEPT ![t] = r]
    BY <1>3, <2>1 DEF Go
  <2>3. /\ r.pc = "op_count" /\ r.h = task[t].h /\ r.held = {} /\ r.phase = task[t].phase
        /\ r.f = task[t].f /\ r.expect = task[t].expect /\ r.want = task[t].want /\ r \in TaskType
    BY <1>1, <2>1 DEF TaskType, PC
  <2>4. r \in TaskType'
    BY <1>0, <2>3 DEF TaskType, FenceIds
  <2>5. TaskOK(r)'
    BY <1>0, <1>2, <2>3
       DEF TaskOK, UseOK, HoldOK, TodoOK, PhaseOK, OpPC, FencePC, CountPC, InPC, ClosePC, HoldPC,
           DonePC, CommitPC, Life
  <2>6. r.pc \notin CountPC /\ (Bound(r) => Bound(task[t]))
    BY <2>3 DEF CountPC, InPC, Bound
  <2> QED BY <1>0, <1>1, <2>2, <2>3, <2>4, <2>5, <2>6, PlainStep DEF TypeOK
<1>4. CASE Finish(t)
  BY <1>0, <1>1, <1>4, FinishStep DEF TypeOK
<1> QED BY <1>3, <1>4 DEF OpLoad

\* The increment.
LEMMA OpCountOK ==
  ASSUME IInv, UNCHANGED load, NEW t \in Tasks, OpCount(t)
  PROVE  IInv'
<1>0. /\ task[t].pc = "op_count" /\ UNCHANGED <<load, table, nat, opened, slot, mech, starts>>
      /\ fences' = [fences EXCEPT ![task[t].f].readers = @ + 1] /\ Go(t, "op_recheck")
  BY DEF OpCount, At
<1>1. /\ TypeOK /\ task[t] \in TaskType /\ task[t].held = {} /\ task[t].f \in FenceIds
      /\ task[t].pc \notin CommitPC /\ task[t].pc \notin CountPC
  BY <1>0, OpFacts DEF OpPC, FencePC, CountPC, InPC
<1>2. TaskOK(task[t])
  BY DEF IInv, TasksOK
<1>3. PICK r : r = [task[t] EXCEPT !.pc = "op_recheck"]
  OBVIOUS
<1>4. task' = [task EXCEPT ![t] = r]
  BY <1>0, <1>3 DEF Go
<1>5. /\ r.pc = "op_recheck" /\ r.h = task[t].h /\ r.held = {} /\ r.phase = task[t].phase
      /\ r.f = task[t].f /\ r.expect = task[t].expect /\ r.want = task[t].want /\ r \in TaskType
  BY <1>1, <1>3 DEF TaskType, PC
<1>6. PICK f \in FenceIds, n \in Nat : f = task[t].f /\ n = fences[task[t].f].readers + 1
  BY <1>1, Fields
<1>7. fences' = [fences EXCEPT ![f].readers = n]
  BY <1>0, <1>6
<1>8. /\ fences' \in Seq([readers : Nat, life : {"open", "closing", "closed"}])
      /\ FenceIds' = FenceIds /\ \A e \in FenceIds : fences'[e].life = fences[e].life
  BY <1>1, <1>7, Counter
<1>9. r \in TaskType'
  BY <1>0, <1>5, <1>8 DEF TaskType
<1>10. TypeOK'
  BY <1>0, <1>1, <1>4, <1>8, <1>9, TypeStep DEF TypeOK
<1>11. Grown
  BY <1>0, <1>1, <1>8, SameGrown DEF IInv
<1>12. CountOK'
  BY <1>0, <1>1, <1>4, <1>5, CountUp DEF CountPC
<1>13. TaskOK(r)'
  BY <1>0, <1>1, <1>2, <1>5, <1>8
     DEF TaskOK, UseOK, HoldOK, TodoOK, PhaseOK, OpPC, FencePC, CountPC, InPC, ClosePC, HoldPC,
         DonePC, CommitPC, Life
<1>14. r.pc \notin InPC /\ (Bound(r) => Bound(task[t])) /\ Drained(r) = {}
  BY <1>5 DEF InPC, Bound, Drained
<1> QED BY <1>0, <1>1, <1>4, <1>5, <1>10, <1>11, <1>12, <1>13, <1>14, Move

\* The second load: a close that marked meanwhile still wins.
LEMMA OpRecheckOK ==
  ASSUME IInv, UNCHANGED load, NEW t \in Tasks, OpRecheck(t)
  PROVE  IInv'
<1>0. /\ task[t].pc = "op_recheck" /\ UNCHANGED <<load, fences, table, nat, opened, slot, mech, starts>>
      /\ Go(t, IF Life(task[t].f) = "open" THEN "op_native" ELSE "op_uncount")
  BY DEF OpRecheck, At
<1>1. /\ TypeOK /\ task[t] \in TaskType /\ task[t].held = {} /\ task[t].f \in FenceIds
      /\ task[t].pc \notin CommitPC
  BY <1>0, OpFacts DEF OpPC, FencePC, CountPC, InPC
<1>2. TaskOK(task[t])
  BY DEF IInv, TasksOK
<1>a. PICK p \in {"op_native", "op_uncount"} :
        /\ p = IF Life(task[t].f) = "open" THEN "op_native" ELSE "op_uncount"
        /\ p = "op_native" <=> Life(task[t].f) = "open"
  OBVIOUS
<1>3. PICK r : r = [task[t] EXCEPT !.pc = p]
  OBVIOUS
<1>4. task' = [task EXCEPT ![t] = r]
  BY <1>0, <1>3, <1>a DEF Go
<1>5. /\ r.pc = p /\ r.h = task[t].h /\ r.held = {} /\ r.phase = task[t].phase
      /\ r.f = task[t].f /\ r.expect = task[t].expect /\ r.want = task[t].want /\ r \in TaskType
  BY <1>1, <1>3 DEF TaskType, PC
<1>6. FenceIds' = FenceIds
  BY <1>0 DEF FenceIds
<1>9. r \in TaskType'
  BY <1>0, <1>5, <1>6 DEF TaskType
<1>10. TypeOK'
  BY <1>0, <1>1, <1>4, <1>6, <1>9, TypeStep DEF TypeOK
<1>11. Grown
  BY <1>0, <1>1, <1>6, SameGrown DEF IInv
<1>12. CountOK'
  BY <1>0, <1>4, <1>5, <1>6, SameCount DEF CountPC, InPC
<1>13. TaskOK(r)'
  BY <1>0, <1>2, <1>5, <1>a
     DEF TaskOK, UseOK, HoldOK, TodoOK, PhaseOK, OpPC, FencePC, CountPC, InPC, ClosePC, HoldPC,
         DonePC, CommitPC, Life
<1>14. /\ r.pc \in InPC => r.f \in FenceIds /\ Life(r.f) = "open"
       /\ (Bound(r) => Bound(task[t])) /\ Drained(r) = {}
  BY <1>1, <1>5, <1>a DEF InPC, Bound, Drained
<1> QED BY <1>0, <1>1, <1>4, <1>5, <1>10, <1>11, <1>12, <1>13, <1>14, Move

\* A reader leaves its fence: refused, done, or to settle what it minted.
LEMMA LeaveStep ==
  ASSUME IInv, NEW t \in Tasks, NEW r, task' = [task EXCEPT ![t] = r],
         task[t].pc \in CountPC, r.pc \notin CountPC, r \in TaskType, TaskOK(r), r.held = {},
         fences' = [fences EXCEPT ![task[t].f].readers = @ - 1],
         UNCHANGED <<load, table, nat, opened, slot, mech, starts>>,
         Bound(r) => /\ Bound(task[t]) /\ r.h = task[t].h /\ r.expect = task[t].expect
                     /\ r.want = task[t].want,
         r.f \in {0} \cup FenceIds, r.pc \notin FencePC \cup HoldPC
  PROVE  IInv'
<1>1. /\ TypeOK /\ task[t].held = {} /\ task[t].f \in FenceIds /\ task[t].pc \notin CommitPC
  BY OpFacts DEF OpPC, FencePC
<1>2. CountOK' /\ fences[task[t].f].readers - 1 \in Nat
  BY <1>1, CountDown
<1>6. PICK f \in FenceIds, n \in Nat : f = task[t].f /\ n = fences[task[t].f].readers - 1
  BY <1>1, <1>2
<1>7. fences' = [fences EXCEPT ![f].readers = n]
  BY <1>6
<1>8. /\ fences' \in Seq([readers : Nat, life : {"open", "closing", "closed"}])
      /\ FenceIds' = FenceIds /\ \A e \in FenceIds : fences'[e].life = fences[e].life
  BY <1>1, <1>7, Counter
<1>9. r \in TaskType'
  BY <1>8 DEF TaskType
<1>10. TypeOK'
  BY <1>1, <1>8, <1>9, TypeStep DEF TypeOK
<1>11. Grown
  BY <1>1, <1>8, SameGrown DEF IInv
<1>13. TaskOK(r)'
  BY DEF TaskOK, UseOK, HoldOK, TodoOK, PhaseOK, HoldPC, FencePC, CountPC
<1>14. r.pc \notin InPC /\ Drained(r) = {}
  BY DEF InPC, CountPC, Drained
<1> QED BY <1>1, <1>2, <1>10, <1>11, <1>13, <1>14, Move

\* The refused entrant takes itself off the count.
LEMMA OpUncountOK ==
  ASSUME IInv, UNCHANGED load, NEW t \in Tasks, OpUncount(t)
  PROVE  IInv'
<1>1. PICK r : r = Idle
  OBVIOUS
<1>2. /\ task[t].pc = "op_uncount" /\ UNCHANGED <<load, table, nat, opened, slot, mech, starts>>
      /\ fences' = [fences EXCEPT ![task[t].f].readers = @ - 1] /\ task' = [task EXCEPT ![t] = r]
  BY <1>1 DEF OpUncount, At, Finish
<1>3. opened \in Nat
  BY DEF IInv, TypeOK
<1>4. /\ r \in TaskType /\ TaskOK(r) /\ r.held = {} /\ r.pc = "idle" /\ ~Bound(r) /\ r.f = 0
  BY <1>1, <1>3, IdleFacts DEF Idle
<1> QED BY <1>2, <1>4, LeaveStep DEF CountPC, InPC, FencePC, HoldPC, DonePC, CommitPC

\* The provider call, of an operation, a mint or a settlement.
LEMMA OpNativeOK ==
  ASSUME IInv, UNCHANGED load, NEW t \in Tasks, OpNative(t)
  PROVE  IInv'
<1>0. /\ task[t].pc = "op_native" /\ UNCHANGED <<load, fences, table, nat, opened, slot, starts>>
      /\ task' = [task EXCEPT ![t].pc = "op_exit",
                  ![t].want = IF task[t].phase = "mint" THEN nat[task[t].h] ELSE @]
      /\ mech' = mech \/ mech' = [mech EXCEPT ![task[t].h] = nat[task[t].h]]
  BY DEF OpNative, At
<1>1. /\ TypeOK /\ task[t] \in TaskType /\ task[t].held = {} /\ task[t].f \in FenceIds
      /\ task[t].pc \notin CommitPC /\ task[t].h \in Handles
  BY <1>0, OpFacts DEF OpPC, FencePC, CountPC, InPC
<1>2. TaskOK(task[t])
  BY DEF IInv, TasksOK
<1>a. PICK w \in 0 .. opened : w = IF task[t].phase = "mint" THEN nat[task[t].h] ELSE task[t].want
  <2>1. nat[task[t].h] \in 0 .. opened /\ task[t].want \in 0 .. opened
    BY <1>1 DEF TypeOK, TaskType
  <2> QED BY <2>1
<1>3. PICK r : r = [task[t] EXCEPT !.pc = "op_exit", !.want = w]
  OBVIOUS
<1>4. task' = [task EXCEPT ![t] = r]
  BY <1>0, <1>3, <1>a
<1>5. /\ r.pc = "op_exit" /\ r.h = task[t].h /\ r.held = {} /\ r.phase = task[t].phase
      /\ r.f = task[t].f /\ r.expect = task[t].expect /\ r.want = w /\ r \in TaskType
  BY <1>1, <1>3 DEF TaskType, PC
<1>6. FenceIds' = FenceIds
  BY <1>0 DEF FenceIds
<1>9. r \in TaskType'
  BY <1>0, <1>5, <1>6 DEF TaskType
<1>b. mech' \in [Handles -> 0 .. opened]
  <2>1. mech \in [Handles -> 0 .. opened] /\ nat[task[t].h] \in 0 .. opened
    BY <1>1 DEF TypeOK
  <2> QED BY <1>0, <2>1
<1>10. TypeOK'
  BY <1>0, <1>1, <1>4, <1>6, <1>9, <1>b, TypeStep DEF TypeOK
<1>11. Grown
  BY <1>0, <1>1, <1>6, SameGrown DEF IInv
<1>12. CountOK'
  BY <1>0, <1>4, <1>5, <1>6, SameCount DEF CountPC, InPC
<1>13. TaskOK(r)'
  <2>1. r.phase = "settle" => r.want = task[t].want
    BY <1>5, <1>a
  <2> QED BY <1>0, <1>2, <1>5, <2>1
       DEF TaskOK, UseOK, HoldOK, TodoOK, PhaseOK, OpPC, FencePC, CountPC, InPC, ClosePC, HoldPC,
           DonePC, CommitPC, Life
<1>14. /\ task[t].pc \in InPC /\ Drained(r) = {}
  BY <1>0, <1>5 DEF InPC, Drained
<1>15. Bound(r) => \/ nat'[r.h] = r.want
                   \/ Bound(task[t]) /\ r.want = task[t].want
  BY <1>0, <1>5, <1>a DEF Bound
<1> QED BY <1>0, <1>1, <1>4, <1>5, <1>10, <1>11, <1>12, <1>13, <1>14, <1>15, Move

\* The guard drops; a mint may be left to its settlement.
LEMMA OpExitOK ==
  ASSUME IInv, UNCHANGED load, NEW t \in Tasks, OpExit(t)
  PROVE  IInv'
<1>0. /\ task[t].pc = "op_exit" /\ UNCHANGED <<load, table, nat, opened, slot, mech, starts>>
      /\ fences' = [fences EXCEPT ![task[t].f].readers = @ - 1]
  BY DEF OpExit, At
<1>1. CASE Finish(t)
  <2>1. PICK r : r = Idle
    OBVIOUS
  <2>2. opened \in Nat /\ task' = [task EXCEPT ![t] = r]
    BY <1>1, <2>1 DEF IInv, TypeOK, Finish
  <2>3. /\ r \in TaskType /\ TaskOK(r) /\ r.held = {} /\ r.pc = "idle" /\ ~Bound(r) /\ r.f = 0
    BY <2>1, <2>2, IdleFacts DEF Idle
  <2> QED BY <1>0, <2>2, <2>3, LeaveStep DEF CountPC, InPC, FencePC, HoldPC, DonePC, CommitPC
<1>2. CASE /\ task[t].phase = "mint" /\ task[t].want # 0
           /\ task' = [task EXCEPT ![t].pc = "op_get", ![t].phase = "settle", ![t].f = 0]
  <2>1. /\ TypeOK /\ task[t] \in TaskType /\ task[t].held = {} /\ task[t].h \in Handles
    BY <1>0, OpFacts DEF OpPC, FencePC, CountPC, InPC
  <2>2. TaskOK(task[t])
    BY DEF IInv, TasksOK
  <2>3. PICK r : r = [task[t] EXCEPT !.pc = "op_get", !.phase = "settle", !.f = 0]
    OBVIOUS
  <2>4. task' = [task EXCEPT ![t] = r]
    BY <1>2, <2>3
  <2>5. /\ r.pc = "op_get" /\ r.h = task[t].h /\ r.held = {} /\ r.phase = "settle"
        /\ r.f = 0 /\ r.expect = task[t].expect /\ r.want = task[t].want /\ r \in TaskType
    BY <2>1, <2>3 DEF TaskType, PC
  <2>6. TaskOK(r)
    BY <1>0, <1>2, <2>1, <2>2, <2>5
       DEF TaskOK, UseOK, HoldOK, TodoOK, PhaseOK, OpPC, FencePC, CountPC, InPC, ClosePC, HoldPC,
           DonePC, CommitPC
  <2>7. Bound(task[t])
    BY <1>0, <1>2 DEF Bound
  <2> QED BY <1>0, <2>4, <2>5, <2>6, <2>7, LeaveStep
             DEF CountPC, InPC, FencePC, HoldPC, DonePC, CommitPC
<1> QED BY <1>1, <1>2 DEF OpExit

-----------------------------------------------------------------------------
(* Closes *)

\* What is known of a thread in a close.
LEMMA CloseFacts ==
  ASSUME IInv, NEW t \in Tasks, task[t].pc \in ClosePC
  PROVE  /\ TypeOK /\ opened \in Nat /\ task[t] \in TaskType /\ TaskOK(task[t])
         /\ task[t].pc \notin CountPC /\ ~Bound(task[t]) /\ task[t].phase \in {"plain", "all"}
         /\ task[t].todo \subseteq Handles
         /\ task[t].todo # {} => NextHandle(t) \in task[t].todo /\ NextHandle(t) \in Handles
<1>0. TypeOK /\ TaskOK(task[t]) /\ opened \in Nat /\ task[t] \in TaskType
  BY DEF IInv, TypeOK, TasksOK
<1>1. task[t].pc \notin CountPC
  BY DEF ClosePC, HoldPC, DonePC, CommitPC, CountPC, InPC
<1>2. ~Bound(task[t]) /\ task[t].phase \in {"plain", "all"}
  BY <1>0 DEF TaskOK, PhaseOK, Bound
<1>3. task[t].todo \subseteq Handles
  BY <1>0, Fields
<1> QED BY <1>0, <1>1, <1>2, <1>3, MinIn DEF NextHandle

\* The fence of a handle that a close has marked.
LEMMA Holder ==
  ASSUME IInv, NEW t \in Tasks, NEW h \in HeldHandles(task[t].held)
  PROVE  /\ h \in Handles /\ FenceOf(t, h) \in FenceIds
         /\ <<h, FenceOf(t, h)>> \in task[t].held /\ table[h] = FenceOf(t, h)
         /\ \A g \in task[t].held : g[1] = h => g = <<h, FenceOf(t, h)>> /\ g[2] = FenceOf(t, h)
         /\ \A u \in Tasks \ {t} : \A g \in task[u].held : g[2] # FenceOf(t, h) /\ g[1] # h
         /\ \A g \in task[t].held : g[1] # h => g[2] # FenceOf(t, h)
<1>0. TypeOK /\ TasksOK /\ OnceOK
  BY DEF IInv
<1>1. \E g \in task[t].held : g[1] = h
  BY DEF HeldHandles
<1>2. PICK g \in task[t].held : g[1] = h /\ g[2] = FenceOf(t, h)
  BY <1>1 DEF FenceOf
<1>3. ASSUME NEW u \in Tasks, NEW e \in task[u].held
      PROVE  table[e[1]] = e[2] /\ e[1] \in Handles /\ e[2] \in FenceIds /\ e = <<e[1], e[2]>>
  BY <1>0, Guards DEF TasksOK, TaskOK, HoldOK
<1>4. h \in Handles /\ FenceOf(t, h) \in FenceIds /\ g = <<h, FenceOf(t, h)>> /\ table[h] = FenceOf(t, h)
  BY <1>2, <1>3
<1>5. \A e \in task[t].held : e[1] = h => e = <<h, FenceOf(t, h)>> /\ e[2] = FenceOf(t, h)
  BY <1>3, <1>4
<1>6. ASSUME NEW u \in Tasks \ {t}, NEW e \in task[u].held PROVE e[2] # FenceOf(t, h) /\ e[1] # h
  <2>1. e[1] = h <=> e[2] = FenceOf(t, h)
    BY <1>0, <1>3, <1>4, Fields DEF OnceOK
  <2>2. e[1] = h => e = g
    BY <1>3, <1>4
  <2>3. e # g
    BY <1>0 DEF OnceOK
  <2> QED BY <2>1, <2>2, <2>3
<1>7. \A e \in task[t].held : e[1] # h => e[2] # FenceOf(t, h)
  BY <1>0, <1>3, <1>4, Fields DEF OnceOK
<1> QED BY <1>2, <1>4, <1>5, <1>6, <1>7

\* A close takes up the next handle, in ascending order.
LEMMA CloseGetOK ==
  ASSUME IInv, UNCHANGED load, NEW t \in Tasks, CloseGet(t)
  PROVE  IInv'
<1>0. task[t].pc = "cl_get" /\ UNCHANGED <<load, nat, opened, slot, mech, starts>>
  BY DEF CloseGet, At
<1>1. /\ TypeOK /\ task[t] \in TaskType /\ TaskOK(task[t]) /\ task[t].pc \notin CountPC /\ ~Bound(task[t])
      /\ task[t].phase \in {"plain", "all"}
  BY <1>0, CloseFacts DEF ClosePC, HoldPC
<1>2. task[t].todo # {} /\ task[t].todo \cap HeldHandles(task[t].held) = {}
  BY <1>0, <1>1 DEF TaskOK, TodoOK
<1>3. PICK h \in Handles : h = NextHandle(t) /\ h \in task[t].todo
  BY <1>0, <1>2, CloseFacts DEF ClosePC, HoldPC
<1>4. PICK f \in Candidates(h) :
        GetOrCreate(h, f) /\ task' = [task EXCEPT ![t].pc = "cl_mark", ![t].h = h, ![t].f = f]
  BY <1>3 DEF CloseGet
<1>5. PICK r : r = [task[t] EXCEPT !.pc = "cl_mark", !.h = h, !.f = f]
  OBVIOUS
<1>6. task' = [task EXCEPT ![t] = r]
  BY <1>4, <1>5
<1>7. Grown /\ f \in FenceIds' /\ f # 0 /\ table'[h] = f
  BY <1>1, <1>4, GetGrows DEF IInv
<1>8. /\ r.pc = "cl_mark" /\ r.h = h /\ r.held = task[t].held /\ r.phase = task[t].phase /\ r.f = f
      /\ r.todo = task[t].todo
  BY <1>1, <1>5 DEF TaskType
<1>9. r \in TaskType'
  <2>1. FenceIds \subseteq FenceIds' /\ Handles \X FenceIds \subseteq Handles \X FenceIds'
    BY <1>7 DEF Grown
  <2> QED BY <1>0, <1>1, <1>5, <1>7, <2>1 DEF TaskType, PC
<1>10. TaskOK(r)'
  <2>1. UseOK(r)'
    BY <1>7, <1>8 DEF UseOK, FencePC, CountPC, InPC
  <2>2. HoldOK(r)'
    <3>1. ASSUME NEW g \in r.held
          PROVE  table'[g[1]] = g[2] /\ fences'[g[2]].life = "closing"
      <4>1. g[1] \in Handles /\ g[2] \in FenceIds /\ 0 \notin FenceIds
        BY <1>1, <1>8, <3>1, Guards, Fields
      <4>2. table[g[1]] = g[2] /\ fences[g[2]].life = "closing"
        BY <1>0, <1>1, <1>8, <3>1 DEF TaskOK, HoldOK, Life
      <4> QED BY <1>7, <4>1, <4>2 DEF Grown
    <3> QED BY <1>8, <3>1 DEF HoldOK, HoldPC, Life
  <2>3. TodoOK(r)'
    BY <1>2, <1>3, <1>8 DEF TodoOK, CommitPC
  <2>4. PhaseOK(r)'
    BY <1>0, <1>1, <1>3, <1>8
       DEF TaskOK, PhaseOK, OpPC, FencePC, CountPC, InPC, ClosePC, HoldPC, DonePC, CommitPC
  <2> QED BY <2>1, <2>2, <2>3, <2>4 DEF TaskOK
<1>11. ~Bound(r) /\ Drained(r) = {} /\ r.pc \notin CountPC
  BY <1>1, <1>8 DEF Bound, Drained, CountPC, InPC, DonePC, CommitPC
<1>12. task[t].pc \notin CommitPC
  BY <1>0 DEF CommitPC
<1> QED BY <1>0, <1>1, <1>4, <1>6, <1>8, <1>9, <1>10, <1>11, <1>12, GetStep

\* A close goes on with the guards that it has; fences and table stay.
LEMMA GuardStep ==
  ASSUME IInv, UNCHANGED load, NEW t \in Tasks, NEW r, task' = [task EXCEPT ![t] = r],
         task[t].pc \in ClosePC \ CommitPC, r \in TaskType, TaskOK(r), r.held = task[t].held,
         r.phase = task[t].phase, r.pc \in ClosePC,
         \A g \in Drained(r) : g \in Drained(task[t]) \/ Counted(g[2]) = {},
         UNCHANGED <<fences, table, nat, opened, starts>>,
         slot' \subseteq Handles, mech' \in [Handles -> 0 .. opened]
  PROVE  IInv'
<1>0. TypeOK /\ FenceIds' = FenceIds /\ task[t].pc \notin CountPC /\ task[t].phase \in {"plain", "all"}
  BY CloseFacts DEF FenceIds
<1>1. r \in TaskType' /\ TaskOK(r)'
  BY <1>0 DEF TaskType, TaskOK, UseOK, HoldOK, TodoOK, PhaseOK, Life
<1>2. TypeOK'
  BY <1>0, <1>1, TypeStep DEF TypeOK
<1>3. Grown
  BY <1>0, SameGrown DEF IInv
<1>4. r.pc \notin CountPC /\ r.pc \notin InPC /\ ~Bound(r)
  BY <1>0 DEF ClosePC, HoldPC, DonePC, CommitPC, CountPC, InPC, Bound
<1>5. CountOK'
  BY <1>0, <1>4, SameCount
<1> QED BY <1>1, <1>2, <1>3, <1>4, <1>5, Move

\* drain_readers: a fence without readers is drained.
LEMMA CloseDrainOK ==
  ASSUME IInv, UNCHANGED load, NEW t \in Tasks, CloseDrain(t)
  PROVE  IInv'
<1>0. task[t].pc = "cl_drain" /\ UNCHANGED <<fences, table, nat, opened, slot, mech, starts>>
      /\ fences[FenceOf(t, NextHandle(t))].readers = 0
  BY DEF CloseDrain, At
<1>1. /\ TypeOK /\ task[t] \in TaskType /\ TaskOK(task[t]) /\ task[t].phase \in {"plain", "all"}
      /\ task[t].todo \subseteq Handles
  BY <1>0, CloseFacts DEF ClosePC, HoldPC
<1>2. task[t].todo # {} /\ task[t].todo \subseteq HeldHandles(task[t].held)
  BY <1>0, <1>1 DEF TaskOK, TodoOK
<1>3. PICK h \in Handles : h = NextHandle(t) /\ h \in task[t].todo
  BY <1>0, <1>2, CloseFacts DEF ClosePC, HoldPC
<1>a. h \in HeldHandles(task[t].held)
  BY <1>2, <1>3
<1>b. /\ FenceOf(t, h) \in FenceIds
      /\ \A g \in task[t].held : g[1] = h => g = <<h, FenceOf(t, h)>> /\ g[2] = FenceOf(t, h)
  BY <1>a, Holder
<1>4. PICK f \in FenceIds : f = FenceOf(t, h) /\ \A g \in task[t].held : g[1] = h => g[2] = f
  BY <1>b
<1>5. Counted(f) = {}
  <2>1. fences[f].readers = 0
    BY <1>0, <1>3, <1>4
  <2>2. IsFiniteSet(Counted(f)) /\ Cardinality(Counted(f)) = 0
    BY <2>1 DEF IInv, CountOK
  <2> QED BY <2>2, Count
<1>6. PICK rest \in SUBSET Handles : rest = task[t].todo \ {h}
  BY <1>1
<1>7. PICK p \in {"cl_native", "cl_drain"} :
        /\ p = IF rest = {} THEN "cl_native" ELSE "cl_drain"
        /\ p = "cl_native" <=> rest = {}
  OBVIOUS
<1>8. PICK r : r = [task[t] EXCEPT !.pc = p, !.todo = rest]
  OBVIOUS
<1>9. task' = [task EXCEPT ![t] = r]
  BY <1>3, <1>6, <1>7, <1>8 DEF CloseDrain
<1>10. /\ r.pc = p /\ r.todo = rest /\ r.held = task[t].held /\ r.phase = task[t].phase
       /\ r.h = task[t].h /\ r \in TaskType
  BY <1>1, <1>8 DEF TaskType, PC
<1>11. TaskOK(r)
  <2>1. UseOK(r)
    BY <1>7, <1>10 DEF UseOK, OpPC, FencePC, CountPC, InPC
  <2>2. HoldOK(r)
    BY <1>0, <1>1, <1>7, <1>10 DEF TaskOK, HoldOK, HoldPC, DonePC
  <2>3. TodoOK(r)
    BY <1>2, <1>6, <1>7, <1>10 DEF TodoOK, CommitPC
  <2>4. PhaseOK(r)
    BY <1>0, <1>1, <1>7, <1>10
       DEF TaskOK, PhaseOK, OpPC, FencePC, CountPC, InPC, ClosePC, HoldPC, DonePC, CommitPC
  <2> QED BY <2>1, <2>2, <2>3, <2>4 DEF TaskOK
<1>12. ASSUME NEW g \in Drained(r) PROVE g \in Drained(task[t]) \/ Counted(g[2]) = {}
  <2>1. g \in task[t].held /\ g[1] \notin rest
    BY <1>7, <1>10, <1>12 DEF Drained, DonePC, CommitPC
  <2>2. CASE g[1] = h
    BY <1>4, <1>5, <2>1, <2>2
  <2>3. CASE g[1] # h
    BY <1>0, <1>6, <2>1, <2>3 DEF Drained
  <2> QED BY <2>2, <2>3
<1>13. r.pc \in ClosePC /\ task[t].pc \in ClosePC \ CommitPC
  BY <1>0, <1>7, <1>10 DEF ClosePC, HoldPC, DonePC, CommitPC
<1> QED BY <1>0, <1>1, <1>9, <1>10, <1>11, <1>12, <1>13, GuardStep DEF TypeOK

\* A lifecycle changes; nothing else of the fences does.
LEMMA LifeTyped ==
  ASSUME TypeOK, NEW f \in FenceIds, NEW l \in {"open", "closing", "closed"}, SetLife(f, l)
  PROVE  /\ fences' \in Seq([readers : Nat, life : {"open", "closing", "closed"}])
         /\ FenceIds' = FenceIds /\ \A e \in FenceIds : fences'[e].readers = fences[e].readers
         /\ fences'[f].life = l /\ \A e \in FenceIds \ {f} : fences'[e].life = fences[e].life
<1> DEFINE R == [readers : Nat, life : {"open", "closing", "closed"}]
<1>1. fences \in Seq(R) /\ Len(fences) \in Nat
  BY Fields DEF TypeOK
<1>0. fences' = [fences EXCEPT ![f].life = l]
  BY DEF SetLife
<1> HIDE DEF R
<1>2. fences[f] \in R
  BY <1>1 DEF FenceIds
<1> USE DEF R
<1>3. [fences[f] EXCEPT !.life = l] \in R
  BY <1>2
<1>4. fences' \in Seq(R) /\ Len(fences') = Len(fences)
  BY <1>0, <1>1, <1>3 DEF FenceIds
<1>5. /\ \A e \in FenceIds : fences'[e].readers = fences[e].readers
      /\ fences'[f].life = l /\ \A e \in FenceIds \ {f} : fences'[e].life = fences[e].life
  BY <1>0, <1>1, <1>2 DEF FenceIds
<1> QED BY <1>4, <1>5 DEF FenceIds

\* A close that takes a free fence or gives guards back disturbs no other thread.
LEMMA CloseRest ==
  ASSUME IInv, NEW t \in Tasks, NEW r, task' = [task EXCEPT ![t] = r],
         task[t].pc \notin CountPC, r.pc \notin CountPC,
         \A g \in Drained(r) : g \in Drained(task[t]),
         \A g \in r.held : \/ g \in task[t].held
                           \/ \A u \in Tasks \ {t} : \A e \in task[u].held : e[2] # g[2],
         \A h \in Handles : table'[h] \in {0, table[h]},
         FenceIds' = FenceIds, \A f \in FenceIds : fences'[f].readers = fences[f].readers
  PROVE  OnceOK' /\ InsideOK' /\ CountOK'
<1>0. TypeOK /\ task'[t] = r /\ \A u \in Tasks \ {t} : task'[u] = task[u]
  BY DEF IInv, TypeOK
<1>1. OnceOK'
  <2>1. \A h, i \in Handles : table'[h] # 0 /\ table'[h] = table'[i] => h = i
    BY DEF IInv, OnceOK
  <2>2. ASSUME NEW u \in Tasks \ {t}, NEW g, g \in r.held, g \in task[u].held PROVE FALSE
    BY <2>2 DEF IInv, OnceOK
  <2>3. ASSUME NEW u \in Tasks, NEW v \in Tasks, NEW g \in task'[u].held, g \in task'[v].held
        PROVE  u = v
    BY <1>0, <2>2, <2>3 DEF IInv, OnceOK
  <2> QED BY <2>1, <2>3 DEF OnceOK
<1>2. InsideOK'
  <2> SUFFICES ASSUME NEW u \in Tasks, NEW v \in Tasks, task'[u].pc \in InPC,
                      NEW g \in Drained(task'[v]), g[2] = task'[u].f
               PROVE  FALSE
    BY DEF InsideOK, Drained
  <2>1. u # t /\ task'[u] = task[u]
    BY <1>0 DEF CountPC
  <2>2. g \in Drained(task[v])
    BY <1>0
  <2> QED BY <2>1, <2>2 DEF IInv, InsideOK
<1>3. CountOK'
  BY SameCount
<1> QED BY <1>1, <1>2, <1>3

\* The session of a mint, over the steps of a close.
LEMMA CloseMint ==
  ASSUME IInv, NEW t \in Tasks, NEW r, task' = [task EXCEPT ![t] = r], ~Bound(r),
         \A u \in Tasks : \A h \in Handles : \A f \in FenceIds :
           Bound(task[u]) /\ table'[h] = f /\ ~Over(h, f)'
             => table[h] = f /\ ~Over(h, f) /\ nat'[h] = nat[h]
  PROVE  MintOK'
<1>0. TypeOK /\ task'[t] = r /\ \A u \in Tasks \ {t} : task'[u] = task[u]
  BY DEF IInv, TypeOK
<1> SUFFICES ASSUME NEW u \in Tasks, Bound(task'[u]), table'[task'[u].h] = task'[u].expect,
                    ~Over(task[u].h, task[u].expect)'
             PROVE  nat'[task'[u].h] = task'[u].want
  BY DEF MintOK, Bound, Over
<1>1. u # t /\ task'[u] = task[u] /\ Bound(task[u])
  BY <1>0
<1>2. task[u].h \in Handles /\ task[u].expect \in FenceIds
  <2>1. TaskOK(task[u]) /\ task[u].expect \in {0} \cup FenceIds
    BY <1>0, Fields DEF IInv, TasksOK
  <2>2. task[u].pc \in OpPC /\ task[u].pc # "arm"
    BY <1>1, <2>1 DEF TaskOK, PhaseOK, Bound
  <2> QED BY <1>1, <2>1, <2>2 DEF TaskOK, UseOK, PhaseOK, Bound
<1>3. PICK h \in Handles, f \in FenceIds : h = task[u].h /\ f = task[u].expect
  BY <1>2
<1>4. table'[h] = f /\ ~Over(h, f)'
  BY <1>1, <1>3 DEF Over
<1>5. table[h] = f /\ ~Over(h, f) /\ nat'[h] = nat[h]
  BY <1>1, <1>4
<1> QED BY <1>1, <1>3, <1>5 DEF IInv, MintOK

\* A close marks, commits or reopens a fence that no other close holds.
LEMMA LifeStep ==
  ASSUME IInv, UNCHANGED <<load, table, nat, opened, slot, mech, starts>>,
         NEW t \in Tasks, NEW r, task' = [task EXCEPT ![t] = r], r \in TaskType, TaskOK(r)',
         NEW f \in FenceIds, NEW l \in {"open", "closing", "closed"}, SetLife(f, l),
         Life(f) # "closed",
         \A u \in Tasks \ {t} : \A g \in task[u].held : g[2] # f,
         l = "closed" => \A u \in Tasks : task[u].pc \in InPC => task[u].f # f,
         task[t].pc \notin CountPC, r.pc \notin CountPC, ~Bound(r),
         \A g \in Drained(r) : g \in Drained(task[t]),
         \A g \in r.held : g \in task[t].held \/ g[2] = f,
         task[t].pc \in CommitPC => r.pc \in CommitPC /\ r.held = task[t].held
  PROVE  IInv'
<1>0. TypeOK /\ task'[t] = r /\ \A u \in Tasks \ {t} : task'[u] = task[u]
  BY DEF IInv, TypeOK
<1>1. /\ fences' \in Seq([readers : Nat, life : {"open", "closing", "closed"}])
      /\ FenceIds' = FenceIds /\ \A e \in FenceIds : fences'[e].readers = fences[e].readers
      /\ fences'[f].life = l /\ \A e \in FenceIds \ {f} : fences'[e].life = fences[e].life
  BY <1>0, LifeTyped
<1>2. TypeOK'
  <2>1. r \in TaskType'
    BY <1>1 DEF TaskType
  <2> QED BY <1>0, <1>1, <2>1, TypeStep DEF TypeOK
<1>3. TasksOK'
  <2> SUFFICES ASSUME NEW u \in Tasks PROVE TaskOK(task[u])'
    BY DEF TasksOK
  <2>1. CASE u = t
    BY <1>0, <2>1 DEF TaskOK, UseOK, HoldOK, TodoOK, PhaseOK
  <2>2. CASE u # t
    <3>0. TaskOK(task[u]) /\ task'[u] = task[u] /\ task[u].f \in {0} \cup FenceIds
      BY <1>0, <2>2, Fields DEF IInv, TasksOK
    <3>1. UseOK(task[u])'
      <4>1. task[u].pc \in FencePC \cup {"cl_mark"} => task[u].f \in FenceIds
        BY <3>0 DEF TaskOK, UseOK
      <4>2. task[u].pc \in FencePC \cup {"cl_mark"} =>
              (fences'[task[u].f].life # "closed" => fences[task[u].f].life # "closed")
        BY <1>1, <4>1 DEF Life
      <4>3. task[u].pc \in InPC => fences'[task[u].f].life # "closed"
        BY <1>1, <3>0, <4>1 DEF TaskOK, UseOK, Life, FencePC, CountPC
      <4> QED BY <3>0, <4>2, <4>3 DEF TaskOK, UseOK, Life
    <3>2. HoldOK(task[u])'
      <4>1. \A g \in task[u].held : g[2] \in FenceIds /\ fences'[g[2]].life = fences[g[2]].life
        BY <1>0, <1>1, <2>2, Guards
      <4> QED BY <3>0, <4>1 DEF TaskOK, HoldOK, Life
    <3>3. TodoOK(task[u])' /\ PhaseOK(task[u])'
      BY <3>0 DEF TaskOK, TodoOK, PhaseOK
    <3> QED BY <3>1, <3>2, <3>3 DEF TaskOK
  <2> QED BY <2>1, <2>2
<1>4. OnceOK' /\ InsideOK' /\ CountOK'
  BY <1>1, CloseRest
<1>5. MintOK'
  <2>1. ASSUME NEW h \in Handles, NEW e \in FenceIds, Over(h, e) PROVE Over(h, e)'
    BY <1>0, <2>1 DEF Over
  <2> QED BY <2>1, CloseMint
<1> QED BY <1>2, <1>3, <1>4, <1>5 DEF IInv

\* The CAS loop: an open fence is marked, a closed one ends or is skipped.
LEMMA CloseMarkOK ==
  ASSUME IInv, UNCHANGED load, NEW t \in Tasks, CloseMark(t)
  PROVE  IInv'
<1>0. task[t].pc = "cl_mark" /\ UNCHANGED <<load, table, nat, opened, slot, mech, starts>>
  BY DEF CloseMark, At
<1>1. /\ TypeOK /\ task[t] \in TaskType /\ TaskOK(task[t]) /\ task[t].phase \in {"plain", "all"}
      /\ task[t].todo \subseteq Handles /\ task[t].pc \notin CountPC
  BY <1>0, CloseFacts DEF ClosePC, HoldPC
<1>2. PICK h \in Handles : h = task[t].h
  BY <1>0, <1>1 DEF TaskOK, UseOK
<1>3. PICK f \in FenceIds : f = task[t].f /\ (Life(f) # "closed" => table[h] = f)
  BY <1>0, <1>1, <1>2, Fields DEF TaskOK, UseOK
<1>4. PICK held \in SUBSET (Handles \X FenceIds) :
        held = IF Life(f) = "open" THEN task[t].held \cup {<<h, f>>} ELSE task[t].held
  <2>1. task[t].held \subseteq Handles \X FenceIds /\ <<h, f>> \in Handles \X FenceIds
    BY <1>1, Fields
  <2>2. task[t].held \cup {<<h, f>>} \in SUBSET (Handles \X FenceIds)
    BY <2>1
  <2>3. task[t].held \in SUBSET (Handles \X FenceIds)
    BY <2>1
  <2> QED BY <2>2, <2>3
<1>5. PICK rest \in SUBSET Handles : rest = task[t].todo \ {h}
  BY <1>1
<1>6. Life(f) \in {"open", "closed"}
  BY <1>1, <1>3, Fields DEF CloseMark, Life
<1>7. /\ h \in task[t].todo /\ task[t].todo \cap HeldHandles(task[t].held) = {}
      /\ task[t].phase = "plain" => task[t].todo = {h} /\ task[t].held = {}
  BY <1>0, <1>1, <1>2 DEF TaskOK, TodoOK, PhaseOK, ClosePC, HoldPC
<1>8. CASE Life(f) = "closed" /\ task[t].phase # "all"
  <2>1. Finish(t) /\ UNCHANGED fences
    BY <1>3, <1>8 DEF CloseMark
  <2>2. task[t].held = {} /\ task[t].pc \notin CountPC \cup CommitPC
    BY <1>0, <1>1, <1>7, <1>8 DEF CommitPC
  <2> QED BY <1>0, <1>1, <2>1, <2>2, FinishStep DEF TypeOK
<1>9. CASE ~(Life(f) = "closed" /\ task[t].phase # "all")
  <2>1. HeldHandles(held) \subseteq Handles /\ (HeldHandles(held) = {} <=> held = {})
    BY <1>4 DEF HeldHandles
  <2>2. PICK p \in {"cl_get", "cl_drain", "cl_native"} :
          /\ p = IF rest # {} THEN "cl_get" ELSE IF held # {} THEN "cl_drain" ELSE "cl_native"
          /\ p = "cl_get" <=> rest # {}
          /\ p = "cl_drain" <=> rest = {} /\ held # {}
          /\ p = "cl_native" <=> rest = {} /\ held = {}
    OBVIOUS
  <2>3. PICK todo \in SUBSET Handles :
          /\ todo = IF rest # {} THEN rest ELSE HeldHandles(held)
          /\ p = "cl_get" => todo = rest
          /\ p # "cl_get" => todo = HeldHandles(held)
    BY <2>1, <2>2
  <2>4. PICK r : r = [task[t] EXCEPT !.pc = p, !.held = held, !.todo = todo]
    OBVIOUS
  <2>5. task' = [task EXCEPT ![t].pc = p, ![t].held = held, ![t].todo = todo]
    <3>1. task' = [task EXCEPT
            ![t].pc = IF rest # {} THEN "cl_get" ELSE IF held # {} THEN "cl_drain" ELSE "cl_native",
            ![t].held = held,
            ![t].todo = IF rest # {} THEN rest ELSE HeldHandles(held)]
      BY <1>2, <1>3, <1>4, <1>5, <1>9 DEF CloseMark
    <3> QED BY <2>2, <2>3, <3>1
  <2>6. task' = [task EXCEPT ![t] = r]
    BY <2>4, <2>5
  <2>7. /\ r.pc = p /\ r.todo = todo /\ r.held = held /\ r.phase = task[t].phase
        /\ r.h = h /\ r \in TaskType
    BY <1>1, <1>2, <2>4 DEF TaskType, PC
  <2>8. Drained(r) = {} /\ r.pc \notin CountPC /\ ~Bound(r) /\ r.pc \in ClosePC
    <3>1. Drained(r) = {}
      <4> SUFFICES ASSUME NEW g \in Drained(r) PROVE FALSE
        OBVIOUS
      <4>1. /\ g \in held /\ (p = "cl_drain" \/ p = "cl_native")
            /\ p = "cl_drain" => g[1] \notin HeldHandles(held)
        BY <2>2, <2>3, <2>7 DEF Drained, DonePC, CommitPC
      <4> QED BY <2>2, <4>1 DEF HeldHandles
    <3> QED BY <1>1, <2>2, <2>7, <3>1 DEF CountPC, InPC, Bound, ClosePC, HoldPC, DonePC
  <2>9. ASSUME NEW u \in Tasks, NEW g \in task[u].held, Life(f) = "open"
        PROVE  g[2] # f
    BY <2>9 DEF IInv, TasksOK, TaskOK, HoldOK
  <2>10. CASE Life(f) = "open"
    <3>1. SetLife(f, "closing") /\ held = task[t].held \cup {<<h, f>>} /\ table[h] = f
      BY <1>3, <1>4, <2>10 DEF CloseMark
    <3>2. HeldHandles(held) = HeldHandles(task[t].held) \cup {h} /\ held # {}
      <4>1. \A x : x \in HeldHandles(held) <=> x \in HeldHandles(task[t].held) \/ x = <<h, f>>[1]
        BY <3>1 DEF HeldHandles
      <4> QED BY <3>1, <4>1
    <3>3. /\ fences'[f].life = "closing" /\ FenceIds' = FenceIds
          /\ \A e \in FenceIds \ {f} : fences'[e].life = fences[e].life
      BY <1>1, <3>1, LifeTyped
    <3>4. UseOK(r)'
      BY <2>2, <2>7, <3>2 DEF UseOK, OpPC, FencePC, CountPC, InPC
    <3>5. HoldOK(r)'
      <4>1. ASSUME NEW g \in held PROVE table'[g[1]] = g[2] /\ fences'[g[2]].life = "closing"
        <5>1. CASE g = <<h, f>>
          BY <1>0, <3>1, <3>3, <5>1
        <5>2. CASE g \in task[t].held
          <6>1. g[2] \in FenceIds /\ g[2] # f
            BY <1>1, <2>9, <2>10, <5>2, Guards
          <6>2. table[g[1]] = g[2] /\ fences[g[2]].life = "closing"
            BY <1>0, <1>1, <5>2 DEF TaskOK, HoldOK, Life
          <6> QED BY <1>0, <3>3, <6>1, <6>2
        <5> QED BY <3>1, <4>1, <5>1, <5>2
      <4> QED BY <2>2, <2>7, <4>1 DEF HoldOK, HoldPC, DonePC, Life
    <3>6. TodoOK(r)'
      BY <1>5, <1>7, <2>2, <2>3, <2>7, <3>2 DEF TodoOK, CommitPC
    <3>7. PhaseOK(r)'
      <4>1. task[t].phase = "plain" => rest = {} /\ HeldHandles(held) = {h}
        BY <1>5, <1>7, <3>2 DEF HeldHandles
      <4>2. task[t].phase = "all" => load = "close_alls"
        BY <1>1 DEF TaskOK, PhaseOK
      <4> QED BY <1>0, <1>1, <2>2, <2>7, <4>1, <4>2
            DEF PhaseOK, OpPC, FencePC, CountPC, InPC, ClosePC, HoldPC, DonePC, CommitPC
    <3>8. TaskOK(r)'
      BY <3>4, <3>5, <3>6, <3>7 DEF TaskOK
    <3>9. \A g \in r.held : g \in task[t].held \/ g[2] = f
      BY <2>7, <3>1
    <3>10. task[t].pc \notin CommitPC
      BY <1>0 DEF CommitPC
    <3>11. Life(f) # "closed" /\ \A u \in Tasks \ {t} : \A g \in task[u].held : g[2] # f
      BY <2>9, <2>10
    <3>12. PICK l \in {"open", "closing", "closed"} : l = "closing" /\ SetLife(f, l)
      BY <3>1
    <3>13. \A g \in Drained(r) : g \in Drained(task[t])
      BY <2>8
    <3> QED BY <1>0, <1>1, <2>6, <2>7, <2>8, <3>8, <3>9, <3>10, <3>11, <3>12, <3>13, LifeStep
  <2>11. CASE Life(f) = "closed"
    <3>1. UNCHANGED fences /\ held = task[t].held /\ task[t].phase = "all"
      BY <1>1, <1>3, <1>4, <1>9, <2>11 DEF CloseMark
    <3>2. UseOK(r)
      BY <2>2, <2>7 DEF UseOK, OpPC, FencePC, CountPC, InPC
    <3>3. HoldOK(r)
      BY <1>0, <1>1, <2>2, <2>7, <3>1 DEF TaskOK, HoldOK, HoldPC, DonePC
    <3>4. TodoOK(r)
      BY <1>5, <1>7, <2>1, <2>2, <2>3, <2>7, <3>1 DEF TodoOK, CommitPC
    <3>5. PhaseOK(r)
      BY <1>1, <2>2, <2>7, <3>1 DEF TaskOK, PhaseOK, OpPC, FencePC, CountPC, InPC
    <3>6. TaskOK(r)
      BY <3>2, <3>3, <3>4, <3>5 DEF TaskOK
    <3>7. task[t].pc \in ClosePC \ CommitPC
      BY <1>0 DEF ClosePC, HoldPC, CommitPC
    <3> QED BY <1>0, <1>1, <2>6, <2>7, <2>8, <3>1, <3>6, <3>7, GuardStep DEF TypeOK
  <2> QED BY <1>6, <2>10, <2>11
<1> QED BY <1>8, <1>9

\* The provider closes the session, or the slot's sessions, or refuses.
LEMMA CloseNativeOK ==
  ASSUME IInv, UNCHANGED load, NEW t \in Tasks, CloseNative(t)
  PROVE  IInv'
<1>0. task[t].pc = "cl_native" /\ UNCHANGED <<load, fences, table, opened, slot, mech, starts>>
  BY DEF CloseNative, At
<1>1. /\ TypeOK /\ task[t] \in TaskType /\ TaskOK(task[t]) /\ task[t].phase \in {"plain", "all"}
      /\ task[t].pc \notin CountPC
  BY <1>0, CloseFacts DEF ClosePC, HoldPC, DonePC
<1>2. PICK marked \in SUBSET Handles :
        marked = HeldHandles(task[t].held) /\ (marked = {} <=> task[t].held = {})
  <2>1. task[t].held \subseteq Handles \X FenceIds
    BY <1>1, Fields
  <2>2. HeldHandles(task[t].held) \in SUBSET Handles
    BY <2>1 DEF HeldHandles
  <2>3. HeldHandles(task[t].held) = {} <=> task[t].held = {}
    BY DEF HeldHandles
  <2> QED BY <2>2, <2>3
<1>3. /\ \A g \in task[t].held : table[g[1]] = g[2] /\ Life(g[2]) = "closing"
      /\ task[t].phase = "plain" => task[t].h \in Handles /\ marked = {task[t].h}
      /\ task[t].phase = "all" => load = "close_alls"
      /\ Drained(task[t]) = task[t].held /\ task[t].pc \in ClosePC \ CommitPC
  BY <1>0, <1>1, <1>2 DEF TaskOK, HoldOK, PhaseOK, ClosePC, HoldPC, DonePC, CommitPC, Drained
<1>4. ASSUME NEW p \in {"cl_store", "cl_evict", "cl_reopen"}, p = "cl_evict" <=> marked = {},
             NEW r, r = [task[t] EXCEPT !.pc = p, !.todo = marked]
      PROVE  /\ r.pc = p /\ r.todo = marked /\ r.held = task[t].held /\ r.phase = task[t].phase
             /\ r.h = task[t].h /\ r \in TaskType /\ TaskOK(r) /\ ~Bound(r) /\ r.pc \in ClosePC
             /\ r.pc \notin CountPC /\ \A g \in Drained(r) : g \in Drained(task[t])
  <2>1. /\ r.pc = p /\ r.todo = marked /\ r.held = task[t].held /\ r.phase = task[t].phase
        /\ r.h = task[t].h /\ r \in TaskType
    BY <1>1, <1>4 DEF TaskType, PC
  <2>2. UseOK(r)
    BY <2>1 DEF UseOK, OpPC, FencePC, CountPC, InPC
  <2>3. HoldOK(r)
    BY <1>2, <1>3, <1>4, <2>1 DEF HoldOK, HoldPC, DonePC, CommitPC
  <2>4. TodoOK(r)
    BY <1>2, <1>4, <2>1 DEF TodoOK, CommitPC
  <2>5. PhaseOK(r)
    BY <1>1, <1>2, <1>3, <2>1 DEF PhaseOK, OpPC, FencePC, CountPC, InPC
  <2>6. ~Bound(r) /\ r.pc \in ClosePC /\ r.pc \notin CountPC
    BY <1>1, <2>1 DEF Bound, ClosePC, HoldPC, DonePC, CommitPC, CountPC, InPC
  <2>7. \A g \in Drained(r) : g \in Drained(task[t])
    BY <1>3, <2>1 DEF Drained
  <2> QED BY <2>1, <2>2, <2>3, <2>4, <2>5, <2>6, <2>7 DEF TaskOK
<1>5. CASE UNCHANGED nat /\ marked = {} /\ Finish(t)
  <2>1. task[t].held = {} /\ task[t].pc \notin CountPC \cup CommitPC
    BY <1>1, <1>2, <1>3, <1>5
  <2> QED BY <1>0, <1>1, <1>5, <2>1, FinishStep DEF TypeOK
<1>6. CASE /\ UNCHANGED nat /\ marked # {}
           /\ task' = [task EXCEPT ![t].pc = "cl_reopen", ![t].todo = marked]
  <2>1. PICK r : r = [task[t] EXCEPT !.pc = "cl_reopen", !.todo = marked]
    OBVIOUS
  <2>2. task' = [task EXCEPT ![t] = r]
    BY <1>6, <2>1
  <2>3. /\ r.held = task[t].held /\ r.phase = task[t].phase /\ r \in TaskType /\ TaskOK(r)
        /\ r.pc \in ClosePC /\ \A g \in Drained(r) : g \in Drained(task[t])
    BY <1>4, <1>6, <2>1
  <2> QED BY <1>0, <1>1, <1>3, <1>6, <2>2, <2>3, GuardStep DEF TypeOK
<1>7. CASE /\ nat' = [h \in Handles |->
                        IF h \in (IF task[t].phase = "all" THEN Handles ELSE {task[t].h})
                        THEN 0 ELSE nat[h]]
           /\ task' = [task EXCEPT ![t].pc = IF marked = {} THEN "cl_evict" ELSE "cl_store",
                                   ![t].todo = marked]
  <2>1. PICK p \in {"cl_evict", "cl_store"} :
          p = (IF marked = {} THEN "cl_evict" ELSE "cl_store") /\ (p = "cl_evict" <=> marked = {})
    OBVIOUS
  <2>2. PICK r : r = [task[t] EXCEPT !.pc = p, !.todo = marked]
    OBVIOUS
  <2>3. task' = [task EXCEPT ![t] = r]
    BY <1>7, <2>1, <2>2
  <2>4. /\ r.held = task[t].held /\ r.phase = task[t].phase /\ r \in TaskType /\ TaskOK(r)
        /\ r.pc = p /\ r.pc \notin CountPC /\ ~Bound(r)
        /\ \A g \in Drained(r) : g \in Drained(task[t])
    BY <1>4, <2>1, <2>2
  <2>5. r \in TaskType' /\ TaskOK(r)' /\ FenceIds' = FenceIds
    BY <1>0, <2>4 DEF TaskType, FenceIds, TaskOK, UseOK, HoldOK, TodoOK, PhaseOK, Life
  <2>6. nat' \in [Handles -> 0 .. opened']
    BY <1>0, <1>1, <1>7 DEF TypeOK
  <2>7. TypeOK'
    BY <1>0, <1>1, <2>3, <2>5, <2>6, TypeStep DEF TypeOK
  <2>8. Grown
    BY <1>0, <1>1, <2>5, SameGrown DEF IInv
  <2>9. TasksOK' /\ OnceOK' /\ InsideOK'
    BY <1>0, <2>3, <2>4, <2>5, <2>8, MoveTasks DEF CountPC
  <2>10. CountOK'
    BY <1>0, <1>1, <2>3, <2>4, <2>5, SameCount
  <2>11. MintOK'
    <3>1. task'[t] = r /\ \A u \in Tasks \ {t} : task'[u] = task[u]
      BY <1>1, <2>3 DEF TypeOK
    <3>2. ASSUME NEW u \in Tasks, NEW h \in Handles, NEW f \in FenceIds,
                 Bound(task[u]), table'[h] = f, ~Over(h, f)'
          PROVE  table[h] = f /\ ~Over(h, f) /\ nat'[h] = nat[h]
      <4>1. table[h] = f
        BY <1>0, <3>2
      <4>2. ~Over(h, f)
        <5> SUFFICES ASSUME NEW v \in Tasks, task[v].pc \in CommitPC, <<h, f>> \in task[v].held
                     PROVE  FALSE
          BY DEF Over
        <5>1. task'[v] = task[v]
          BY <1>3, <3>1
        <5> QED BY <3>2, <5>1 DEF Over
      <4>3. task[t].phase = "plain"
        <5>1. load = "mints"
          BY <3>2 DEF IInv, TasksOK, TaskOK, PhaseOK, Bound
        <5> QED BY <1>1, <1>3, <5>1
      <4>4. h # task[t].h
        <5> SUFFICES ASSUME h = task[t].h PROVE FALSE
          OBVIOUS
        <5>1. PICK g \in task[t].held : g[1] = h
          BY <1>2, <1>3, <4>3 DEF HeldHandles
        <5>2. g = <<h, f>>
          BY <1>1, <1>3, <4>1, <5>1, Guards
        <5>3. r.pc \in CommitPC
          BY <1>3, <2>1, <2>4, <4>3 DEF CommitPC
        <5> QED BY <2>4, <3>1, <3>2, <5>2, <5>3 DEF Over
      <4> QED BY <1>7, <4>1, <4>2, <4>3, <4>4
    <3> QED BY <2>3, <2>4, <3>2, CloseMint
  <2> QED BY <2>7, <2>9, <2>10, <2>11 DEF IInv
<1> QED BY <1>2, <1>5, <1>6, <1>7 DEF CloseNative

\* What a close knows of the next of its guards to settle.
LEMMA SettleFacts ==
  ASSUME IInv, NEW t \in Tasks, task[t].pc \in {"cl_reopen"} \cup CommitPC
  PROVE  \E h \in Handles : \E f \in FenceIds :
           /\ h = NextHandle(t) /\ h = Min(task[t].todo) /\ f = FenceOf(t, h) /\ h \in task[t].todo
           /\ <<h, f>> \in task[t].held /\ table[h] = f /\ <<h, f>> \in Drained(task[t])
           /\ \A g \in task[t].held : (g[1] = h <=> g = <<h, f>>) /\ (g[1] = h <=> g[2] = f)
           /\ \A u \in Tasks \ {t} : \A g \in task[u].held : g[2] # f /\ g[1] # h
           /\ \A u \in Tasks : task[u].pc \in InPC => task[u].f # f
           /\ Life(f) = IF task[t].pc = "cl_remove" THEN "closed" ELSE "closing"
<1>1. /\ TypeOK /\ TaskOK(task[t]) /\ task[t].todo # {} /\ task[t].todo = HeldHandles(task[t].held)
  BY CloseFacts DEF TaskOK, TodoOK, ClosePC, HoldPC, DonePC
<1>2. PICK h \in Handles : h = NextHandle(t) /\ h \in task[t].todo
  BY <1>1, CloseFacts DEF ClosePC, HoldPC, DonePC
<1>3. h \in HeldHandles(task[t].held)
  BY <1>1, <1>2
<1>4. /\ FenceOf(t, h) \in FenceIds
      /\ <<h, FenceOf(t, h)>> \in task[t].held /\ table[h] = FenceOf(t, h)
      /\ \A g \in task[t].held : g[1] = h => g = <<h, FenceOf(t, h)>> /\ g[2] = FenceOf(t, h)
      /\ \A u \in Tasks \ {t} : \A g \in task[u].held : g[2] # FenceOf(t, h) /\ g[1] # h
      /\ \A g \in task[t].held : g[1] # h => g[2] # FenceOf(t, h)
  BY <1>3, Holder
<1>5. PICK f \in FenceIds : f = FenceOf(t, h)
  BY <1>4
<1>6. <<h, f>> \in Drained(task[t])
  BY <1>4, <1>5 DEF Drained, DonePC
<1>7. \A u \in Tasks : task[u].pc \in InPC => task[u].f # <<h, f>>[2]
  BY <1>6 DEF IInv, InsideOK
<1>8. Life(<<h, f>>[2]) = IF task[t].pc = "cl_remove" /\ <<h, f>>[1] = Min(task[t].todo)
                          THEN "closed" ELSE "closing"
  BY <1>1, <1>4, <1>5 DEF TaskOK, HoldOK
<1>9. /\ Life(f) = IF task[t].pc = "cl_remove" THEN "closed" ELSE "closing"
      /\ \A u \in Tasks : task[u].pc \in InPC => task[u].f # f
  BY <1>2, <1>7, <1>8 DEF NextHandle
<1>10. \A g \in task[t].held : (g[1] = h <=> g = <<h, f>>) /\ (g[1] = h <=> g[2] = f)
  BY <1>4, <1>5
<1> QED BY <1>2, <1>4, <1>5, <1>6, <1>9, <1>10 DEF NextHandle

\* commit_close: the terminal state.
LEMMA CloseStoreOK ==
  ASSUME IInv, UNCHANGED load, NEW t \in Tasks, CloseStore(t)
  PROVE  IInv'
<1>0. task[t].pc = "cl_store" /\ UNCHANGED <<load, table, nat, opened, slot, mech, starts>>
  BY DEF CloseStore, At
<1>1. /\ TypeOK /\ task[t] \in TaskType /\ TaskOK(task[t]) /\ task[t].phase \in {"plain", "all"}
      /\ task[t].pc \notin CountPC
  BY <1>0, CloseFacts DEF ClosePC, HoldPC, DonePC, CommitPC
<1>2. PICK h \in Handles, f \in FenceIds :
        /\ h = NextHandle(t) /\ h = Min(task[t].todo) /\ f = FenceOf(t, h) /\ h \in task[t].todo
        /\ <<h, f>> \in task[t].held /\ table[h] = f /\ <<h, f>> \in Drained(task[t])
        /\ \A g \in task[t].held : (g[1] = h <=> g = <<h, f>>) /\ (g[1] = h <=> g[2] = f)
        /\ \A u \in Tasks \ {t} : \A g \in task[u].held : g[2] # f /\ g[1] # h
        /\ \A u \in Tasks : task[u].pc \in InPC => task[u].f # f
        /\ Life(f) = IF task[t].pc = "cl_remove" THEN "closed" ELSE "closing"
  BY <1>0, SettleFacts DEF CommitPC
<1>3. PICK l \in {"open", "closing", "closed"} : l = "closed" /\ SetLife(f, l)
  BY <1>2 DEF CloseStore
<1>4. PICK r : r = [task[t] EXCEPT !.pc = "cl_remove"]
  OBVIOUS
<1>5. task' = [task EXCEPT ![t] = r]
  BY <1>4 DEF CloseStore, Go
<1>6. /\ r.pc = "cl_remove" /\ r.todo = task[t].todo /\ r.held = task[t].held
      /\ r.phase = task[t].phase /\ r.h = task[t].h /\ r \in TaskType
  BY <1>1, <1>4 DEF TaskType, PC
<1>7. /\ fences'[f].life = "closed" /\ FenceIds' = FenceIds
      /\ \A e \in FenceIds \ {f} : fences'[e].life = fences[e].life
  BY <1>1, <1>3, LifeTyped
<1>8. TaskOK(r)'
  <2>1. UseOK(r)'
    BY <1>6 DEF UseOK, OpPC, FencePC, CountPC, InPC
  <2>2. HoldOK(r)'
    <3>1. ASSUME NEW g \in task[t].held
          PROVE  /\ table'[g[1]] = g[2]
                 /\ fences'[g[2]].life = IF g[1] = h THEN "closed" ELSE "closing"
      <4>1. /\ g[2] \in FenceIds /\ table[g[1]] = g[2] /\ fences[g[2]].life = "closing"
        BY <1>0, <1>1, Guards DEF TaskOK, HoldOK, Life
      <4> QED BY <1>0, <1>2, <1>7, <4>1
    <3> QED BY <1>2, <1>6, <3>1 DEF HoldOK, HoldPC, DonePC, CommitPC, Life
  <2>3. TodoOK(r)'
    BY <1>0, <1>1, <1>6 DEF TaskOK, TodoOK, CommitPC
  <2>4. PhaseOK(r)'
    BY <1>0, <1>1, <1>6
       DEF TaskOK, PhaseOK, OpPC, FencePC, CountPC, InPC, ClosePC, HoldPC, DonePC, CommitPC
  <2> QED BY <2>1, <2>2, <2>3, <2>4 DEF TaskOK
<1>9. /\ r.pc \notin CountPC /\ ~Bound(r) /\ r.pc \in CommitPC
      /\ \A g \in Drained(r) : g \in Drained(task[t])
  BY <1>0, <1>1, <1>6 DEF CountPC, InPC, Bound, CommitPC, DonePC, Drained
<1>10. Life(f) # "closed" /\ (\A g \in r.held : g \in task[t].held \/ g[2] = f)
  BY <1>0, <1>2, <1>6
<1> QED BY <1>0, <1>1, <1>2, <1>3, <1>5, <1>6, <1>8, <1>9, <1>10, LifeStep

\* reopen, reopen_all and the unwinding drop of an unsettled guard.
LEMMA CloseReopenOK ==
  ASSUME IInv, UNCHANGED load, NEW t \in Tasks, CloseReopen(t)
  PROVE  IInv'
<1>0. task[t].pc = "cl_reopen" /\ UNCHANGED <<load, table, nat, opened, slot, mech, starts>>
  BY DEF CloseReopen, At
<1>1. /\ TypeOK /\ task[t] \in TaskType /\ TaskOK(task[t]) /\ task[t].phase \in {"plain", "all"}
      /\ task[t].pc \notin CountPC /\ task[t].todo \subseteq Handles /\ opened \in Nat
  BY <1>0, CloseFacts DEF ClosePC, HoldPC, DonePC
<1>2. PICK h \in Handles, f \in FenceIds :
        /\ h = NextHandle(t) /\ h = Min(task[t].todo) /\ f = FenceOf(t, h) /\ h \in task[t].todo
        /\ <<h, f>> \in task[t].held /\ table[h] = f /\ <<h, f>> \in Drained(task[t])
        /\ \A g \in task[t].held : (g[1] = h <=> g = <<h, f>>) /\ (g[1] = h <=> g[2] = f)
        /\ \A u \in Tasks \ {t} : \A g \in task[u].held : g[2] # f /\ g[1] # h
        /\ \A u \in Tasks : task[u].pc \in InPC => task[u].f # f
        /\ Life(f) = IF task[t].pc = "cl_remove" THEN "closed" ELSE "closing"
  BY <1>0, SettleFacts
<1>3. PICK l \in {"open", "closing", "closed"} : l = "open" /\ SetLife(f, l)
  BY <1>2 DEF CloseReopen
<1>4. PICK rest \in SUBSET Handles : rest = task[t].todo \ {h}
  BY <1>1
<1>5. PICK held \in SUBSET (Handles \X FenceIds) : held = {g \in task[t].held : g[1] # h}
  <2>1. task[t].held \subseteq Handles \X FenceIds
    BY <1>1, Fields
  <2> QED BY <2>1
<1>6. Life(f) # "closed" /\ task[t].pc \notin CommitPC
  BY <1>0, <1>2 DEF CommitPC
<1>7. CASE rest = {}
  <2>1. PICK r : r = Idle
    OBVIOUS
  <2>2. task' = [task EXCEPT ![t] = r]
    BY <1>2, <1>4, <1>7, <2>1 DEF CloseReopen, Finish
  <2>3. r \in TaskType /\ r.pc = "idle" /\ r.held = {} /\ r.phase = "plain" /\ ~Bound(r)
    BY <1>1, <2>1, IdleFacts
  <2>4. TaskOK(r)'
    BY <2>3 DEF TaskOK, UseOK, HoldOK, TodoOK, PhaseOK, OpPC, FencePC, CountPC, InPC, ClosePC, HoldPC,
                DonePC, CommitPC
  <2>5. r.pc \notin CountPC /\ (\A g \in Drained(r) : g \in Drained(task[t]))
    BY <2>3 DEF CountPC, InPC, Drained
  <2> QED BY <1>0, <1>1, <1>2, <1>3, <1>6, <2>2, <2>3, <2>4, <2>5, LifeStep
<1>8. CASE rest # {}
  <2>1. PICK r : r = [task[t] EXCEPT !.held = held, !.todo = rest]
    OBVIOUS
  <2>2. task' = [task EXCEPT ![t] = r]
    <3>1. task' = [task EXCEPT ![t].held = {g \in task[t].held : g[1] # h}, ![t].todo = rest]
      <4>1. task' = [task EXCEPT ![t].held = {g \in @ : g[1] # h}, ![t].todo = rest]
        BY <1>2, <1>4, <1>8 DEF CloseReopen
      <4> QED BY <4>1
    <3>2. task' = [task EXCEPT ![t].held = held, ![t].todo = rest]
      BY <1>5, <3>1
    <3> QED BY <2>1, <3>2
  <2>3. /\ r.pc = "cl_reopen" /\ r.todo = rest /\ r.held = held
        /\ r.phase = task[t].phase /\ r.h = task[t].h /\ r \in TaskType
    BY <1>0, <1>1, <2>1 DEF TaskType
  <2>4. /\ fences'[f].life = "open" /\ FenceIds' = FenceIds
        /\ \A e \in FenceIds \ {f} : fences'[e].life = fences[e].life
    BY <1>1, <1>3, LifeTyped
  <2>5. TaskOK(r)'
    <3>1. UseOK(r)'
      BY <2>3 DEF UseOK, OpPC, FencePC, CountPC, InPC
    <3>2. HoldOK(r)'
      <4>1. ASSUME NEW g \in held PROVE table'[g[1]] = g[2] /\ fences'[g[2]].life = "closing"
        <5>1. g \in task[t].held /\ g[2] # f
          BY <1>2, <1>5
        <5>2. /\ g[2] \in FenceIds /\ table[g[1]] = g[2] /\ fences[g[2]].life = "closing"
          BY <1>0, <1>1, <5>1, Guards DEF TaskOK, HoldOK, Life
        <5> QED BY <1>0, <2>4, <5>1, <5>2
      <4> QED BY <2>3, <4>1 DEF HoldOK, HoldPC, DonePC, Life
    <3>3. TodoOK(r)'
      <4>1. task[t].todo = HeldHandles(task[t].held)
        BY <1>0, <1>1 DEF TaskOK, TodoOK
      <4>2. rest = HeldHandles(held)
        BY <1>4, <1>5, <4>1 DEF HeldHandles
      <4> QED BY <1>8, <2>3, <4>2 DEF TodoOK
    <3>4. task[t].phase = "all" /\ load = "close_alls"
      <4>1. task[t].phase = "plain" => task[t].todo = {task[t].h}
        BY <1>0, <1>1 DEF TaskOK, TodoOK, PhaseOK, ClosePC, HoldPC, DonePC
      <4>2. task[t].phase # "plain"
        BY <1>2, <1>4, <1>8, <4>1
      <4> QED BY <1>1, <4>2 DEF TaskOK, PhaseOK
    <3>5. PhaseOK(r)'
      BY <1>0, <2>3, <3>4 DEF PhaseOK, OpPC, FencePC, CountPC, InPC
    <3> QED BY <3>1, <3>2, <3>3, <3>5 DEF TaskOK
  <2>6. /\ r.pc \notin CountPC /\ ~Bound(r)
        /\ (\A g \in Drained(r) : g \in Drained(task[t]))
        /\ (\A g \in r.held : g \in task[t].held \/ g[2] = f)
    BY <1>0, <1>1, <1>5, <2>3 DEF CountPC, InPC, Bound, DonePC, Drained
  <2> QED BY <1>0, <1>1, <1>2, <1>3, <1>6, <2>2, <2>3, <2>5, <2>6, LifeStep
<1> QED BY <1>7, <1>8

\* drop_mech_cache_session, or the pop of the slot's handles.
LEMMA CloseEvictOK ==
  ASSUME IInv, UNCHANGED load, NEW t \in Tasks, CloseEvict(t)
  PROVE  IInv'
<1>0. task[t].pc = "cl_evict" /\ UNCHANGED <<load, fences, table, nat, opened, starts>>
  BY DEF CloseEvict, At
<1>1. /\ TypeOK /\ task[t] \in TaskType /\ TaskOK(task[t]) /\ task[t].phase \in {"plain", "all"}
      /\ task[t].pc \notin CountPC /\ task[t].todo \subseteq Handles /\ opened \in Nat
  BY <1>0, CloseFacts DEF ClosePC
<1>2. /\ task[t].held = {} /\ task[t].pc \in ClosePC \ CommitPC
      /\ task[t].phase = "plain" => task[t].h \in Handles
      /\ task[t].phase = "all" => load = "close_alls"
  BY <1>0, <1>1 DEF TaskOK, HoldOK, PhaseOK, ClosePC, HoldPC, DonePC, CommitPC
<1>3. slot' \subseteq Handles /\ mech' \in [Handles -> 0 .. opened]
  <2>1. slot \subseteq Handles /\ mech \in [Handles -> 0 .. opened] /\ 0 \in 0 .. opened
    BY <1>1 DEF TypeOK
  <2>2. slot' \in {slot, {}} /\ mech' \in {mech, [mech EXCEPT ![task[t].h] = 0]}
    BY DEF CloseEvict
  <2> QED BY <2>1, <2>2
<1>4. CASE Finish(t)
  BY <1>0, <1>1, <1>2, <1>3, <1>4, FinishStep
<1>5. CASE ~Finish(t)
  <2>1. PICK todo \in SUBSET Handles : task' = [task EXCEPT ![t].pc = "cl_forget", ![t].todo = todo]
    <3>1. CASE task[t].phase = "all"
      <4>1. task' = [task EXCEPT ![t].pc = "cl_forget", ![t].todo = slot]
        BY <1>5, <3>1 DEF CloseEvict
      <4> QED BY <1>1, <4>1 DEF TypeOK
    <3>2. CASE task[t].phase # "all"
      <4>1. task' = [task EXCEPT ![t].pc = "cl_forget"]
        BY <3>2 DEF CloseEvict, Go
      <4>2. [task EXCEPT ![t].pc = "cl_forget"] = [task EXCEPT ![t].pc = "cl_forget", ![t].todo = task[t].todo]
        <5>1. [task[t] EXCEPT !.pc = "cl_forget"] = [task[t] EXCEPT !.pc = "cl_forget", !.todo = task[t].todo]
          BY <1>1 DEF TaskType
        <5> QED BY <5>1
      <4> QED BY <1>1, <4>1, <4>2
    <3> QED BY <3>1, <3>2
  <2>2. PICK r : r = [task[t] EXCEPT !.pc = "cl_forget", !.todo = todo]
    OBVIOUS
  <2>3. task' = [task EXCEPT ![t] = r]
    BY <2>1, <2>2
  <2>4. /\ r.pc = "cl_forget" /\ r.held = task[t].held /\ r.phase = task[t].phase
        /\ r.h = task[t].h /\ r \in TaskType
    BY <1>1, <2>2 DEF TaskType, PC
  <2>5. TaskOK(r)
    BY <1>1, <1>2, <2>4
       DEF TaskOK, UseOK, HoldOK, TodoOK, PhaseOK, OpPC, FencePC, CountPC, InPC, ClosePC, HoldPC,
           DonePC, CommitPC
  <2>6. r.pc \in ClosePC /\ (\A g \in Drained(r) : g \in Drained(task[t]))
    BY <1>2, <2>4 DEF ClosePC, Drained
  <2> QED BY <1>0, <1>2, <1>3, <2>3, <2>4, <2>5, <2>6, GuardStep
<1> QED BY <1>4, <1>5

\* forget_session_slot, or the eviction of each handle popped.
LEMMA CloseForgetOK ==
  ASSUME IInv, UNCHANGED load, NEW t \in Tasks, CloseForget(t)
  PROVE  IInv'
<1>0. task[t].pc = "cl_forget" /\ UNCHANGED <<load, fences, table, nat, opened, starts>> /\ Finish(t)
  BY DEF CloseForget, At
<1>1. TypeOK /\ TaskOK(task[t]) /\ opened \in Nat
  BY <1>0, CloseFacts DEF ClosePC
<1>2. task[t].held = {} /\ task[t].pc \notin CountPC \cup CommitPC
  BY <1>0, <1>1 DEF TaskOK, HoldOK, HoldPC, DonePC, CommitPC, CountPC, InPC
<1>3. slot' \subseteq Handles /\ mech' \in [Handles -> 0 .. opened]
  <2>1. slot \subseteq Handles /\ mech \in [Handles -> 0 .. opened] /\ 0 \in 0 .. opened
    BY <1>1 DEF TypeOK
  <2>2. /\ slot' = slot \/ slot' = slot \ {task[t].h}
        /\ mech' = mech \/ mech' = [h \in Handles |-> IF h \in task[t].todo THEN 0 ELSE mech[h]]
    BY DEF CloseForget
  <2> QED BY <2>1, <2>2
<1> QED BY <1>0, <1>2, <1>3, FinishStep

\* commit_close: the table entry of the closed fence goes.
LEMMA CloseRemoveOK ==
  ASSUME IInv, UNCHANGED load, NEW t \in Tasks, CloseRemove(t)
  PROVE  IInv'
<1>0. task[t].pc = "cl_remove" /\ UNCHANGED <<load, fences, nat, opened, slot, mech, starts>>
  BY DEF CloseRemove, At
<1>1. /\ TypeOK /\ task[t] \in TaskType /\ TaskOK(task[t]) /\ task[t].phase \in {"plain", "all"}
      /\ task[t].pc \notin CountPC /\ task[t].todo \subseteq Handles
  BY <1>0, CloseFacts DEF ClosePC, HoldPC, DonePC, CommitPC
<1>2. PICK h \in Handles, f \in FenceIds :
        /\ h = NextHandle(t) /\ h = Min(task[t].todo) /\ f = FenceOf(t, h) /\ h \in task[t].todo
        /\ <<h, f>> \in task[t].held /\ table[h] = f /\ <<h, f>> \in Drained(task[t])
        /\ \A g \in task[t].held : (g[1] = h <=> g = <<h, f>>) /\ (g[1] = h <=> g[2] = f)
        /\ \A u \in Tasks \ {t} : \A g \in task[u].held : g[2] # f /\ g[1] # h
        /\ \A u \in Tasks : task[u].pc \in InPC => task[u].f # f
        /\ Life(f) = IF task[t].pc = "cl_remove" THEN "closed" ELSE "closing"
  BY <1>0, SettleFacts DEF CommitPC
<1>3. PICK rest \in SUBSET Handles : rest = task[t].todo \ {h}
  BY <1>1
<1>4. PICK held \in SUBSET (Handles \X FenceIds) : held = {g \in task[t].held : g[1] # h}
  <2>1. task[t].held \subseteq Handles \X FenceIds
    BY <1>1, Fields
  <2> QED BY <2>1
<1>5. rest = HeldHandles(held) /\ (rest = {} <=> held = {})
  <2>1. task[t].todo = HeldHandles(task[t].held)
    BY <1>0, <1>1 DEF TaskOK, TodoOK, CommitPC
  <2>2. rest = HeldHandles(held)
    BY <1>3, <1>4, <2>1 DEF HeldHandles
  <2> QED BY <2>2 DEF HeldHandles
<1>6. PICK p \in {"cl_evict", "cl_store"} :
        p = (IF rest = {} THEN "cl_evict" ELSE "cl_store") /\ (p = "cl_evict" <=> rest = {})
  OBVIOUS
<1>7. PICK r : r = [task[t] EXCEPT !.pc = p, !.held = held, !.todo = rest]
  OBVIOUS
<1>8. task' = [task EXCEPT ![t] = r]
  <2>1. task' = [task EXCEPT ![t].pc = IF rest = {} THEN "cl_evict" ELSE "cl_store",
                             ![t].held = {g \in @ : g[1] # h}, ![t].todo = rest]
    BY <1>2, <1>3 DEF CloseRemove
  <2>2. task' = [task EXCEPT ![t].pc = IF rest = {} THEN "cl_evict" ELSE "cl_store",
                             ![t].held = {g \in task[t].held : g[1] # h}, ![t].todo = rest]
    BY <2>1
  <2>3. task' = [task EXCEPT ![t].pc = p, ![t].held = held, ![t].todo = rest]
    BY <1>4, <1>6, <2>2
  <2> QED BY <1>7, <2>3
<1>9. /\ r.pc = p /\ r.todo = rest /\ r.held = held
      /\ r.phase = task[t].phase /\ r.h = task[t].h /\ r \in TaskType
  BY <1>1, <1>7 DEF TaskType, PC
<1>10. table' = [table EXCEPT ![h] = 0]
  BY <1>2 DEF CloseRemove
<1>11. /\ table'[h] = 0 /\ \A i \in Handles \ {h} : table'[i] = table[i]
       /\ table' \in [Handles -> {0} \cup FenceIds] /\ FenceIds' = FenceIds
  BY <1>0, <1>1, <1>10 DEF TypeOK, FenceIds
<1>12. TypeOK'
  <2>1. r \in TaskType'
    BY <1>0, <1>9, <1>11 DEF TaskType
  <2> QED BY <1>0, <1>1, <1>8, <1>11, <2>1, TypeStep DEF TypeOK
<1>13. task'[t] = r /\ \A u \in Tasks \ {t} : task'[u] = task[u]
  BY <1>1, <1>8 DEF TypeOK
<1>14. TaskOK(r)'
  <2>1. UseOK(r)'
    BY <1>9 DEF UseOK, OpPC, FencePC, CountPC, InPC
  <2>2. HoldOK(r)'
    <3>1. ASSUME NEW g \in held PROVE table'[g[1]] = g[2] /\ fences'[g[2]].life = "closing"
      <4>1. g \in task[t].held /\ g[1] # h /\ g[1] \in Handles
        BY <1>1, <1>4, Guards
      <4>2. /\ table[g[1]] = g[2] /\ fences[g[2]].life = "closing"
        BY <1>1, <1>2, <4>1 DEF TaskOK, HoldOK, Life
      <4> QED BY <1>0, <1>11, <4>1, <4>2
    <3> QED BY <1>5, <1>6, <1>9, <3>1 DEF HoldOK, HoldPC, DonePC, CommitPC, Life
  <2>3. TodoOK(r)'
    BY <1>5, <1>6, <1>9 DEF TodoOK, CommitPC
  <2>4. PhaseOK(r)'
    <3>1. task[t].phase = "plain" => task[t].todo = {task[t].h} /\ task[t].h \in Handles
      BY <1>0, <1>1 DEF TaskOK, TodoOK, PhaseOK, ClosePC, HoldPC, DonePC, CommitPC
    <3>2. task[t].phase = "plain" => p = "cl_evict"
      BY <1>2, <1>3, <1>6, <3>1
    <3>3. task[t].phase = "all" => load = "close_alls"
      BY <1>1 DEF TaskOK, PhaseOK
    <3> QED BY <1>0, <1>1, <1>9, <3>1, <3>2, <3>3
          DEF PhaseOK, OpPC, FencePC, CountPC, InPC, DonePC, CommitPC
  <2> QED BY <2>1, <2>2, <2>3, <2>4 DEF TaskOK
<1>15. TasksOK'
  <2> SUFFICES ASSUME NEW u \in Tasks PROVE TaskOK(task[u])'
    BY DEF TasksOK
  <2>1. CASE u = t
    BY <1>13, <1>14, <2>1 DEF TaskOK, UseOK, HoldOK, TodoOK, PhaseOK
  <2>2. CASE u # t
    <3>0. TaskOK(task[u]) /\ task'[u] = task[u]
      BY <1>13, <2>2 DEF IInv, TasksOK
    <3>1. UseOK(task[u])'
      <4>1. task[u].pc \in FencePC \cup {"cl_mark"} => task[u].h \in Handles
        BY <3>0 DEF TaskOK, UseOK, OpPC
      <4>2. task[u].pc \in FencePC \cup {"cl_mark"} =>
              (fences[task[u].f].life # "closed" => table'[task[u].h] = task[u].f)
        BY <1>0, <1>2, <1>11, <3>0, <4>1 DEF TaskOK, UseOK, Life
      <4> QED BY <1>0, <3>0, <4>2 DEF TaskOK, UseOK, Life
    <3>2. HoldOK(task[u])'
      <4>1. \A g \in task[u].held : g[1] \in Handles /\ table'[g[1]] = table[g[1]]
        BY <1>1, <1>2, <1>11, <2>2, Guards
      <4> QED BY <1>0, <3>0, <4>1 DEF TaskOK, HoldOK, Life
    <3>3. TodoOK(task[u])' /\ PhaseOK(task[u])'
      BY <3>0 DEF TaskOK, TodoOK, PhaseOK
    <3> QED BY <3>1, <3>2, <3>3 DEF TaskOK
  <2> QED BY <2>1, <2>2
<1>16. /\ r.pc \notin CountPC /\ ~Bound(r)
       /\ (\A g \in Drained(r) : g \in Drained(task[t]))
       /\ (\A g \in r.held : g \in task[t].held)
  BY <1>0, <1>1, <1>4, <1>9 DEF CountPC, InPC, Bound, DonePC, CommitPC, Drained
<1>17. OnceOK' /\ InsideOK' /\ CountOK'
  <2>1. \A i \in Handles : table'[i] \in {0, table[i]}
    BY <1>11
  <2>2. \A e \in FenceIds : fences'[e].readers = fences[e].readers
    BY <1>0
  <2> QED BY <1>1, <1>8, <1>11, <1>16, <2>1, <2>2, CloseRest
<1>18. MintOK'
  <2>1. ASSUME NEW u \in Tasks, NEW i \in Handles, NEW e \in FenceIds,
               Bound(task[u]), table'[i] = e, ~Over(i, e)'
        PROVE  table[i] = e /\ ~Over(i, e) /\ nat'[i] = nat[i]
    <3>1. i # h /\ table[i] = e
      BY <1>1, <1>11, <2>1, Fields
    <3>2. ~Over(i, e)
      <4> SUFFICES ASSUME NEW v \in Tasks, task[v].pc \in CommitPC, <<i, e>> \in task[v].held
                   PROVE  FALSE
        BY DEF Over
      <4>1. CASE v = t
        <5>1. <<i, e>> \in held
          BY <1>4, <3>1, <4>1
        <5>2. r.pc \in CommitPC
          BY <1>5, <1>6, <1>9, <5>1 DEF CommitPC
        <5> QED BY <1>9, <1>13, <2>1, <5>1, <5>2 DEF Over
      <4>2. CASE v # t
        BY <1>13, <2>1, <4>2 DEF Over
      <4> QED BY <4>1, <4>2
    <3> QED BY <1>0, <3>1, <3>2
  <2> QED BY <1>8, <1>16, <2>1, CloseMint
<1> QED BY <1>12, <1>15, <1>17, <1>18 DEF IInv

-----------------------------------------------------------------------------
(* The theorems *)

\* The backend starts without fences, sessions and calls.
LEMMA InitOK ==
  ASSUME Init
  PROVE  IInv
<1>0. FenceIds = {} /\ opened = 0 /\ \A t \in Tasks : task[t] = Idle
  BY DEF Init, FenceIds
<1>1. TypeOK
  <2>1. fences \in Seq([readers : Nat, life : {"open", "closing", "closed"}])
    BY DEF Init
  <2>2. Idle \in TaskType
    BY <1>0, IdleFacts
  <2> QED BY <1>0, <2>1, <2>2, FenceAssumption DEF Init, TypeOK
<1>2. TasksOK
  BY <1>0, IdleFacts DEF TasksOK
<1>3. OnceOK
  BY <1>0, IdleFacts DEF OnceOK, Init
<1>4. InsideOK /\ MintOK
  BY <1>0, IdleFacts DEF InsideOK, MintOK
<1>5. CountOK
  BY <1>0 DEF CountOK
<1> QED BY <1>1, <1>2, <1>3, <1>4, <1>5 DEF IInv

\* Every access to an atomic or to a table preserves the invariant.
LEMMA NextOK ==
  ASSUME IInv, [Next]_vars
  PROVE  IInv'
<1>1. CASE UNCHANGED vars
  <2>0. TypeOK'
    BY <1>1 DEF vars, IInv, TypeOK, TaskType, FenceIds
  <2>1. TasksOK' /\ OnceOK'
    <3>1. ASSUME NEW t \in Tasks PROVE TaskOK(task[t])'
      <4>1. TaskOK(task[t])
        BY DEF IInv, TasksOK
      <4> QED BY <1>1, <4>1 DEF vars, TaskOK, UseOK, HoldOK, TodoOK, PhaseOK, Life
    <3>2. OnceOK'
      BY <1>1 DEF vars, IInv, OnceOK
    <3> QED BY <3>1, <3>2 DEF TasksOK
  <2>2. InsideOK' /\ CountOK' /\ MintOK'
    BY <1>1 DEF vars, IInv, InsideOK, Drained, CountOK, FenceIds, Counted, MintOK, Over
  <2> QED BY <2>0, <2>1, <2>2 DEF IInv
<1>2. CASE Next
  <2>0. UNCHANGED load
    BY <1>2 DEF Next
  <2>1. PICK t \in Tasks :
          \/ StartOpen(t) \/ StartCloseAll(t)
          \/ \E h \in Handles : StartOp(t, h) \/ StartMint(t, h) \/ StartClose(t, h)
          \/ Step(t)
    BY <1>2 DEF Next
  <2>2. CASE \/ StartOpen(t) \/ StartCloseAll(t)
             \/ \E h \in Handles : StartOp(t, h) \/ StartMint(t, h) \/ StartClose(t, h)
    BY <2>0, <2>2, StartsOK
  <2>3. CASE Step(t)
    BY <2>0, <2>3, OpenNativeOK, OpenNoteOK, ArmOK, OpGetOK, OpLoadOK, OpCountOK, OpRecheckOK,
       OpUncountOK, OpNativeOK, OpExitOK, CloseGetOK, CloseMarkOK, CloseDrainOK, CloseNativeOK,
       CloseStoreOK, CloseRemoveOK, CloseReopenOK, CloseEvictOK, CloseForgetOK DEF Step
  <2> QED BY <2>1, <2>2, <2>3
<1> QED BY <1>1, <1>2

\* Fences, tables and threads keep their types; a reader counter in particular
\* is never taken below zero (SessionFenceGuard::drop, enter).
THEOREM TypeCorrect == Spec => []TypeOK
<1>1. IInv => TypeOK
  BY DEF IInv
<1> QED BY <1>1, InitOK, NextOK, PTL DEF Spec

\* A fence counts exactly its readers (enter, SessionFenceGuard::drop).
THEOREM CountsItsReaders == Spec => []ReadersExact
<1>1. IInv => ReadersExact
  BY DEF IInv, CountOK, ReadersExact
<1> QED BY <1>1, InitOK, NextOK, PTL DEF Spec

\* No operation is at the provider with a handle that a close has there, and
\* no two closes have (SessionFence: "Exclusion is absolute").
THEOREM ExclusionIsAbsolute == Spec => []CloseExcludesOps
<1>1. IInv => CloseExcludesOps
  <2> SUFFICES ASSUME IInv, NEW h \in Handles
               PROVE  /\ Closing(h) # {} => Inside(h) = {}
                      /\ Cardinality(Closing(h)) <= 1
    BY DEF CloseExcludesOps
  <2>0. TypeOK /\ TasksOK
    BY DEF IInv
  <2>1. ASSUME NEW u \in Closing(h)
        PROVE  /\ u \in Tasks /\ h \in HeldHandles(task[u].held)
               /\ <<h, FenceOf(u, h)>> \in Drained(task[u]) /\ table[h] = FenceOf(u, h)
    <3>1. u \in Tasks /\ h \in HeldHandles(task[u].held) /\ task[u].pc \in DonePC
      BY DEF Closing, DonePC, CommitPC
    <3>2. <<h, FenceOf(u, h)>> \in task[u].held /\ table[h] = FenceOf(u, h)
      BY <3>1, Holder
    <3> QED BY <3>1, <3>2 DEF Drained
  <2>2. ASSUME NEW u \in Closing(h), NEW t \in Inside(h) PROVE FALSE
    <3>1. t \in Tasks /\ task[t].h = h /\ task[t].pc \in InPC
      BY DEF Inside, InPC
    <3>2. table[h] = task[t].f
      BY <2>0, <3>1 DEF TasksOK, TaskOK, UseOK, FencePC, CountPC
    <3>3. <<h, FenceOf(u, h)>>[2] # task[t].f
      BY <2>1, <3>1 DEF IInv, InsideOK
    <3> QED BY <2>1, <3>2, <3>3
  <2>3. ASSUME NEW u \in Closing(h), NEW v \in Closing(h) PROVE u = v
    <3>1. <<h, FenceOf(u, h)>> \in task[u].held /\ <<h, FenceOf(u, h)>> \in task[v].held
      BY <2>1 DEF Drained
    <3> QED BY <2>1, <3>1 DEF IInv, OnceOK
  <2>4. Cardinality(Closing(h)) <= 1
    <3>1. CASE Closing(h) = {}
      BY <3>1, FS_EmptySet
    <3>2. CASE Closing(h) # {}
      <4>1. PICK u : u \in Closing(h)
        BY <3>2
      <4>2. Closing(h) = {u}
        BY <2>3, <4>1
      <4>3. Cardinality({u}) = 1
        BY FS_Singleton
      <4> QED BY <4>2, <4>3
    <3> QED BY <3>1, <3>2
  <2> QED BY <2>2, <2>4
<1> QED BY <1>1, InitOK, NextOK, PTL DEF Spec

\* A detached destroy reaches the session that its object was minted on, or
\* none (enter_checked, ffi_destroy_object_if_incarnation).
THEOREM DestroyIsBound == Spec => []DestroyHitsItsSession
<1>1. IInv => DestroyHitsItsSession
  <2> SUFFICES ASSUME IInv, NEW t \in Tasks, task[t].pc = "op_native", task[t].phase = "settle"
               PROVE  nat[task[t].h] \in {0, task[t].want}
    BY DEF DestroyHitsItsSession, At
  <2>1. TaskOK(task[t]) /\ task[t].pc \in InPC /\ task[t].pc \in FencePC /\ task[t].pc \in OpPC
    BY DEF IInv, TasksOK, OpPC, FencePC, CountPC, InPC
  <2>2. task[t].f = task[t].expect /\ table[task[t].h] = task[t].f /\ task[t].h \in Handles
    BY <2>1 DEF TaskOK, UseOK, PhaseOK
  <2>3. ~Over(task[t].h, task[t].expect)
    <3> SUFFICES ASSUME NEW u \in Tasks, task[u].pc \in CommitPC,
                        <<task[t].h, task[t].expect>> \in task[u].held
                 PROVE  FALSE
      BY DEF Over
    <3>1. <<task[t].h, task[t].expect>> \in Drained(task[u])
      BY DEF Drained, DonePC
    <3>2. <<task[t].h, task[t].expect>>[2] # task[t].f
      BY <2>1, <3>1 DEF IInv, InsideOK
    <3> QED BY <2>2, <3>2
  <2> QED BY <2>2, <2>3 DEF IInv, MintOK, Bound
<1> QED BY <1>1, InitOK, NextOK, PTL DEF Spec

=============================================================================
