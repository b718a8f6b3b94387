----------------------------- MODULE SessionFence -----------------------------
(***************************************************************************)
(* The per-session generation fences of the native backend                 *)
(* (crates/backend/src/ffi/session_fence.rs) and the calls that use them:  *)
(* ordinary operations, mints with a detached destroy, C_CloseSession and  *)
(* C_CloseAllSessions of one slot.  Every access to an atomic or to a      *)
(* table is a step.  The provider reuses the handle of a session it has    *)
(* closed; the numbers in nat tell the sessions behind one handle apart.   *)
(***************************************************************************)
EXTENDS Naturals, Sequences, FiniteSets, FiniteSetsExt

CONSTANTS Handles,    \* numeric session handles of the slot
          Tasks,      \* threads inside the backend
          MaxStarts,  \* bound on calls
          Loads       \* which calls are made besides opens, operations and
                      \* closes: mints whose caller is gone, close-alls, none

ASSUME FenceAssumption ==
  /\ Handles \subseteq Nat \ {0} /\ IsFiniteSet(Handles)
  /\ MaxStarts \in Nat /\ Loads \subseteq {"mints", "close_alls", "none"}

VARIABLES load,     \* the kind of load; it never changes
          fences,   \* every fence ever made; its index is its incarnation
          table,    \* Handles -> the fence in the table, 0 for no entry
          nat,      \* Handles -> the session open at the provider, 0 for none
          opened,   \* number of sessions opened so far
          slot,     \* slot_sessions: the handles the backend knows
          mech,     \* Handles -> the session whose mechanism is retained
          task,     \* Tasks -> what the thread is doing
          starts    \* number of calls so far

vars == <<load, fences, table, nat, opened, slot, mech, task, starts>>

\* want is the session the call is meant for, expect a captured incarnation.
Idle == [pc |-> "idle", h |-> 0, f |-> 0, want |-> 0, expect |-> 0, phase |-> "plain",
         todo |-> {}, held |-> {}]

NewFence == [readers |-> 0, life |-> "open"]

PC == {"idle", "open_native", "open_note", "arm",
       "op_get", "op_load", "op_count", "op_recheck", "op_uncount", "op_native", "op_exit",
       "cl_get", "cl_mark", "cl_drain", "cl_native", "cl_store", "cl_remove",
       "cl_evict", "cl_forget", "cl_reopen"}

FenceIds == 1 .. Len(fences)

TaskType ==
  [pc : PC, h : {0} \cup Handles, f : {0} \cup FenceIds,
   want : 0 .. opened, expect : {0} \cup FenceIds, phase : {"plain", "mint", "settle", "all"},
   todo : SUBSET Handles, held : SUBSET (Handles \X FenceIds)]

TypeOK ==
  /\ load \in Loads
  /\ fences \in Seq([readers : Nat, life : {"open", "closing", "closed"}])
  /\ table \in [Handles -> {0} \cup FenceIds]
  /\ opened \in Nat
  /\ nat \in [Handles -> 0 .. opened]
  /\ slot \subseteq Handles
  /\ mech \in [Handles -> 0 .. opened]
  /\ task \in [Tasks -> TaskType]
  /\ starts \in 0 .. MaxStarts

Init ==
  /\ load \in Loads
  /\ fences = <<>>
  /\ table = [h \in Handles |-> 0]
  /\ nat = [h \in Handles |-> 0]
  /\ opened = 0
  /\ slot = {}
  /\ mech = [h \in Handles |-> 0]
  /\ task = [t \in Tasks |-> Idle]
  /\ starts = 0

-----------------------------------------------------------------------------
At(t, pc) == task[t].pc = pc

Go(t, pc) == task' = [task EXCEPT ![t].pc = pc]

Finish(t) == task' = [task EXCEPT ![t] = Idle]

Life(f) == fences[f].life

SetLife(f, l) == fences' = [fences EXCEPT ![f].life = l]

\* A caller has handle h: the open that returned it is complete.
Given(h) == nat[h] # 0 /\ \A t \in Tasks : ~(At(t, "open_note") /\ task[t].h = h)

Start(t, r) ==
  /\ At(t, "idle") /\ starts < MaxStarts
  /\ starts' = starts + 1
  /\ task' = [task EXCEPT ![t] = r]
  /\ UNCHANGED <<fences, table, nat, opened, slot, mech>>

\* entry(h).or_insert_with(SessionFence::new).clone(): fence f of handle h.
GetOrCreate(h, f) ==
  IF table[h] # 0
  THEN f = table[h] /\ UNCHANGED <<fences, table>>
  ELSE /\ f = Len(fences) + 1
       /\ fences' = Append(fences, NewFence)
       /\ table' = [table EXCEPT ![h] = f]

Candidates(h) == {table[h], Len(fences) + 1} \ {0}

-----------------------------------------------------------------------------
(* C_OpenSession *)

StartOpen(t) == Start(t, [Idle EXCEPT !.pc = "open_native"])

OpenNative(t) ==
  /\ At(t, "open_native")
  /\ opened' = opened + 1
  /\ \E h \in Handles :
       /\ nat[h] = 0
       /\ nat' = [nat EXCEPT ![h] = opened']
       /\ task' = [task EXCEPT ![t].pc = "open_note", ![t].h = h]
  /\ UNCHANGED <<fences, table, slot, mech, starts>>

\* remember_session_slot.
OpenNote(t) ==
  /\ At(t, "open_note")
  /\ slot' = slot \cup {task[t].h}
  /\ Finish(t)
  /\ UNCHANGED <<fences, table, nat, opened, mech, starts>>

-----------------------------------------------------------------------------
(* An ordinary operation: enter, native call, exit *)

StartOp(t, h) ==
  Given(h) /\ Start(t, [Idle EXCEPT !.pc = "op_get", !.h = h, !.want = nat[h]])

\* A mint captures the incarnation before it enters; the destroy of what it
\* minted is bound to that incarnation (ffi_destroy_object_if_incarnation; the
\* check of the object's own lifetime is not part of the fence).
StartMint(t, h) ==
  /\ load = "mints" /\ Given(h)
  /\ Start(t, [Idle EXCEPT !.pc = "arm", !.h = h, !.want = nat[h], !.phase = "mint"])

\* incarnation_or_create.
Arm(t) ==
  /\ At(t, "arm")
  /\ \E f \in Candidates(task[t].h) :
       /\ GetOrCreate(task[t].h, f)
       /\ task' = [task EXCEPT ![t].pc = "op_get", ![t].expect = f]
  /\ UNCHANGED <<nat, opened, slot, mech, starts>>

\* Mutant: the settlement enters whatever fence the handle has now.
OpGetUnchecked(t) ==
  /\ At(t, "op_get")
  /\ \E f \in Candidates(task[t].h) :
       /\ GetOrCreate(task[t].h, f)
       /\ task' = [task EXCEPT ![t].pc = "op_load", ![t].f = f]
  /\ UNCHANGED <<nat, opened, slot, mech, starts>>

\* enter and enter_checked, up to the clone of the Arc.
OpGet(t) ==
  /\ At(t, "op_get")
  /\ \/ /\ task[t].phase # "settle"
        /\ \E f \in Candidates(task[t].h) :
             /\ GetOrCreate(task[t].h, f)
             /\ task' = [task EXCEPT ![t].pc = "op_load", ![t].f = f]
     \/ /\ task[t].phase = "settle" /\ table[task[t].h] = task[t].expect
        /\ task' = [task EXCEPT ![t].pc = "op_load", ![t].f = task[t].expect]
        /\ UNCHANGED <<fences, table>>
     \/ /\ task[t].phase = "settle" /\ table[task[t].h] # task[t].expect
        /\ Finish(t)
        /\ UNCHANGED <<fences, table>>
  /\ UNCHANGED <<nat, opened, slot, mech, starts>>

OpLoad(t) ==
  /\ At(t, "op_load")
  /\ IF Life(task[t].f) = "open" THEN Go(t, "op_count") ELSE Finish(t)
  /\ UNCHANGED <<fences, table, nat, opened, slot, mech, starts>>

OpCount(t) ==
  /\ At(t, "op_count")
  /\ fences' = [fences EXCEPT ![task[t].f].readers = @ + 1]
  /\ Go(t, "op_recheck")
  /\ UNCHANGED <<table, nat, opened, slot, mech, starts>>

\* Mutant: no second load.
OpRecheckTrusting(t) ==
  /\ At(t, "op_recheck")
  /\ Go(t, "op_native")
  /\ UNCHANGED <<fences, table, nat, opened, slot, mech, starts>>

\* A close that marked between the load and the increment still wins.
OpRecheck(t) ==
  /\ At(t, "op_recheck")
  /\ Go(t, IF Life(task[t].f) = "open" THEN "op_native" ELSE "op_uncount")
  /\ UNCHANGED <<fences, table, nat, opened, slot, mech, starts>>

\* Mutant: the refused entrant stays counted.
OpUncountForgotten(t) ==
  /\ At(t, "op_uncount")
  /\ Finish(t)
  /\ UNCHANGED <<fences, table, nat, opened, slot, mech, starts>>

\* The refused entrant takes itself off the count.
OpUncount(t) ==
  /\ At(t, "op_uncount")
  /\ fences' = [fences EXCEPT ![task[t].f].readers = @ - 1]
  /\ Finish(t)
  /\ UNCHANGED <<table, nat, opened, slot, mech, starts>>

\* The provider call; an Init that worked leaves its mechanism retained.
OpNative(t) ==
  LET h == task[t].h IN
  /\ At(t, "op_native")
  /\ \/ nat[h] # 0 /\ task[t].phase = "plain" /\ mech' = [mech EXCEPT ![h] = nat[h]]
     \/ UNCHANGED mech
  /\ task' = [task EXCEPT ![t].pc = "op_exit",
                          ![t].want = IF task[t].phase = "mint" THEN nat[h] ELSE @]
  /\ UNCHANGED <<fences, table, nat, opened, slot, starts>>

\* The guard drops; a mint that worked may be left to its settlement.
OpExit(t) ==
  /\ At(t, "op_exit")
  /\ fences' = [fences EXCEPT ![task[t].f].readers = @ - 1]
  /\ \/ Finish(t)
     \/ /\ task[t].phase = "mint" /\ task[t].want # 0
        /\ task' = [task EXCEPT ![t].pc = "op_get", ![t].phase = "settle", ![t].f = 0]
  /\ UNCHANGED <<table, nat, opened, slot, mech, starts>>

-----------------------------------------------------------------------------
(* C_CloseSession and C_CloseAllSessions *)

StartClose(t, h) ==
  /\ Given(h)
  /\ Start(t, [Idle EXCEPT !.pc = "cl_get", !.h = h, !.todo = {h}])

StartCloseAll(t) ==
  /\ load = "close_alls"
  /\ Start(t, [Idle EXCEPT !.pc = IF slot = {} THEN "cl_native" ELSE "cl_get",
                           !.phase = "all", !.todo = slot])

\* Mutant: the order of the set's iterator, which differs from call to call.
NextHandleAny(t) == IF t = CHOOSE u \in Tasks : TRUE THEN Max(task[t].todo)
                                                     ELSE Min(task[t].todo)

\* enter_write_all takes the handles in ascending order.
NextHandle(t) == Min(task[t].todo)

HeldHandles(held) == {g[1] : g \in held}

FenceOf(t, h) == (CHOOSE g \in task[t].held : g[1] = h)[2]

CloseGet(t) ==
  /\ At(t, "cl_get")
  /\ \E f \in Candidates(NextHandle(t)) :
       /\ GetOrCreate(NextHandle(t), f)
       /\ task' = [task EXCEPT ![t].pc = "cl_mark", ![t].h = NextHandle(t), ![t].f = f]
  /\ UNCHANGED <<nat, opened, slot, mech, starts>>

\* The CAS loop: OPEN is marked, CLOSING is waited for, a committed close ends
\* a single close and is skipped by a close-all.
CloseMark(t) ==
  LET h == task[t].h
      f == task[t].f
      rest == task[t].todo \ {h}
      held == IF Life(f) = "open" THEN task[t].held \cup {<<h, f>>} ELSE task[t].held IN
  /\ At(t, "cl_mark")
  /\ Life(f) # "closing"
  /\ IF Life(f) = "open" THEN SetLife(f, "closing") ELSE UNCHANGED fences
  /\ IF Life(f) = "closed" /\ task[t].phase # "all"
     THEN Finish(t)
     ELSE task' = [task EXCEPT
            ![t].pc = IF rest # {} THEN "cl_get" ELSE IF held # {} THEN "cl_drain" ELSE "cl_native",
            ![t].held = held,
            ![t].todo = IF rest # {} THEN rest ELSE HeldHandles(held)]
  /\ UNCHANGED <<table, nat, opened, slot, mech, starts>>

\* drain_readers, one fence after the other.
CloseDrain(t) ==
  LET rest == task[t].todo \ {NextHandle(t)} IN
  /\ At(t, "cl_drain")
  /\ fences[FenceOf(t, NextHandle(t))].readers = 0
  /\ task' = [task EXCEPT ![t].pc = IF rest = {} THEN "cl_native" ELSE "cl_drain",
                          ![t].todo = rest]
  /\ UNCHANGED <<fences, table, nat, opened, slot, mech, starts>>

\* The provider closes the session, or the slot's sessions, or refuses.
CloseNative(t) ==
  LET all == task[t].phase = "all"
      targets == IF all THEN Handles ELSE {task[t].h}
      ok == \E h \in targets : nat[h] # 0
      marked == HeldHandles(task[t].held) IN
  /\ At(t, "cl_native")
  /\ \/ /\ ok \/ all
        /\ nat' = [h \in Handles |-> IF h \in targets THEN 0 ELSE nat[h]]
        /\ task' = [task EXCEPT ![t].pc = IF marked = {} THEN "cl_evict" ELSE "cl_store",
                                ![t].todo = marked]
     \/ /\ UNCHANGED nat
        /\ IF marked = {} THEN Finish(t)
           ELSE task' = [task EXCEPT ![t].pc = "cl_reopen", ![t].todo = marked]
  /\ UNCHANGED <<fences, table, opened, slot, mech, starts>>

\* commit_close: the terminal state, then the table entry.
CloseStore(t) ==
  /\ At(t, "cl_store")
  /\ SetLife(FenceOf(t, NextHandle(t)), "closed")
  /\ Go(t, "cl_remove")
  /\ UNCHANGED <<table, nat, opened, slot, mech, starts>>

CloseRemove(t) ==
  LET h == NextHandle(t)
      rest == task[t].todo \ {h} IN
  /\ At(t, "cl_remove")
  /\ table' = [table EXCEPT ![h] = 0]
  /\ task' = [task EXCEPT ![t].pc = IF rest = {} THEN "cl_evict" ELSE "cl_store",
                          ![t].held = {g \in @ : g[1] # h},
                          ![t].todo = rest]
  /\ UNCHANGED <<fences, nat, opened, slot, mech, starts>>

\* reopen, reopen_all and the unwinding drop of an unsettled guard.
CloseReopen(t) ==
  LET h == NextHandle(t)
      rest == task[t].todo \ {h} IN
  /\ At(t, "cl_reopen")
  /\ SetLife(FenceOf(t, h), "open")
  /\ IF rest = {} THEN Finish(t)
     ELSE task' = [task EXCEPT ![t].held = {g \in @ : g[1] # h}, ![t].todo = rest]
  /\ UNCHANGED <<table, nat, opened, slot, mech, starts>>

\* drop_mech_cache_session, or the pop of the slot's handles.
CloseEvict(t) ==
  /\ At(t, "cl_evict")
  /\ IF task[t].phase = "all"
     THEN /\ slot' = {}
          /\ UNCHANGED mech
          /\ IF slot = {} THEN Finish(t)
             ELSE task' = [task EXCEPT ![t].pc = "cl_forget", ![t].todo = slot]
     ELSE /\ mech' = [mech EXCEPT ![task[t].h] = 0]
          /\ UNCHANGED slot
          /\ Go(t, "cl_forget")
  /\ UNCHANGED <<fences, table, nat, opened, starts>>

\* forget_session_slot, or the eviction of each handle popped.
CloseForget(t) ==
  /\ At(t, "cl_forget")
  /\ IF task[t].phase = "all"
     THEN /\ mech' = [h \in Handles |-> IF h \in task[t].todo THEN 0 ELSE mech[h]]
          /\ UNCHANGED slot
     ELSE slot' = slot \ {task[t].h} /\ UNCHANGED mech
  /\ Finish(t)
  /\ UNCHANGED <<fences, table, nat, opened, starts>>

-----------------------------------------------------------------------------
Step(t) ==
  \/ OpenNative(t) \/ OpenNote(t)
  \/ Arm(t) \/ OpGet(t) \/ OpLoad(t) \/ OpCount(t) \/ OpRecheck(t) \/ OpUncount(t)
  \/ OpNative(t) \/ OpExit(t)
  \/ CloseGet(t) \/ CloseMark(t) \/ CloseDrain(t) \/ CloseNative(t)
  \/ CloseStore(t) \/ CloseRemove(t) \/ CloseReopen(t) \/ CloseEvict(t) \/ CloseForget(t)

Next ==
  /\ UNCHANGED load
  /\ \E t \in Tasks :
       \/ StartOpen(t) \/ StartCloseAll(t)
       \/ \E h \in Handles : StartOp(t, h) \/ StartMint(t, h) \/ StartClose(t, h)
       \/ Step(t)

Spec == Init /\ [][Next]_vars

\* Every thread runs on and the provider answers every call in the end.
FairSpec == Spec /\ \A t \in Tasks : WF_vars(UNCHANGED load /\ Step(t))

-----------------------------------------------------------------------------
(* Properties *)

\* Threads counted as readers of fence f.
Counted(f) ==
  {t \in Tasks : task[t].f = f
                 /\ task[t].pc \in {"op_recheck", "op_uncount", "op_native", "op_exit"}}

\* Threads inside the provider, or settling, with an operation on handle h.
Inside(h) == {t \in Tasks : task[t].h = h /\ task[t].pc \in {"op_native", "op_exit"}}

\* Threads that close handle h and have drained it.
Closing(h) ==
  {t \in Tasks : task[t].pc \in {"cl_native", "cl_store", "cl_remove", "cl_reopen"}
                 /\ h \in HeldHandles(task[t].held)}

\* A fence counts exactly its readers: a refused entrant leaves no count behind
\* and none is taken off twice (enter, SessionFenceGuard::drop).
ReadersExact == \A f \in FenceIds : fences[f].readers = Cardinality(Counted(f))

\* No operation is at the provider with a handle while a close of that handle
\* is, and only one close at a time is: "Exclusion is absolute".  It is said of
\* the handle, so a fence replaced in the table would show (session_fence.rs).
CloseExcludesOps ==
  \A h \in Handles : /\ Closing(h) # {} => Inside(h) = {}
                     /\ Cardinality(Closing(h)) <= 1

\* A detached settlement destroys at the session the object was minted on: it
\* never reaches a later session under the same handle (enter_checked).
DestroyHitsItsSession ==
  \A t \in Tasks : At(t, "op_native") /\ task[t].phase = "settle"
                     => nat[task[t].h] \in {0, task[t].want}

\* The retained mechanism of an open session is not dropped by the settlement
\* of an earlier close (ffi_close_session).
EvictionSparesLive ==
  [][\A h \in Handles : mech[h] # 0 /\ mech'[h] = 0 => nat[h] # mech[h]]_vars

\* Every close ends: overlapping close-alls do not wait for each other and
\* refused entrants do not keep the drain waiting (enter_write_all).
CloseEnds == \A t \in Tasks : At(t, "cl_get") ~> At(t, "idle")
=============================================================================
