----------------------------- MODULE NativeDomain -----------------------------
(***************************************************************************)
(* The lifecycle domain of a loaded provider (native_domain.rs and the     *)
(* initialize, finalize and drop of FfiBackend).  Ordinary calls hold the  *)
(* domain's read lock from admission to return.  Initialize and Finalize   *)
(* take the write lock only for short sections and run their native call   *)
(* without it, holding a ticket with the epoch of their begin; sections    *)
(* are one step each, and so is each access to the tracker's atomics.      *)
(* C_GetInfo and C_GetSlotInfo are probes: they take no lock and look at   *)
(* no state of the domain.                                                 *)
(***************************************************************************)
EXTENDS Naturals, FiniteSets

CONSTANTS Ops,       \* threads that make ordinary calls and probes
          Controls,  \* threads that call initialize() and finalize()
          MaxEpoch,  \* u64::MAX of the domain's epoch
          MaxGen     \* u64::MAX of the tracker's generation

ASSUME DomainAssumption == MaxEpoch \in Nat /\ MaxGen \in Nat

VARIABLES dom,       \* LifecycleInner: state and epoch
          trk,       \* LifecycleTracker
          ctl,       \* Controls -> the control call in progress and its ticket
          ord,       \* Ops -> where the ordinary call or the probe is
          slot,      \* the construction registry, for this backend
          up,        \* external: the module is initialized
          inc,       \* external: how many times it came up
          binds      \* incarnations with bindings in the session tables

vars == <<dom, trk, ctl, ord, slot, up, inc, binds>>

Stable == {"LoadedUninitialized", "Open", "Finalized", "Uncertain"}
Transient == {"Initializing", "Draining", "Finalizing"}

\* Where a control call waits for the write lock through lock_write, where it
\* takes it bare, and where it holds no lock.
LockPC == {"begin_init", "begin_fin", "enter_finalizing", "publish_open", "publish_fin"}
BarePC == {"abandon_native", "abandon_refused", "abandon_fin"}
FreePC == {"idle", "attempt", "c_initialize", "returned", "count", "load", "apply",
           "changed", "seal_count", "c_finalize"}

idle == [pc |-> "idle", waiting |-> FALSE, prior |-> "Uncertain", epoch |-> 0,
         gen |-> 0, mark |-> FALSE, seal |-> 0]

TypeOK ==
  /\ dom \in [state : Stable \cup Transient, epoch : 0 .. MaxEpoch]
  /\ trk \in [attempted : BOOLEAN, since : BOOLEAN, initialized : BOOLEAN,
              finalized_ok : BOOLEAN, failed : BOOLEAN, gen : 0 .. MaxGen,
              completions : 0 .. MaxEpoch]
  /\ ctl \in [Controls -> [pc : LockPC \cup BarePC \cup FreePC, waiting : BOOLEAN,
                           prior : Stable \cup Transient, epoch : 0 .. MaxEpoch,
                           gen : 0 .. MaxGen, mark : BOOLEAN, seal : 0 .. MaxEpoch]]
  /\ ord \in [Ops -> {"idle", "passed", "native", "probe"}]
  /\ slot \in {"Active", "Retiring", "Poisoned"}
  /\ up \in BOOLEAN
  /\ inc \in 0 .. MaxEpoch
  /\ binds \subseteq 1 .. MaxEpoch

freshTracker == [attempted |-> FALSE, since |-> FALSE, initialized |-> FALSE,
                 finalized_ok |-> FALSE, failed |-> FALSE, gen |-> 0,
                 completions |-> 0]

Init ==
  /\ dom = [state |-> "LoadedUninitialized", epoch |-> 0]
  /\ trk = freshTracker
  /\ ctl = [c \in Controls |-> idle]
  /\ ord = [o \in Ops |-> "idle"]
  /\ slot = "Active"
  /\ up = FALSE /\ inc = 0
  /\ binds = {}

-----------------------------------------------------------------------------
(* The lock. *)

Readers == {o \in Ops : ord[o] = "native"}

\* writer_waiting > 0
WriterWaiting == \E c \in Controls : ctl[c].waiting

\* lock_write counts itself before it blocks.
RaiseWaiting(c) ==
  /\ ctl[c].pc \in LockPC /\ ~ctl[c].waiting
  /\ ctl' = [ctl EXCEPT ![c].waiting = TRUE]
  /\ UNCHANGED <<dom, trk, ord, slot, up, inc, binds>>

\* Control call c, counted, acquires the lock.
Acquire(c, pc) == ctl[c].pc = pc /\ ctl[c].waiting /\ Readers = {}

Go(c, pc) == ctl' = [ctl EXCEPT ![c].pc = pc, ![c].waiting = FALSE]

Return(c) == ctl' = [ctl EXCEPT ![c] = idle]

-----------------------------------------------------------------------------
(* Ordinary calls. *)

\* A variant: admission does not look at the writer count.
AdmitSpinBarging(o) ==
  /\ slot = "Active" /\ ord[o] = "idle"
  /\ ord' = [ord EXCEPT ![o] = "passed"]
  /\ UNCHANGED <<dom, trk, ctl, slot, up, inc, binds>>

\* admit_ordinary spins while a writer is counted.
AdmitSpin(o) ==
  /\ slot = "Active" /\ ord[o] = "idle" /\ ~WriterWaiting
  /\ ord' = [ord EXCEPT ![o] = "passed"]
  /\ UNCHANGED <<dom, trk, ctl, slot, up, inc, binds>>

\* It takes the read lock and enters the module, or is refused.
AdmitRead(o) ==
  /\ ord[o] = "passed"
  /\ ord' = [ord EXCEPT ![o] = IF dom.state = "Open" THEN "native" ELSE "idle"]
  /\ UNCHANGED <<dom, trk, ctl, slot, up, inc, binds>>

\* The native call returns; when it opened a session the tables bind its
\* handle before the guard is dropped.
OrdReturn(o) ==
  /\ ord[o] = "native"
  /\ ord' = [ord EXCEPT ![o] = "idle"]
  /\ binds' \in {binds, binds \cup {inc}}
  /\ UNCHANGED <<dom, trk, ctl, slot, up, inc>>

-----------------------------------------------------------------------------
(* Probes. *)

Probes == {o \in Ops : ord[o] = "probe"}

\* ffi_get_info, ffi_get_slot_info: call_control_unit forwards the call
\* whatever the domain's state, needing only the loaded backend,
Probe(o) ==
  /\ slot = "Active" /\ ord[o] = "idle"
  /\ ord' = [ord EXCEPT ![o] = "probe"]
  /\ UNCHANGED <<dom, trk, ctl, slot, up, inc, binds>>

\* and retains nothing.
ProbeReturn(o) ==
  /\ ord[o] = "probe"
  /\ ord' = [ord EXCEPT ![o] = "idle"]
  /\ UNCHANGED <<dom, trk, ctl, slot, up, inc, binds>>

-----------------------------------------------------------------------------
(* initialize(). *)

\* check_reinitialize, before anything is touched; a refusal changes nothing.
CheckReinitialize(c) ==
  /\ slot = "Active" /\ ctl[c].pc = "idle"
  /\ ~trk.failed
  /\ (~trk.initialized \/ trk.finalized_ok) => trk.gen < MaxGen
  /\ Go(c, "begin_init")
  /\ UNCHANGED <<dom, trk, ord, slot, up, inc, binds>>

\* Denied while a Finalize owns the domain and when no epoch is left.
BeginInitialize(c) ==
  /\ Acquire(c, "begin_init")
  /\ IF dom.state \in {"Draining", "Finalizing"} \/ dom.epoch = MaxEpoch
     THEN Return(c) /\ UNCHANGED dom
     ELSE /\ dom' = [state |-> "Initializing", epoch |-> dom.epoch + 1]
          /\ ctl' = [ctl EXCEPT ![c] = [idle EXCEPT !.pc = "attempt",
                       !.prior = dom.state, !.epoch = dom.epoch + 1]]
  /\ UNCHANGED <<trk, ord, slot, up, inc, binds>>

\* note_init_attempted
Attempted(t) == [t EXCEPT !.attempted = TRUE, !.since = TRUE]

EnterInitialize(c) ==
  /\ ctl[c].pc = "attempt"
  /\ trk' = Attempted(trk)
  /\ Go(c, "c_initialize")
  /\ UNCHANGED <<dom, ord, slot, up, inc, binds>>

\* External: the module comes up, in a new incarnation if it was down.
ComesUp ==
  /\ up' = TRUE
  /\ inc' = IF up THEN inc ELSE inc + 1

\* C_Initialize succeeds, also on a live module; or it fails, and may have
\* left the module live all the same.
InitializeReturns(c) ==
  /\ ctl[c].pc = "c_initialize"
  /\ \/ ComesUp /\ Go(c, "returned")
     \/ ComesUp /\ Go(c, "abandon_native")
     \/ UNCHANGED <<up, inc>> /\ Go(c, "abandon_native")
  /\ UNCHANGED <<dom, trk, ord, slot, binds>>

\* generation_before
ReadGeneration(c) ==
  /\ ctl[c].pc = "returned"
  /\ ctl' = [ctl EXCEPT ![c].pc = "count", ![c].gen = trk.gen]
  /\ UNCHANGED <<dom, trk, ord, slot, up, inc, binds>>

\* note_initialized counts the completion first,
CountCompletion(c) ==
  /\ ctl[c].pc = "count"
  /\ trk' = [trk EXCEPT !.completions = @ + 1]
  /\ Go(c, "load")
  /\ UNCHANGED <<dom, ord, slot, up, inc, binds>>

\* looks at finalize_failed and at whether a new cycle starts,
LoadCycle(c) ==
  /\ ctl[c].pc = "load"
  /\ IF trk.failed
     THEN Go(c, "abandon_refused")
     ELSE ctl' = [ctl EXCEPT ![c].pc = "apply",
                             ![c].mark = ~trk.initialized \/ trk.finalized_ok]
  /\ UNCHANGED <<dom, trk, ord, slot, up, inc, binds>>

\* and opens the cycle, unless no generation is left.
ApplyCycle(c) ==
  /\ ctl[c].pc = "apply"
  /\ IF ctl[c].mark /\ trk.gen = MaxGen
     THEN Go(c, "abandon_refused") /\ UNCHANGED trk
     ELSE /\ trk' = IF ctl[c].mark
                    THEN [trk EXCEPT !.gen = @ + 1, !.initialized = TRUE,
                                     !.finalized_ok = FALSE]
                    ELSE trk
          /\ Go(c, "changed")
  /\ UNCHANGED <<dom, ord, slot, up, inc, binds>>

\* generation_changed
CompareGeneration(c) ==
  /\ ctl[c].pc = "changed"
  /\ ctl' = [ctl EXCEPT ![c].pc = "publish_open", ![c].mark = trk.gen # ctl[c].gen]
  /\ UNCHANGED <<dom, trk, ord, slot, up, inc, binds>>

\* A variant: the purge forgets a table.
PurgeLeaky(b) == b

\* drop_all_mech_cache_in
Purge(b) == {}

\* InitTicket::settle_publish: a superseded ticket changes nothing.
PublishOpen(c) ==
  /\ Acquire(c, "publish_open")
  /\ IF dom # [state |-> "Initializing", epoch |-> ctl[c].epoch]
     THEN UNCHANGED <<dom, binds>>
     ELSE IF dom.epoch = MaxEpoch
     THEN dom' = [dom EXCEPT !.state = "Uncertain"] /\ UNCHANGED binds
     ELSE /\ dom' = [state |-> "Open", epoch |-> dom.epoch + 1]
          /\ binds' = IF ctl[c].mark THEN Purge(binds) ELSE binds
  /\ Return(c)
  /\ UNCHANGED <<trk, ord, slot, up, inc>>

\* abandon_raw_with_record, on either kind of ticket: the state it restores.
Restored(c) ==
  IF dom.epoch # ctl[c].epoch THEN dom
  ELSE [epoch |-> IF dom.epoch = MaxEpoch THEN MaxEpoch ELSE dom.epoch + 1,
        state |-> IF ctl[c].prior \in Transient THEN "Uncertain" ELSE ctl[c].prior]

\* The native call failed: note_init_native_failed.
AbandonNativeFailed(c) ==
  /\ ctl[c].pc = "abandon_native" /\ Readers = {}
  /\ dom' = Restored(c)
  /\ trk' = Attempted([trk EXCEPT !.completions = @ + 1])
  /\ Return(c)
  /\ UNCHANGED <<ord, slot, up, inc, binds>>

\* The native call succeeded but note_initialized refused the cycle.
AbandonRefused(c) ==
  /\ ctl[c].pc = "abandon_refused" /\ Readers = {}
  /\ dom' = Restored(c)
  /\ trk' = Attempted(trk)
  /\ Return(c)
  /\ UNCHANGED <<ord, slot, up, inc, binds>>

-----------------------------------------------------------------------------
(* finalize(), finalize_with_grace() and finish_finalize(). *)

FinalizeCalled(c) ==
  /\ slot = "Active" /\ ctl[c].pc = "idle"
  /\ Go(c, "begin_fin")
  /\ UNCHANGED <<dom, trk, ord, slot, up, inc, binds>>

\* The seal: by try_write, or after too many misses by lock_write.  Either
\* way no reader is left.
BeginFinalize(c) ==
  /\ ctl[c].pc = "begin_fin" /\ Readers = {}
  /\ IF dom.state # "Open" \/ dom.epoch = MaxEpoch
     THEN Return(c) /\ UNCHANGED dom
     ELSE /\ dom' = [state |-> "Draining", epoch |-> dom.epoch + 1]
          /\ ctl' = [ctl EXCEPT ![c] = [idle EXCEPT !.pc = "enter_finalizing",
                       !.prior = dom.state, !.epoch = dom.epoch + 1]]
  /\ UNCHANGED <<trk, ord, slot, up, inc, binds>>

\* A failure drops the ticket, whose Drop abandons it without a record.
EnterFinalizing(c) ==
  /\ Acquire(c, "enter_finalizing")
  /\ IF dom = [state |-> "Draining", epoch |-> ctl[c].epoch]
     THEN dom' = [dom EXCEPT !.state = "Finalizing"] /\ Go(c, "seal_count")
     ELSE dom' = Restored(c) /\ Return(c)
  /\ UNCHANGED <<trk, ord, slot, up, inc, binds>>

\* completions_at_seal, and C_Finalize is entered.
SnapshotCompletions(c) ==
  /\ ctl[c].pc = "seal_count"
  /\ ctl' = [ctl EXCEPT ![c].pc = "c_finalize", ![c].seal = trk.completions]
  /\ UNCHANGED <<dom, trk, ord, slot, up, inc, binds>>

\* External: a C_Finalize that fails leaves the module live.
FinalizeReturns(c) ==
  /\ ctl[c].pc = "c_finalize"
  /\ \/ up' = FALSE /\ Go(c, "publish_fin")
     \/ UNCHANGED up /\ Go(c, "abandon_fin")
  /\ UNCHANGED <<dom, trk, ord, slot, inc, binds>>

\* A variant: the record forgets every earlier attempt.
FinalizedUnbounded(t, seal) ==
  [t EXCEPT !.finalized_ok = TRUE, !.failed = FALSE, !.since = FALSE]

\* note_finalized_bounded
FinalizedBounded(t, seal) ==
  [t EXCEPT !.finalized_ok = TRUE, !.failed = FALSE,
            !.since = @ /\ t.completions # seal]

\* FinalizeTicket::settle_publish; the record and the purge run inside.
PublishFinalized(c) ==
  /\ Acquire(c, "publish_fin")
  /\ IF dom # [state |-> "Finalizing", epoch |-> ctl[c].epoch]
     THEN UNCHANGED <<dom, trk, binds>>
     ELSE IF dom.epoch = MaxEpoch
     THEN dom' = [dom EXCEPT !.state = "Uncertain"] /\ UNCHANGED <<trk, binds>>
     ELSE /\ dom' = [state |-> "Finalized", epoch |-> dom.epoch + 1]
          /\ trk' = FinalizedBounded(trk, ctl[c].seal)
          /\ binds' = Purge(binds)
  /\ Return(c)
  /\ UNCHANGED <<ord, slot, up, inc>>

\* A variant: the early return of a failed C_Finalize leaks the ticket.
AbandonFinalizeLeaky(c) ==
  /\ ctl[c].pc = "abandon_fin" /\ Readers = {}
  /\ trk' = IF dom.epoch = ctl[c].epoch THEN [trk EXCEPT !.failed = TRUE] ELSE trk
  /\ Return(c)
  /\ UNCHANGED <<dom, ord, slot, up, inc, binds>>

\* A failed C_Finalize: note_finalize_failed, while the ticket is current.
AbandonFinalize(c) ==
  /\ ctl[c].pc = "abandon_fin" /\ Readers = {}
  /\ dom' = Restored(c)
  /\ trk' = IF dom.epoch = ctl[c].epoch THEN [trk EXCEPT !.failed = TRUE] ELSE trk
  /\ Return(c)
  /\ UNCHANGED <<ord, slot, up, inc, binds>>

-----------------------------------------------------------------------------
(* The drop of the backend. *)

\* retirement_decision.  The open-session count is left out: it can only
\* turn a release into a poisoning.
Release(t) ==
  \/ ~t.attempted /\ ~t.initialized
  \/ t.finalized_ok /\ ~t.since

\* Every call borrows the backend, so none is in progress when it drops.
\* Without a proof of quiescence the process is stopped.
DropBackend ==
  /\ slot = "Active"
  /\ \A c \in Controls : ctl[c].pc = "idle"
  /\ \A o \in Ops : ord[o] = "idle"
  /\ slot' = IF Release(trk) THEN "Retiring" ELSE "Poisoned"
  /\ UNCHANGED <<dom, trk, ctl, ord, up, inc, binds>>

\* The fields are gone, the sentinel frees the slot, a new backend loads.
Reload ==
  /\ slot = "Retiring"
  /\ slot' = "Active"
  /\ dom' = [state |-> "LoadedUninitialized", epoch |-> 0]
  /\ trk' = freshTracker
  /\ binds' = {} /\ inc' = 0
  /\ UNCHANGED <<ctl, ord, up>>

-----------------------------------------------------------------------------
Control(c) ==
  \/ RaiseWaiting(c)
  \/ BeginInitialize(c) \/ EnterInitialize(c) \/ InitializeReturns(c)
  \/ ReadGeneration(c) \/ CountCompletion(c) \/ LoadCycle(c) \/ ApplyCycle(c)
  \/ CompareGeneration(c) \/ PublishOpen(c)
  \/ AbandonNativeFailed(c) \/ AbandonRefused(c)
  \/ BeginFinalize(c) \/ EnterFinalizing(c) \/ SnapshotCompletions(c)
  \/ FinalizeReturns(c) \/ PublishFinalized(c) \/ AbandonFinalize(c)

Next ==
  \/ \E c \in Controls : CheckReinitialize(c) \/ FinalizeCalled(c) \/ Control(c)
  \/ \E o \in Ops : AdmitSpin(o) \/ AdmitRead(o) \/ OrdReturn(o) \/ Probe(o) \/ ProbeReturn(o)
  \/ DropBackend
  \/ Reload

Spec == Init /\ [][Next]_vars

\* A thread that is inside a call goes on, and the provider returns from
\* every call; nobody has to start one.
Fairness ==
  /\ \A c \in Controls : WF_vars(Control(c))
  /\ \A o \in Ops : WF_vars(AdmitRead(o)) /\ WF_vars(OrdReturn(o)) /\ WF_vars(ProbeReturn(o))

FairSpec == Spec /\ Fairness

-----------------------------------------------------------------------------
(* Properties. *)

Use == INSTANCE ModuleUse WITH
         loaded <- slot # "Retiring",
         calls <- Readers,
         probes <- Probes,
         stopping <- \E c \in Controls : ctl[c].pc = "c_finalize"

\* The domain keeps every promise of ModuleUse: ordinary calls run only in a
\* live module that no C_Finalize is inside of, and the drop of the backend
\* unloads the library only when the module is down and no call or probe is
\* inside, however late a superseded Initialize returns from the provider.
\* Probes reach the provider in any state, as call_control_unit says.
ImplementsModuleUse == Use!Spec

\* An admitted call never finds a binding of an earlier incarnation in the
\* session tables: whoever brings the module up again or down purges them
\* before admission reopens.
NoDeadBindings == Readers # {} => binds \subseteq {inc}

\* The domain does not stay in a transient state: every ticket is settled or
\* superseded by one that is.
TransientEnds == dom.state \in Transient ~> dom.state \in Stable

\* A control call that counts itself as waiting gets the lock, however
\* steadily ordinary calls arrive: admissions hold back while it waits.
WaitingWriterAcquires ==
  \A c \in Controls : ctl[c].waiting ~> ~ctl[c].waiting
=============================================================================
