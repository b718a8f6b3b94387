# TLA+ specifications of pkcs11-proxy-ng

pkcs11-proxy-ng lets applications use a PKCS#11 module in another process: a
shim library in the application forwards every call over gRPC to a daemon, and
the daemon calls the provider (the real PKCS#11 module) for all clients. To the
provider the daemon is one application, so everything PKCS#11 keeps per
application (raw session handles, object handles, the login state of a token)
is shared by clients that must not notice each other. The specifications in
this directory are about that: who owns which native session, whose login it
is, and what happens when calls time out, clients vanish and handles are used
again.

Each module is a translation of the Rust source at the granularity at which
threads really interleave: one action is one critical section (a shard lock of
a table, a mutex, an atomic access, the run between two awaits) or one answer
of the provider. The provider is external and nondeterministic: it may answer
late, fail, and hand out a handle it has used before.

## Inventory

| Part | State | Operations | What makes it correct |
|---|---|---|---|
| Handle maps, session table (`handle_map.rs`, `context_manager.rs`, `session_handlers/lifecycle.rs`) | per client: virtual id to raw handle, the reverse table, suspended ids; native sessions | open, close (request, provider, settlement), departure, teardown | a client handle always names the session it was opened for; no native session is forgotten |
| Slot login (`session_handlers/auth.rs`, `context_manager.rs`) | token login, login state per client, slot lock, logout carrier | C_Login, C_Logout, closes, departures, reconcile | no client's action ends another's login; a login ends with its client's last session |
| Session fences (`ffi/session_fence.rs`, `session_ops.rs`, `call_helpers.rs`) | table of fences (state, readers, incarnation), retained mechanisms | enter, enter checked, close, close all, cache eviction | no operation is at the provider during a close of its session; a late destroy cannot hit a later session |
| Backend-call admission (`service_utils.rs`) | breaker counter, stuck gauge, counters per peer | admit, refuse, time out, cancel, complete | counters are exact and come back to zero |
| Context admission and lease (`context_manager.rs`, `connection_state.rs`) | contexts, in-flight counts, connection groups | connect, disconnect, Initialize, request, Finalize, reap | the cap holds; a busy or connected client is spared; orphans are recognised |
| Object lifetimes and late mints (`ffi/object_lifetime.rs`, `object_ops.rs`) | lifetime id per object handle, the table's lock, completion owners | mint, record, adopt, find, destroy, bound destroy, close, logout, purge | a late destroy hits no object of another creation |
| Object handles and search (`grpc_service/object/`) | virtual object handles, authorization cache and generation | find, create, destroy, evict | no stale authorization, no handle across clients |
| Message operations (`grpc_service/message_crypto`) | begin/next/final state per session | init, begin, next, final, close | state follows the native operation |
| Quotas (`rate_quota.rs`, `rate_limit.rs`) | reservations, token buckets, failed-login budget | reserve, register, release, record | limits are exact under concurrency |
| Native lifecycle (`ffi/native_domain.rs`, `ffi.rs`) | module state and epoch, lifecycle tracker, construction registry, session bindings | admit, initialize, finalize, abandon, drop, construct | no ordinary call outside a live module or during C_Finalize, no unload under a call, no stale bindings, no transition is left half done |
| Shutdown (`shutdown.rs`, `native_stop.rs`) | phases, one deadline | drain, evict, audit flush and join, native stop | accepted records are sealed; shutdown ends |
| Audit (`audit.rs`, `crates/audit`) | bounded channel, drop counter, hash chain, active and rotated files, anchor, checkpoints | emit, write, rotate, checkpoint, flush, resume, verify | a number a verifier can read is used once; a record is on the disk or counted as dropped; the verifier accepts what the writer leaves |
| Shim and client (`crates/shim`, `crates/client`) | process-wide caches, suspect marks, context id | every C_ function, reconnect | caches agree with the daemon's verdicts |
| Policy, transport identity, conversion, FFI marshalling, CLI, mocks, control hooks, health | configuration or none | | sequential or pure data |

How they interact. A request passes the owner check and rebinding
(ContextLease), takes an in-flight guard on its context (ContextLease),
resolves its session (SessionTable), takes the slot lock if it changes the
login (SlotLogin), is admitted to a blocking worker (BackendCall), to
the provider's lifecycle domain (NativeDomain) and to the fence of its native
session (SessionFence). A creation whose caller is gone when the provider
answers (BackendCall) is undone by its completion owner (ObjectLifetime).
Handlers put audit records into the sink, which shutdown flushes in its third
phase (AuditLog). Finalize, the reaper and an
Initialize at the cap remove a context; its teardown then closes its sessions
(SessionTable) and logs the slot out if it was the last holder (SlotLogin). The
modules share no variables: each one takes from its neighbours what the code
takes (SessionTable and SlotLogin let a context depart only when no request is
in flight, which is what ContextLease shows).

The hard behaviours are the same everywhere: an await or an unlocked gap
between a check and its use, callers that time out or are cancelled while the
provider call goes on, detached settlements that act long afterwards, and raw
handles that mean something else by then. The `hazards` in `PROJECT.json` name
them line by line.

## Modules

**HandleMap** is the data structure of `handle_map.rs` as operators on a
record: `v2b`, `b2v`, `susp` and `next` are the two hash maps, the suspended
entries and the id counter. `WellFormed` is its representation invariant.

**SessionTable** (extends HandleMap) follows a native session from
`open_session` through registration, close transitions and teardown. `native`
gives each open raw handle the serial of the session behind it, so that two
sessions under one recycled handle can be told apart; `born` remembers the
serial a virtual handle was created for. `opens`, `closes` and `reaping` are
the calls in progress: the open whose handler may have left
(`MintCompletionOwner`), the close transitions (`CloseSessionTransition`,
settled, dropped before or after the start), and the teardown plans. `provider`
is chosen from the constant `Providers` in the initial state and never changes:
whether it recycles raw handles, and whether a close it reports as failed may
have closed the session.

**SlotLogin** is one slot: `token` is the native login, `holders` the clients
with a login state, `lock` the slot login lock, `task` the program counter of
each request or teardown, `late` the provider calls whose caller has stopped
waiting, and `carrier` the transient session that logs out when no live session
can. `load`, chosen from `Loads` and fixed, says whether callers of a behaviour
give up on provider calls (`timeouts`) and whether clients call
C_CloseAllSessions (`close_alls`), which takes no slot lock.

**SessionFence** has one step per atomic access of `session_fence.rs`: the
lookup of the fence, the load, the count, the recheck, the exit of a reader,
and the mark, drain, native call, store, removal and eviction of a close. An
index into `fences` is an incarnation. `nat` is the provider's view of a handle.
`load`, chosen from `Loads` and fixed, says whether a behaviour has late mints or
C_CloseAllSessions besides the ordinary calls.

**BackendCall** is `spawn_backend_core_classified` with the guards around it:
the CAS loops of the breaker and of the peer counter are split into load and
exchange, the clone of the peer counter out of the table is a step, and the
release of a peer counter and the removal of its entry are two.

**ContextLease** joins connection groups (`ConnectionRegistry`, counted
release), Initialize at the cap (admission mutex, eviction of expired
contexts, replacement of an idle context of the same identity), rebinding,
in-flight guards, Finalize, the lease and the reaper. `carried` is history:
the connections that carried a context's requests. Three simplifications: the
lookup of a group and the rebinding that follows it are one step for ordinary
requests (a group closed in between is pruned on read either way); `remove_if`
and `mark_closed` of the last release are one step; the reaper's list of
candidates is left out because `remove_if` decides again with the same
predicate. The time of a sweep is read once in the code and not modelled, which
allows the model a removal the code would leave to the next sweep.

**ModuleUse** is what the daemon promises a PKCS#11 module: ordinary calls only
while it is initialized and nobody finalizes it, none of them inside during a
C_Finalize, no unload of a module that is live or in use. The two probes
C_GetInfo and C_GetSlotInfo promise only the last of these: the code forwards
them in any state of the domain. **NativeDomain** implements it. `dom` is the
state and epoch under the domain's lock, `trk` the lifecycle tracker with its
generation and completion counts, `slot` the construction registry. An ordinary
call (`ord`) holds the read lock from its admission to its return, a probe holds
nothing but the backend it was called on; a control call (`ctl`) takes the write
lock for the short sections begin, enter, publish and abandon and makes its
native call between them with a ticket that carries the epoch of its begin.
`waiting` is the writer flag new readers respect. `binds` are the incarnations
whose sessions still have bindings in the daemon's tables.

**ObjectLifetime** follows one creation from the arming of its completion owner
through the native call (with the table locked around it), the recording of a
lifetime id, and adoption by the caller or the bound destroy. `obj` gives each
object handle the birth number of the object behind it, so that two objects
under one handle can be told apart. `foreign` are births that are not the
proxy's: objects of other applications of the token, which appear on any free
handle and vanish at any time, and which a search may surface. Finds, plain
destroys, closes, logouts and the purge of a finalize change the table meanwhile.
A bound destroy that the provider refuses leaves the object as it is.

**AuditLog** is the sink, the writer thread, the checkpoint timer and the audit
phase of the shutdown coordinator. The writer has one step per effect on the
disk, so that a death of the process falls between any two; the next process
takes the chain up as `resume` does. A line has length 1, a number that is never
used twice stands for a hash, and a line that was appended to a torn one is
marked `glued` (unreadable). `fault` is chosen once: nothing, a torn line,
failing writes (the write itself, or a rotation before its rename), a death
inside a rotation, or an active file that a restart cannot read (an I/O error, or
a line torn inside a character), in which case `resume` falls back to the anchor.
`VerifierAccepts` applies the checks of `verify_dir` to the files. A signing key
is configured; pruning and loss of power are left out, and the timer has one
request outstanding at a time.

Each of these components has a module of theorems that extends it:
**SessionTableProofs** (with the lemmas about HandleMap), **SlotLoginProofs**,
**SessionFenceProofs**, **BackendCallProofs**, **ContextLeaseProofs**,
**NativeDomainProofs** (with the refinement of ModuleUse),
**ObjectLifetimeProofs** and **AuditLogProofs**. The MC modules give the
constants values.

## Runs

Constants, bounds and what each run shows. Every passing run is exhaustive
within its bounds. Deadlock checking is off except in `object_mint`: clients may
stop sending requests at any time and the bounds end every behaviour.

| Run | Instance | Shows |
|---|---|---|
| `session_table` | 2 clients, 2 raw handles, 2 virtual ids, 3 opens; a provider that recycles handles, or one whose ambiguous closes may have closed; fairness | a client handle names its own open session; a handle reported gone stays gone; teardown spares what live clients reference; tables stay inverse; without recycling every native session has an owner; late opens and the sessions of departed clients get closed |
| `slot_login` | 2 clients with a session each, 2 tasks, at most 1 late call; callers that give up or batch closes; fairness | no awaited logout, own or last-holder, and no carrier ends another client's login; a login is left without a session only by a mint that C_CloseAllSessions overtook; the lock comes back |
| `slot_late_logout` (violated) | the same, callers that give up | a timed-out last-holder logout ends a new login |
| `slot_close_all` (violated) | the same, batch closes | a login is minted for a client whose sessions are gone |
| `fences` | 2 handles, 3 threads, 4 calls, late mints or close-all, fairness | operations and closes exclude each other, reader counts are exact, a bound destroy hits its own session, every close ends |
| `fence_evict` (violated) | 1 handle, 3 threads, 5 calls | the eviction after a close hits the next session |
| `call_breaker` | 4 calls, 3 of one peer, breaker 2, peer cap 1, fairness | all counters exact; the peer table empties; breaker and stuck gauge recover |
| `lease_admit` | 3 connections of 2 processes, one identity, 2 contexts, cap 1, 2 handlers, 2 in flight | the cap holds, requests and live clients keep their context, open connections stay registered, orphans are seen |
| `native_lifecycle` | 2 control threads, 2 ordinary threads, 6 epochs, 3 generations, fairness | the domain implements ModuleUse with ordinary calls and probes; no call meets bindings of an earlier incarnation; no transition stays half done; a waiting control call gets the lock |
| `object_mint` | 2 object handles, 2 session handles, 2 opens, 2 creations, 1 foreign object | a late destroy hits no object of another creation, and is refused only for cause |
| `audit_log` | 2 handlers, channel 3 of which 2 reserved, files of 2 lines, checkpoint every 2, 3 emits, 2 restarts; no fault, a torn line or failing writes; fairness | no two readable lines have one sequence number; without faults the verifier accepts the log at every moment; an orderly shutdown seals every accepted record and every drop; the reserve shrinks by no more than the handlers past the check; the writer ends |
| `audit_reissue` (violated) | 1 handler, 4 emits, a death inside a rotation | sequence numbers are issued again |

Four further configurations are not part of the runs. Each states a claim of the
repository and ends with a counterexample, which "Known limits" describes;
`tlc -workers 2 -config <cfg> <module>` shows it:

| Configuration | Module | Violates |
|---|---|---|
| `SlotLogin_late_own_logout.cfg` | `MCSlotLogin` | `LogoutSparesOthers`: a C_Logout whose caller timed out ends another client's login |
| `ObjectLifetime_foreign.cfg` | `MCObjectLifetime` | `DestroyHitsItsObject`: a late destroy hits an object the proxy did not create |
| `AuditLog_torn.cfg` | `MCAuditLog` | `SeqNeverReissued`: the number of a line glued to a torn one is given out again |
| `AuditLog_unreadable.cfg` | `MCAuditLog` | `SeqNeverReissued`: a restart that cannot read the active file resumes from the anchor |

Each module has a type invariant `TypeOK`. Two of them are properties of runs;
all are parts of the inductive invariants below, which were checked with TLC on
the instances of these runs before they were proved (NativeDomain's, under the
name `Types`, is the part that the refinement needs).

Why the bounds are enough to be interesting. Two clients and two raw handles
give every pattern of one handle changing owner; a third open lets a handle be
recycled while an older close of it is still out. Two tasks cover a race of any
two requests or teardowns; the third actor of every race in SlotLogin is the
carrier or a late call, which are not tasks. Three threads on the fences allow
an operation, a close and an opener of the next session at once. Three calls of
one peer with a cap of one give admission, release and a second admission at
the same time. In ContextLease a cap of one makes every second Initialize run
the eviction and replacement path, two connections of one process give the
overlap of a reconnect, and the third is another process with the same
identity. In NativeDomain two control threads give every overlap of initialize,
finalize and drop; six epochs are two full cycles and a refused begin, and the
last values are the overflow cases (`checked_add`) themselves. Two creations on
two handles give a recycled handle whose first creation is still unsettled, and
the second open a recycled session; one foreign object can take over either
handle. In AuditLog three records over
three processes rotate, checkpoint and resume; one channel place outside the
reserve makes two handlers race for it. The bound on calls (`MaxStarts`,
`MaxOpens`, `MaxEmits`, the number of context ids) is a guard of the action that
starts one.

Fairness. The steps of a task that has started are weakly fair: the runtime
schedules it and the provider answers every call in the end (what happens while
it does not is the subject of the timeouts, and the safety properties do not
need it). Nothing makes a client send a request or close a session. Settlements
and teardowns are weakly fair because they are spawned tasks that no caller can
cancel. In NativeDomain the threads inside a call and the answers of the
provider are fair, and no thread has to start one. In SlotLogin only the owner
of the slot lock, a task or the carrier, has to be scheduled. In AuditLog the writer
thread, the coordinator and the end of the runtime are fair; the expiry of a
deadline is not, so `WriterEnds` does not rest on a timeout.

Refinement. `ImplementsModuleUse` is the abstract specification as a property of
NativeDomain: `loaded` is mapped to the registry's slot not being retiring,
`calls` to the threads inside an ordinary call, `probes` to those inside a probe
and `stopping` to a control thread inside C_Finalize; `up` is the same variable.
The run checks it on an instance and `RefinesModuleUse` proves it.

## Proofs

Every invariant and action property that a passing run checks is also a theorem,
for every value of the constants. Each proof has the same plan: an inductive
invariant, one lemma per action or kind of action that the action keeps it, and
a theorem that combines them. What follows is why each invariant is what it is.

### SessionTable

For any clients and raw handles and any number of ids and opens:

- `TypeCorrect`, `MapsStayWellFormed`: types, and the two tables of a client stay
  inverse with the suspended ids apart. The lemmas are about the operators of
  HandleMap: the removal must drop the reverse entry only if it still names the
  removed id, and the reactivation must refuse a raw handle that has a new owner.
- `GoneStaysGone`: a handle reported gone never resolves again. `Grows` is what
  every method does to a map: nothing comes back under an id that was allocated
  before; `StatusOK` says that a live context has allocated what it has used.
- `HandlesNameTheirSessions`, `NothingForgotten`, `TeardownSparesTheLiving`: who
  owns which native session. These assume `Truthful`: no provider both recycles
  raw handles and closes a session whose close it reports as failed. The code
  cannot tell those two apart, and the last of the three is false without the
  assumption (see the known limits below); it is a hypothesis of the theorems, not
  an assumption on the constants.

The ownership invariant `OwnInv` has six parts beside the well-formed tables: a
close transition pins its context and suspended pair alone (`TokenOK`); what is
kept is the session it was kept for, and a suspended session is open until its
close is answered (`SessionOK`); serials are handed out once (`UsedOK`); a raw
handle has one claimant, a client's handle, an open or a teardown (`UniqueOK`);
no live client keeps what a teardown closes (`SparedOK`); and every open session
has an owner, or its cleanup close failed (`KeptOK`). None of the properties is
inductive alone: that a handle names its session at the moment a close is
answered rests on `UniqueOK` at the moment the handle was recycled.

The assumptions on the constants are `HandleAssumption` (no provider hands out
CK_INVALID_HANDLE) and `SessionAssumption` (types).

### SlotLogin

For any clients, sessions, tasks and late calls:

- `TypeCorrect`;
- `CarrierSafe`: the logout of the transient carrier never ends a held login,
  whatever its caller does;
- `AwaitedLogoutSafe`: a logout whose caller still waits for it ends no other
  client's login: a client's own C_Logout reaches the provider only while no other
  client holds the slot, the last-holder one while nobody does. This holds
  whatever other calls are out without a caller. It says nothing of a logout whose
  caller has left: both kinds are false then (`slot_late_logout` and
  `SlotLogin_late_own_logout.cfg`);
- `LastHolderSafe`: in an instance in which no caller gives up, no last-holder
  logout ends a held login;
- `StrandedOnlyByCloseAll`: the claim that a login has a session is false
  (`slot_close_all`); what is left of it is that no close, logout or departure
  leaves a login without a session, that a mint does so only for a session that no
  longer resolves, and that between its check and the mint nothing but the start
  of a C_CloseAllSessions of the same client can take the session away. Callers
  may give up and any number of batches may run.

The argument is ownership of the lock. `IInv` adds three parts to the type
invariant: `ShapeOK` (a task has the client and session its program counter
needs, and a live client), `LockOK` (a program counter inside the locked
section and the owner of the lock are the same thing, and a carrier in progress
owns the lock), and `LoginOK` (who may hold the slot while a logout is on its
way: nobody for the carrier and the last-holder call, no other client for an own
logout). `LoginOK` is kept because a login state is inserted only by the owner of
the lock. Four lemmas (`QuietStep`, `AcquireStep`, `HoldStep`, `ReleaseStep`) say
this once for the kinds of steps; every action is an instance of one of them.
`SInv` adds for the last theorem that requests serve and close sessions of their
own client (`OwnOK`) and that a session being closed, alone or in a batch, is
suspended and has one close at work on it (`CloseOK`).

### SessionFence

For any finite set of handles, any threads and any number of calls, with single
closes, and with late mints or close-alls (not both in one behaviour: together
they break the last theorem, see the known limits):

- `TypeCorrect`: in particular a reader counter never underflows;
- `CountsItsReaders`: a fence counts exactly its readers, those included that
  will find the mark and leave again;
- `ExclusionIsAbsolute`: no operation is at the provider with a handle that a
  close has there, and no two closes are;
- `DestroyIsBound`: a settlement that entered through its captured incarnation
  reaches the session its object was made on or none.

The exclusion is about handles and the marks are on fences, which are replaced in
the table. So `TasksOK` says first that a fence which is not closed is the one in
the table for whoever uses it, and that a guard's fence is in the table and
marked until its close is committed; `OnceOK` that a fence is in the table once
and has one guard. `InsideOK` then is the exclusion per fence: nobody is inside
once it is drained, because an entrant counts itself before it rechecks the mark
(`CountOK`). `MintOK` says that the session of a mint stays behind the handle as
long as the captured fence is in the table and its close has not taken effect.
The assumption is `FenceAssumption` (the handles are a finite set of numbers
other than CK_INVALID_HANDLE; a close-all takes them in ascending order).

### BackendCall

For any finite set of calls, any peers and any limits: `TypeCorrect`;
`BreakerExact`, `GaugeExact` and `PeersExact` (each counter is the number of the
calls that own what it counts, whichever of return, timeout, cancellation and
refusal comes first); `TableDrains` (a peer without calls leaves no entry).
`PathOK` ties the accounting of a call to its place in the code; `OwnOK` says
that a counter serves the calls of one peer even after it left the table and
another was made; `DrainOK`, which is what `TableDrains` needs, that an entry
with a count of zero has a call at work that will count on it or remove it.

### ContextLease

For any connections, peers, identities and handlers and any finite set of
contexts: `TypeCorrect`; `CapNeverExceeded`; `OpenIsRegistered`;
`OrphansAreSeen`; and the action properties `BusyIsSpared` and
`LiveClientIsSpared`. `GroupOK` and `CountOK` are about the registry: the
registered group of a peer is not closed, is that of all its open connections,
and one of them or the last one out will see to its removal. `TasksOK` carries a
handler's lookup over the steps of others (its group is still its peer's, or
closed by now), `ContextsOK` says that the groups of a context are closed or
registered for a peer that carried it, and that an open connection which carried
it is among them. `AdmissionOK` is the mutex: its owner has seen room before it
inserts. `BusyOK` makes the in-flight counter exact.

### NativeDomain

For any threads and any limits of epoch and generation:

- `RefinesModuleUse`: every behaviour, probes included, is one of ModuleUse
  under the refinement mapping above; initial states map to initial states and
  every step to a step or a stutter;
- `BindingsLive`: no call meets bindings of an earlier incarnation.

The domain's lock is not held during native calls, so the invariant is about the
tickets: no two are of the same epoch, one of the current epoch determines the
state, and a FinalizeTicket is always current (`TicketOK`); ordinary calls are
in the module only while the domain is open (`BorrowOK`); the module is live
while the domain is open or draining (`LiveOK`). That a library is not unloaded
under a live module rests on the tracker: `TrackOK` says that a Finalize which
would cancel an attempt finds the completions moved or the completion still to
be counted, and that a tracker which says finalized over a live module is
corrected before the control calls are over. A probe has no ticket; that it
keeps the library mapped rests on the borrow of the backend it was called on.
`BindOK` is about the purge of the bindings, with the exception of a domain that
has run out of epochs and never opens again.

### ObjectLifetime

For any handles, sessions and creations and any number of opens and of foreign
objects:

- `TypeCorrect`;
- `BoundDestroySafe`: a settlement that has passed its check destroys no object
  of another creation (`DestroySparesOtherMints`). It may hit a foreign object,
  see the known limits;
- `RefusalJustified`: a settlement is refused only when its object is dead, its
  session closed or its capture poisoned (`RefusedForCause`).

The first property is not inductive: at the check it rests on the table, not on
the provider. `IInv` adds that the lock is held exactly between native call and
record and between check and destroy (`LockOK`), that births and lifetime ids
are used once (`IdsOK`), and that an entry with a creation's id is at its handle
and speaks of its object, dead or alive, unless a foreign object is there, or a
newer one that is not recorded yet (`EntryOK`); the latter needs the lock, so it
is over when a check runs. `TrackedOK` is the converse for the second property:
while object and session live, the entry is there. The steps that only move a
creation's program counter are covered by one lemma (`MoveStep`). The assumption
on the constants is `LifetimeAssumption` (there are handles and sessions, and
the names used for a free lock and a token object are no one's).

### AuditLog

For any finite set of handlers, any capacity and reserve that
`AuditConfig::validate` accepts (`Reserve < Capacity`), any file size and
checkpoint interval and any number of records and restarts:

- `TypeCorrect`;
- `ReserveHolds`: what data-plane records take from the reserve is bounded by
  the handlers past the check. `ReserveOK` counts those together with the
  records in the channel;
- `NumbersUsedOnce`: no two lines a verifier can read have the same sequence
  number, with torn lines, failing writes and deaths between any two effects, if
  no behaviour has a death inside a rotation or an active file that a restart
  cannot read (`"rotation"`, `"unreadable"` `\notin Faults`). Without either
  hypothesis the statement is false (`audit_reissue`,
  `AuditLog_unreadable.cfg`), and it is false of lines glued to a torn one
  (`AuditLog_torn.cfg`);
- `OneChain`: without faults the verifier accepts the log at every moment;
- `SealedAtTheEnd`: an orderly shutdown without faults leaves every accepted
  record in the log, every drop told and the anchor at the head.

`SeqInv` is the argument for the numbers. Everything the next process may resume
from has to be above every readable line: the chain in memory, the line that is
chained and waits for its new file, and the anchor with respect to the lines in
front of its offset (`TipOK`); that offset is inside the file except between a
rename and the anchor after it (`ExtentOK`), which is where the first hypothesis
is used; the second excludes the fallback of `Reconstruct` to the anchor. The
reconstruction takes the last line that parses behind the offset, or the anchor:
`ReconstructFacts` says so without the set maximum, and a line that cannot be
read there does not matter because a torn or glued line is above the readable
ones in front of it too (`AscentOK`). `ExactInv` sharpens this to exact numbers
without faults and binds the checkpoints. `SealInv` says where a record and a
drop can be: an accepted record is in the log, in the channel or in the writer's
hands (`HeldOK`), the drops this process has told plus the sentinel in the
writer's hands are what it has seen of the counter (`ToldOK`), and when the
writer ends all of these places are empty and the anchor is at the end of the
file (`EndOK`).

### What stays with TLC

Liveness (`SlotLockReleased`, `CloseEnds`, `BreakerRecovers`, `StuckRecovers`,
`DepartedSessionsReaped`, `LateOpenSettled`, `TransientEnds`,
`WaitingWriterAcquires`, `WriterEnds`), which needs fairness and ENABLED. And the
four violated runs and the four further configurations, whose properties are
false. The proofs use no assumption
but the named ones of the modules, each of which TLC evaluates on its instance,
and the hypotheses written in the theorems.

## Findings

Each is a violated run whose counterexample is a legal interleaving of the code.

- **A timed-out last-holder logout can end a new login** (`slot_late_logout`,
  `backend_logout_if_last_holder_out_inner`). On the path through a live session
  the lock guard belongs to the caller that times out, not to the blocking call.
  The transient carrier takes the guard along and is safe (`CarrierSafe`), and so
  is every logout that is awaited (`AwaitedLogoutSafe`).
- **A login can outlive its client's sessions** (`slot_close_all`, `login`). The
  handler resolves the session again after C_Login and inserts the login state in
  a second visit to the table; a C_CloseAllSessions of the same client takes no
  slot lock and can run in between. The comments at the check and at the eviction
  of sessionless contexts say that no such login exists.
- **The eviction after a close can hit the next session** (`fence_evict`,
  `ffi_close_session`): `commit_close` gives the fence up before the mechanism
  memory and the slot record are dropped.
- **A death inside a rotation issues sequence numbers again** (`audit_reissue`,
  `rotate`): the active file is renamed before the anchor is written, so a
  process that dies in between leaves no active file and an old anchor, and the
  next one resumes from the anchor.

Known limits, seen by changing one constant or guard of a run:

- A departing client's session can be left open. Client A's close of a raw
  handle has returned at the provider but is not settled; the provider gives the
  handle to client B; B departs. The reference check of
  `plan_removed_context_teardown` sees A's suspended entry and leaves the handle
  out of B's plan; A's completion drops the entry without a close.
  `NoSessionForgotten` is therefore stated for providers that do not recycle.
- With a provider that recycles and also closes ambiguously, `TeardownSparesLive`
  fails: a teardown planned before the handle was recycled closes the new
  owner's session.
- The peer cap can be exceeded: `try_admit_peer` clones the counter out of the
  table before it increments it, and the last release can remove the entry in
  between, although the comment above it calls the admission CAS-exact.
- The guard of a client's own C_Logout is also dropped when its caller times out,
  with the call still at the provider; it can then end the login another client
  makes meanwhile (`SlotLogin_late_own_logout.cfg`).
- The logout that reconciles an orphaned login runs after the slot lock was
  released, so two logins that reconcile at once can end each other's login.
- An operation that looks its fence up after `commit_close` removed the entry
  makes a new open fence and goes on to the provider. In the daemon this takes
  an operation that is delayed between resolving its session and entering the
  fence for as long as a whole close takes.
- With late mints and close-all in one behaviour, `DestroyHitsItsSession` fails:
  a close-all also closes a session opened after its snapshot and leaves its
  fence behind.
- An Initialize whose connection was released before it was looked up makes a
  context that is bound to no connection; only the lease ends it.
- NativeDomain: an abandon takes the write lock without raising the writer flag,
  so readers can overtake it (`WaitingWriterAcquires` is about the other
  sections). A domain left `Uncertain` over a module that is still initialized
  is refused by the module on the next Initialize and stays uncertain, although
  the comment of the state says a later cycle heals it. A C_Finalize that
  reports failure and yet takes the module down is excluded.
- ObjectLifetime: an object that is found on a handle whose former object died
  behind the table's back keeps the old id (`record_if_absent_in`), although the
  module's comment says found objects get a fresh one. If the former object was a
  mint whose caller has gone, the bound destroy of that mint passes its check and
  destroys the found one, an object of another application
  (`ObjectLifetime_foreign.cfg`). An object of this proxy is safe, because its own
  record replaces the entry.
- AuditLog: a record appended to a torn line is unreadable, and `verify_dir`
  fails on it; its number may be given again to a readable line
  (`AuditLog_torn.cfg`), although the comment on the anchor says that a crash
  cannot re-issue numbers. The same happens when the active file cannot be read at
  a restart (`AuditLog_unreadable.cfg`). A failed write
  leaves the chain advanced, so the log has a gap, a checkpoint or anchor may
  speak of an unwritten record, and a failed sentinel loses its count. A death
  between the anchor of a rotation and the write leaves a gap. A restart
  followed by a clean shutdown without new records writes no checkpoint, though
  older records may have none (`records_since_checkpoint` starts at 0). The
  reserve is checked before the send and can be used by the handlers in between
  (`ReserveErosionBounded` says by how many). `VerifierAccepts` and
  `ShutdownSeals` are stated with these conditions.

## Not modelled

Wire conversion, FFI marshalling and output-length negotiation are sequential
functions of large data types; the repository covers them with fuzzing and Kani
proofs, and they are most of its lines. The policy is a decision table over
configuration. Transport security is the work of libraries. Control hooks and
mocks exist for tests. Memory ordering is taken as sequentially consistent; the
relaxed counters of the code are read and written under locks or only by
compare-and-exchange.

Of the modelled parts: NativeDomain leaves the open-session count out of the
release of a backend and does not model the death of the process at the
shutdown deadline; Shutdown is modelled in its audit phase only (a deadline
used up by an earlier phase is `DeadlineExpires` at once). AuditLog leaves out
pruning, loss of power, partial writes that report an error, errors of a
rotation after its rename, and a second concurrent flush (the daemon has one
caller). The session quota counts and reserves under one mutex and is left out.

Not yet modelled, and worth it: virtual object handles and the search cache,
message operations, the rate quota and login budget, the token-info cache, the
shim's and the client's caches.

## Plan

Modelled: HandleMap, SessionTable, SlotLogin, SessionFence, BackendCall,
ContextLease, ModuleUse with NativeDomain, ObjectLifetime, AuditLog.

Proved: every safety invariant, every action property and the refinement that a
passing run checks. Proofs to come: the fence and the session table with the
weaker hypotheses of the known limits (which guarantees are left when late mints
and close-alls meet, or when a recycling provider closes ambiguously), and the
safety half of the liveness properties (who owes the next step, as `DrainOK` says
it for the peer table).

Modules to come: **ObjectHandles** (virtual object handles, the authorization
cache and its generation, eviction with the session), **MessageOperation**, the
rate quota and login budget, **ShimState** with the client's reconnect.
