----------------------------- MODULE BackendCall -----------------------------
(***************************************************************************)
(* spawn_backend (service_utils.rs): how a handler runs one blocking       *)
(* provider call.  A global breaker slot and a per-peer slot are taken     *)
(* first; the call then runs in a blocking task that owns both until the   *)
(* provider returns, however long ago the caller stopped waiting.  Each    *)
(* access to an atomic or to the peer table is a step.                     *)
(***************************************************************************)
EXTENDS Naturals, Sequences, FiniteSets

CONSTANTS Calls,     \* provider calls
          Peer,      \* Calls -> connection of the caller
          NoPeer,    \* a caller without one (a Unix socket)
          Max,       \* max_concurrent_backend_calls
          PeerMax    \* per_connection_max_in_flight

Peers == {Peer[c] : c \in Calls} \ {NoPeer}

ASSUME CallAssumption ==
  /\ IsFiniteSet(Calls)
  /\ Peer \in [Calls -> Peers \cup {NoPeer}]
  /\ Max \in Nat \ {0} /\ PeerMax \in Nat \ {0}

VARIABLES pc,        \* Calls -> where the call is
          seen,      \* Calls -> the counter value its CAS expects
          arc,       \* Calls -> the peer counter it has cloned, 0 for none
          caller,    \* Calls -> what became of the caller
          account,   \* Calls -> StuckCallState
          inFlight,  \* IN_FLIGHT
          stuck,     \* STUCK_CALLS
          counts,    \* every peer counter ever made
          entry      \* PEER_IN_FLIGHT: Peers -> its counter, 0 for no entry

vars == <<pc, seen, arc, caller, account, inFlight, stuck, counts, entry>>

\* The blocking task: the provider call, then the drops of its guards in
\* reverse order of their declaration.
TaskPC == {"run", "complete", "peer_sub", "peer_remove", "release"}

\* Where a call owns a breaker slot, and where it owns a peer slot.
SlotPC == TaskPC \cup {"peer_entry", "peer_load", "peer_cas", "refuse"}
PeerSlotPC == {"run", "complete", "peer_sub"}

TypeOK ==
  /\ pc \in [Calls -> SlotPC \cup {"new", "cas", "done"}]
  /\ seen \in [Calls -> Nat]
  /\ arc \in [Calls -> 0 .. Len(counts)]
  /\ caller \in [Calls -> {"waiting", "answered", "timed_out", "cancelled"}]
  /\ account \in [Calls -> {"none", "running", "timed_out", "completed"}]
  /\ inFlight \in 0 .. Max
  /\ stuck \in 0 .. Max
  /\ counts \in Seq(0 .. PeerMax)
  /\ entry \in [Peers -> 0 .. Len(counts)]

Init ==
  /\ pc = [c \in Calls |-> "new"]
  /\ seen = [c \in Calls |-> 0]
  /\ arc = [c \in Calls |-> 0]
  /\ caller = [c \in Calls |-> "waiting"]
  /\ account = [c \in Calls |-> "none"]
  /\ inFlight = 0
  /\ stuck = 0
  /\ counts = <<>>
  /\ entry = [p \in Peers |-> 0]

At(c, l) == pc[c] = l

Go(c, l) == pc' = [pc EXCEPT ![c] = l]

Answer(c) == caller' = [caller EXCEPT ![c] = IF @ = "waiting" THEN "answered" ELSE @]

-----------------------------------------------------------------------------
(* try_acquire_backend_call *)

Load(c) ==
  /\ At(c, "new")
  /\ seen' = [seen EXCEPT ![c] = inFlight]
  /\ Go(c, "cas")
  /\ UNCHANGED <<arc, caller, account, inFlight, stuck, counts, entry>>

\* One round of the CAS loop.
Acquire(c) ==
  /\ At(c, "cas")
  /\ \/ /\ seen[c] >= Max
        /\ Go(c, "done") /\ Answer(c)
        /\ UNCHANGED <<seen, inFlight>>
     \/ /\ seen[c] < Max /\ seen[c] = inFlight
        /\ inFlight' = inFlight + 1
        /\ Go(c, "peer_entry")
        /\ UNCHANGED <<seen, caller>>
     \/ /\ seen[c] < Max /\ seen[c] # inFlight
        /\ seen' = [seen EXCEPT ![c] = inFlight]
        /\ UNCHANGED <<pc, caller, inFlight>>
  /\ UNCHANGED <<arc, account, stuck, counts, entry>>

-----------------------------------------------------------------------------
(* try_admit_peer *)

\* Without a peer the breaker alone admits.
NoPeerAdmit(c) ==
  /\ At(c, "peer_entry") /\ Peer[c] = NoPeer
  /\ account' = [account EXCEPT ![c] = "running"]
  /\ Go(c, "run")
  /\ UNCHANGED <<seen, arc, caller, inFlight, stuck, counts, entry>>

\* entry(peer).or_insert_with(..).clone(); the shard lock ends here.
PeerEntry(c) ==
  /\ At(c, "peer_entry") /\ Peer[c] # NoPeer
  /\ IF entry[Peer[c]] # 0
     THEN arc' = [arc EXCEPT ![c] = entry[Peer[c]]] /\ UNCHANGED <<counts, entry>>
     ELSE /\ counts' = Append(counts, 0)
          /\ entry' = [entry EXCEPT ![Peer[c]] = Len(counts')]
          /\ arc' = [arc EXCEPT ![c] = Len(counts')]
  /\ Go(c, "peer_load")
  /\ UNCHANGED <<seen, caller, account, inFlight, stuck>>

PeerLoad(c) ==
  /\ At(c, "peer_load")
  /\ seen' = [seen EXCEPT ![c] = counts[arc[c]]]
  /\ Go(c, "peer_cas")
  /\ UNCHANGED <<arc, caller, account, inFlight, stuck, counts, entry>>

\* Mutant: a store in place of the CAS.
PeerAdmitStore(c) ==
  /\ At(c, "peer_cas")
  /\ \/ /\ seen[c] >= PeerMax
        /\ Go(c, "refuse")
        /\ UNCHANGED <<counts, account>>
     \/ /\ seen[c] < PeerMax
        /\ counts' = [counts EXCEPT ![arc[c]] = seen[c] + 1]
        /\ account' = [account EXCEPT ![c] = "running"]
        /\ Go(c, "run")
  /\ UNCHANGED <<seen, arc, caller, inFlight, stuck, entry>>

\* One round of the CAS loop; admitted, the blocking task is spawned.
PeerAdmit(c) ==
  /\ At(c, "peer_cas")
  /\ \/ /\ seen[c] >= PeerMax
        /\ Go(c, "refuse")
        /\ UNCHANGED <<seen, counts, account>>
     \/ /\ seen[c] < PeerMax /\ seen[c] = counts[arc[c]]
        /\ counts' = [counts EXCEPT ![arc[c]] = @ + 1]
        /\ account' = [account EXCEPT ![c] = "running"]
        /\ Go(c, "run")
        /\ UNCHANGED seen
     \/ /\ seen[c] < PeerMax /\ seen[c] # counts[arc[c]]
        /\ seen' = [seen EXCEPT ![c] = counts[arc[c]]]
        /\ UNCHANGED <<pc, counts, account>>
  /\ UNCHANGED <<arc, caller, inFlight, stuck, entry>>

\* Mutant: a refusal by the peer cap keeps the breaker slot.
RefuseLeaky(c) ==
  /\ At(c, "refuse")
  /\ Go(c, "done") /\ Answer(c)
  /\ UNCHANGED <<seen, arc, account, inFlight, stuck, counts, entry>>

\* A refusal by the peer cap drops the breaker slot.
Refuse(c) ==
  /\ At(c, "refuse")
  /\ inFlight' = inFlight - 1
  /\ Go(c, "done") /\ Answer(c)
  /\ UNCHANGED <<seen, arc, account, stuck, counts, entry>>

-----------------------------------------------------------------------------
(* The caller: timeout and cancellation *)

\* Mutant: the gauge moves whatever the state.
TimeoutLeaky(c) ==
  /\ caller[c] = "waiting" /\ pc[c] \in TaskPC
  /\ caller' = [caller EXCEPT ![c] = "timed_out"]
  /\ account' = [account EXCEPT ![c] = IF @ = "running" THEN "timed_out" ELSE @]
  /\ stuck' = stuck + 1
  /\ UNCHANGED <<pc, seen, arc, inFlight, counts, entry>>

\* StuckCallAccounting::timeout, under its mutex.
Timeout(c) ==
  /\ caller[c] = "waiting" /\ pc[c] \in TaskPC
  /\ caller' = [caller EXCEPT ![c] = "timed_out"]
  /\ IF account[c] = "running"
     THEN account' = [account EXCEPT ![c] = "timed_out"] /\ stuck' = stuck + 1
     ELSE UNCHANGED <<account, stuck>>
  /\ UNCHANGED <<pc, seen, arc, inFlight, counts, entry>>

\* The handler's future is dropped: no timeout is published.
Cancel(c) ==
  /\ caller[c] = "waiting" /\ pc[c] \in TaskPC
  /\ caller' = [caller EXCEPT ![c] = "cancelled"]
  /\ UNCHANGED <<pc, seen, arc, account, inFlight, stuck, counts, entry>>

-----------------------------------------------------------------------------
(* The blocking task *)

ProviderReturns(c) ==
  /\ At(c, "run")
  /\ Go(c, "complete")
  /\ UNCHANGED <<seen, arc, caller, account, inFlight, stuck, counts, entry>>

\* Mutant: only a call that is not stuck completes.
CompleteFast(c) ==
  /\ At(c, "complete")
  /\ account' = [account EXCEPT ![c] = IF @ = "running" THEN "completed" ELSE @]
  /\ Go(c, IF arc[c] = 0 THEN "release" ELSE "peer_sub")
  /\ UNCHANGED <<seen, arc, caller, inFlight, stuck, counts, entry>>

\* StuckCallAccounting::complete, under its mutex.
Complete(c) ==
  /\ At(c, "complete")
  /\ account' = [account EXCEPT ![c] = "completed"]
  /\ stuck' = IF account[c] = "timed_out" THEN stuck - 1 ELSE stuck
  /\ Go(c, IF arc[c] = 0 THEN "release" ELSE "peer_sub")
  /\ UNCHANGED <<seen, arc, caller, inFlight, counts, entry>>

\* Mutant: the value after the decrement is tested.
PeerSubLate(c) ==
  /\ At(c, "peer_sub")
  /\ counts' = [counts EXCEPT ![arc[c]] = @ - 1]
  /\ Go(c, IF counts[arc[c]] - 1 = 1 THEN "peer_remove" ELSE "release")
  /\ UNCHANGED <<seen, arc, caller, account, inFlight, stuck, entry>>

\* PeerAdmissionGuard::drop: the decrement ...
PeerSub(c) ==
  /\ At(c, "peer_sub")
  /\ counts' = [counts EXCEPT ![arc[c]] = @ - 1]
  /\ Go(c, IF counts[arc[c]] = 1 THEN "peer_remove" ELSE "release")
  /\ UNCHANGED <<seen, arc, caller, account, inFlight, stuck, entry>>

\* ... and remove_if, for its own counter at zero only.
PeerRemove(c) ==
  /\ At(c, "peer_remove")
  /\ entry' = IF entry[Peer[c]] = arc[c] /\ counts[arc[c]] = 0
              THEN [entry EXCEPT ![Peer[c]] = 0] ELSE entry
  /\ Go(c, "release")
  /\ UNCHANGED <<seen, arc, caller, account, inFlight, stuck, counts>>

\* Mutant: a call that nobody waits for keeps its slot.
ReleaseSlotJoined(c) ==
  /\ At(c, "release")
  /\ inFlight' = IF caller[c] = "waiting" THEN inFlight - 1 ELSE inFlight
  /\ Go(c, "done") /\ Answer(c)
  /\ UNCHANGED <<seen, arc, account, stuck, counts, entry>>

\* InFlightGuard::drop; the task is joined.
ReleaseSlot(c) ==
  /\ At(c, "release")
  /\ inFlight' = inFlight - 1
  /\ Go(c, "done") /\ Answer(c)
  /\ UNCHANGED <<seen, arc, account, stuck, counts, entry>>

-----------------------------------------------------------------------------
Step(c) ==
  \/ Acquire(c) \/ NoPeerAdmit(c) \/ PeerEntry(c) \/ PeerLoad(c) \/ PeerAdmit(c) \/ Refuse(c)
  \/ ProviderReturns(c) \/ Complete(c) \/ PeerSub(c) \/ PeerRemove(c) \/ ReleaseSlot(c)

Next == \E c \in Calls : Load(c) \/ Step(c) \/ Timeout(c) \/ Cancel(c)

Spec == Init /\ [][Next]_vars

\* A handler that has begun runs on, and the provider returns in the end.
FairSpec == Spec /\ \A c \in Calls : WF_vars(Step(c))

-----------------------------------------------------------------------------
(* Properties *)

Slots == {c \in Calls : pc[c] \in SlotPC}

\* Every breaker slot taken is held by exactly one call and returned once, with
\* timeouts, cancellations and refusals in between, so at most Max provider
\* calls are out (InFlightGuard).
InFlightExact == inFlight = Cardinality(Slots)

\* The stuck gauge counts the timed-out calls that have not returned: it
\* neither leaks nor underflows when a return races the timeout
\* (StuckCallAccounting).
StuckExact == stuck = Cardinality({c \in Calls : account[c] = "timed_out"})

\* A peer counter counts its admitted calls, also once it has left the table.
PeerCountExact ==
  \A k \in 1 .. Len(counts) :
    counts[k] = Cardinality({c \in Calls : arc[c] = k /\ pc[c] \in PeerSlotPC})

\* A peer without calls has no entry: the table does not grow with stale peers
\* (PeerAdmissionGuard::drop).
PeerTableDrains ==
  \A p \in Peers : (\A c \in Calls : Peer[c] = p => pc[c] \in {"new", "cas", "done"})
                     => entry[p] = 0

\* Once the provider returns, a tripped breaker closes without a restart,
\* whoever has stopped waiting for the calls that tripped it (InFlightGuard).
BreakerRecovers == inFlight = Max ~> inFlight < Max

\* Once the provider returns, a call counted as stuck is taken off the gauge
\* (StuckCallAccounting::complete).
StuckRecovers == \A c \in Calls : account[c] = "timed_out" ~> account[c] = "completed"
=============================================================================
