---------------------------- MODULE SessionTable ----------------------------
(***************************************************************************)
(* The sessions of all logical clients of the daemon: how a native session *)
(* comes to be named by a virtual handle, is suspended while it is closed, *)
(* and is reaped when its client departs.  The actors are the request      *)
(* handlers, the blocking provider calls they leave behind when they time  *)
(* out or are cancelled, the teardown tasks, and a provider that recycles  *)
(* the raw handles of closed sessions.                                     *)
(*                                                                         *)
(* serial numbers identify native sessions for the properties; the code    *)
(* does not know them.  Slots and logins are the subject of SlotLogin.     *)
(***************************************************************************)
EXTENDS HandleMap, FiniteSets

CONSTANTS Contexts,            \* client context ids (UUIDs, never reused)
          MaxOpens,            \* bound on C_OpenSession calls in a behaviour
          Providers            \* kinds of provider: does it reuse the raw
                               \* handles of closed sessions, and may a close
                               \* without a clean answer have closed one?

ASSUME SessionAssumption ==
  MaxOpens \in Nat /\ Providers \subseteq [recycles : BOOLEAN, mayClose : BOOLEAN]

VARIABLES provider,  \* the kind of provider loaded; it never changes
          status,    \* Contexts -> where the context is in its life
          maps,      \* Contexts -> its session_handles map
          native,    \* Raw -> serial of the open native session, or 0
          used,      \* raw handles the provider has handed out
          opened,    \* number of C_OpenSession calls so far
          opens,     \* C_OpenSession requests in progress
          closes,    \* close transitions in progress
          reaping,   \* sessions a teardown plan still has to close
          born,      \* Contexts -> (Virtual -> serial it was created for)
          orphans    \* serials whose best-effort close failed

vars == <<provider, status, maps, native, used, opened, opens, closes, reaping, born,
          orphans>>

Serials == 1 .. MaxOpens

Status == {"fresh", "live", "removed", "departed"}

CloseRv == {"pending", "ok", "gone", "device_error", "error"}

TypeOK ==
  /\ provider \in Providers
  /\ status \in [Contexts -> Status]
  /\ maps \in [Contexts -> Map]
  /\ native \in [Raw -> 0 .. MaxOpens]
  /\ used \subseteq Raw
  /\ opened \in 0 .. MaxOpens
  /\ opens \subseteq [ctx : Contexts, serial : Serials,
                      raw : Raw \cup {NoHandle}, waiting : BOOLEAN]
  /\ closes \subseteq [ctx : Contexts, virt : Virtual, raw : Raw, rv : CloseRv]
  /\ reaping \subseteq [ctx : Contexts, raw : Raw]
  /\ born \in [Contexts -> [Virtual -> 0 .. MaxOpens]]
  /\ orphans \subseteq Serials

Init ==
  /\ provider \in Providers
  /\ status = [c \in Contexts |-> "fresh"]
  /\ maps = [c \in Contexts |-> EmptyMap]
  /\ native = [b \in Raw |-> 0]
  /\ used = {}
  /\ opened = 0
  /\ opens = {}
  /\ closes = {}
  /\ reaping = {}
  /\ born = [c \in Contexts |-> [v \in Virtual |-> 0]]
  /\ orphans = {}

-----------------------------------------------------------------------------
(* Helpers *)

Live == {c \in Contexts : status[c] = "live"}

\* Mutant: a close transition does not pin its context.
InFlightOpens(c) == \E o \in opens : o.ctx = c /\ (o.raw = NoHandle \/ o.waiting)

\* A context with an operation guard outstanding: an open whose worker still
\* runs or whose handler still waits, or a close transition not yet settled.
InFlight(c) ==
  \/ \E o \in opens : o.ctx = c /\ (o.raw = NoHandle \/ o.waiting)
  \/ \E t \in closes : t.ctx = c

\* backend_session_referenced_by_live_context
ReferencedByLive(b) == \E c \in Live : ReferencesBackend(maps[c], b)

\* The native session behind b, once a close of it has run.
Closed(b) == [native EXCEPT ![b] = 0]

\* A best-effort close whose outcome nobody looks at: it works, finds no such
\* session, or fails and leaves the native session open for good.
CloseBestEffort(b) ==
  \/ native' = Closed(b) /\ UNCHANGED orphans
  \/ /\ native[b] # 0
     /\ orphans' = orphans \cup {native[b]}
     /\ UNCHANGED native

-----------------------------------------------------------------------------
(* C_Initialize and C_OpenSession *)

CreateContext(c) ==
  /\ status[c] = "fresh"
  /\ status' = [status EXCEPT ![c] = "live"]
  /\ UNCHANGED <<maps, native, used, opened, opens, closes, reaping, born, orphans>>

\* open_session: the handler arms the completion owner and spawns the worker.
OpenSession(c) ==
  /\ c \in Live
  /\ opened < MaxOpens
  /\ opened' = opened + 1
  /\ opens' = opens \cup {[ctx |-> c, serial |-> opened + 1,
                           raw |-> NoHandle, waiting |-> TRUE]}
  /\ UNCHANGED <<status, maps, native, used, closes, reaping, born, orphans>>

\* The provider answers the worker: a session under any handle that is not in
\* use, or an error, after which neither the handler nor the owner has work.
OpenReturns(o) ==
  /\ o.raw = NoHandle
  /\ \/ \E b \in Raw :
          /\ native[b] = 0
          /\ provider.recycles \/ b \notin used
          /\ native' = [native EXCEPT ![b] = o.serial]
          /\ used' = used \cup {b}
          /\ opens' = (opens \ {o}) \cup {[o EXCEPT !.raw = b]}
     \/ opens' = opens \ {o} /\ UNCHANGED <<native, used>>
  /\ UNCHANGED <<status, maps, opened, closes, reaping, born, orphans>>

\* Mutant: no completion owner is armed.
LeaveOpenUnowned(o) ==
  /\ o.waiting
  /\ opens' = opens \ {o}
  /\ UNCHANGED <<status, maps, native, used, opened, closes, reaping, born, orphans>>

\* The handler times out or is cancelled; the owner stays armed.
LeaveOpen(o) ==
  /\ o.waiting
  /\ opens' = (opens \ {o}) \cup {[o EXCEPT !.waiting = FALSE]}
  /\ UNCHANGED <<status, maps, native, used, opened, closes, reaping, born, orphans>>

\* The handler consumes the result: it registers the session, or closes it
\* when the context is gone.
RegisterSession(o) ==
  /\ o.raw # NoHandle /\ o.waiting
  /\ opens' = opens \ {o}
  /\ IF o.ctx \in Live
     THEN /\ Inserted(maps[o.ctx], o.raw) \in Virtual
          /\ maps' = [maps EXCEPT ![o.ctx] = Insert(@, o.raw)]
          /\ born' = [born EXCEPT ![o.ctx][Inserted(maps[o.ctx], o.raw)] = o.serial]
          /\ UNCHANGED <<native, orphans>>
     ELSE CloseBestEffort(o.raw) /\ UNCHANGED <<maps, born>>
  /\ UNCHANGED <<status, used, opened, closes, reaping>>

\* Mutant: the late result is dropped instead of closed.
DiscardLateOpen(o) ==
  /\ o.raw # NoHandle /\ ~o.waiting
  /\ opens' = opens \ {o}
  /\ UNCHANGED <<status, maps, native, used, opened, closes, reaping, born, orphans>>

\* MintCompletionOwner: nobody consumed the late result, so it is closed.
SettleLateOpen(o) ==
  /\ o.raw # NoHandle /\ ~o.waiting
  /\ opens' = opens \ {o}
  /\ CloseBestEffort(o.raw)
  /\ UNCHANGED <<status, maps, used, opened, closes, reaping, born>>

-----------------------------------------------------------------------------
(* C_CloseSession and C_CloseAllSessions: one transition per session *)

\* begin_close_session_with_guard suspends the handle and hands out the token.
BeginClose(c, v) ==
  /\ c \in Live
  /\ Resolve(maps[c], v) # NoHandle
  /\ maps' = [maps EXCEPT ![c] = Suspend(@, v)]
  /\ closes' = closes \cup {[ctx |-> c, virt |-> v,
                             raw |-> Resolve(maps[c], v), rv |-> "pending"]}
  /\ UNCHANGED <<status, native, used, opened, opens, reaping, born, orphans>>

\* The provider runs C_CloseSession in the blocking closure.
CloseReturns(t) ==
  /\ t.rv = "pending"
  /\ \E rv \in CloseRv \ {"pending"} :
       /\ closes' = (closes \ {t}) \cup {[t EXCEPT !.rv = rv]}
       /\ \/ rv = "ok" /\ native[t.raw] # 0 /\ native' = Closed(t.raw)
          \/ rv = "gone" /\ native[t.raw] = 0 /\ UNCHANGED native
          \/ rv = "error" /\ UNCHANGED native
          \/ rv = "device_error" /\ UNCHANGED native
          \/ rv = "device_error" /\ provider.mayClose /\ native' = Closed(t.raw)
  /\ UNCHANGED <<status, maps, used, opened, opens, reaping, born, orphans>>

\* complete_close_session: only the expected suspended pair is touched.  A
\* transient failure whose raw handle was rebound keeps the old pair suspended,
\* and so does an ambiguous one.
Completed(m, v, b, completion) ==
  IF SuspendedBackend(m, v) # b THEN m
  ELSE CASE completion = "terminal" -> Remove(m, v)
         [] completion = "transient" -> Reactivate(m, v, b)
         [] completion = "ambiguous" -> m

\* CloseSessionTransition::settle classifies the provider's answer.
Completion(rv) ==
  CASE rv \in {"ok", "gone"} -> "terminal"
    [] rv = "device_error" -> "ambiguous"
    [] rv = "error" -> "transient"

Complete(t, completion) ==
  /\ closes' = closes \ {t}
  /\ maps' = [maps EXCEPT ![t.ctx] = IF t.ctx \in Live
                                     THEN Completed(@, t.virt, t.raw, completion)
                                     ELSE @]

SettleClose(t) ==
  /\ t.rv # "pending"
  /\ Complete(t, Completion(t.rv))
  /\ UNCHANGED <<status, native, used, opened, opens, reaping, born, orphans>>

\* The breaker refuses the call: the closure is dropped before it starts.
DropUnstartedClose(t) ==
  /\ t.rv = "pending"
  /\ Complete(t, "transient")
  /\ UNCHANGED <<status, native, used, opened, opens, reaping, born, orphans>>

\* The closure unwinds after mark_started and before settle.
DropStartedClose(t) ==
  /\ t.rv = "pending"
  /\ Complete(t, "ambiguous")
  /\ \/ UNCHANGED native
     \/ provider.mayClose /\ native' = Closed(t.raw)
  /\ UNCHANGED <<status, used, opened, opens, reaping, born, orphans>>

-----------------------------------------------------------------------------
(* C_Finalize, lease eviction, replacement: removal, plan, execution *)

\* remove_if under the shard lock: never with an operation in flight.
RemoveContext(c) ==
  /\ c \in Live
  /\ ~InFlight(c)
  /\ status' = [status EXCEPT ![c] = "removed"]
  /\ UNCHANGED <<maps, native, used, opened, opens, closes, reaping, born, orphans>>

\* plan_removed_context_teardown
PlanTeardown(c) ==
  /\ status[c] = "removed"
  /\ status' = [status EXCEPT ![c] = "departed"]
  /\ reaping' = reaping \cup
       {[ctx |-> c, raw |-> b] :
          b \in {h \in BackendHandles(maps[c]) : ~ReferencedByLive(h)}}
  /\ maps' = [maps EXCEPT ![c] = EmptyMap]
  /\ UNCHANGED <<native, used, opened, opens, closes, born, orphans>>

\* close_backend_sessions, one bounded call per handle, outcome ignored.
ReapSession(r) ==
  /\ reaping' = reaping \ {r}
  /\ CloseBestEffort(r.raw)
  /\ UNCHANGED <<status, maps, used, opened, opens, closes, born>>

-----------------------------------------------------------------------------
Next ==
  /\ UNCHANGED provider
  /\ \/ \E c \in Contexts : \/ CreateContext(c)
                            \/ OpenSession(c)
                            \/ RemoveContext(c)
                            \/ PlanTeardown(c)
                            \/ \E v \in Virtual : BeginClose(c, v)
     \/ \E o \in opens : \/ OpenReturns(o)
                         \/ LeaveOpen(o)
                         \/ RegisterSession(o)
                         \/ SettleLateOpen(o)
     \/ \E t \in closes : \/ CloseReturns(t)
                          \/ SettleClose(t)
                          \/ DropUnstartedClose(t)
                          \/ DropStartedClose(t)
     \/ \E r \in reaping : ReapSession(r)

Spec == Init /\ [][Next]_vars

(***************************************************************************)
(* The runtime polls every spawned task: a late open result is settled, a  *)
(* removed context is planned, and the planned closes are issued.  Nothing *)
(* is assumed of clients, or of a provider call that has not returned.     *)
(***************************************************************************)
FairSpec ==
  /\ Spec
  /\ WF_vars(UNCHANGED provider /\ \E o \in opens : SettleLateOpen(o))
  /\ WF_vars(UNCHANGED provider /\ \E c \in Contexts : PlanTeardown(c))
  /\ WF_vars(UNCHANGED provider /\ \E r \in reaping : ReapSession(r))

-----------------------------------------------------------------------------
(* Properties *)

\* Every client's forward and reverse table stay inverse, with suspended ids
\* kept apart, although a raw handle is recycled while an older virtual handle
\* still holds it for its close (HandleMap::remove, suspend,
\* reactivate_suspended).
MapsWellFormed == \A c \in Contexts : WellFormed(maps[c])

\* What a client resolves is the very native session it opened: still open,
\* and not a later session under a recycled raw handle (register_session,
\* complete_close_session, plan_removed_context_teardown).
HandleNamesItsSession ==
  \A c \in Live, v \in Virtual :
    Resolve(maps[c], v) # NoHandle =>
      /\ native[Resolve(maps[c], v)] # 0
      /\ native[Resolve(maps[c], v)] = born[c][v]

\* No native session is forgotten: each open one is named by a live client, is
\* in the hands of an open or a teardown in progress, or had its cleanup close
\* fail (MintCompletionOwner, close transitions, teardown plans).  With a
\* provider that recycles handles a teardown plan may leave a session out.
NoSessionForgotten ==
  \A b \in Raw : native[b] # 0 /\ ~provider.recycles =>
    \/ native[b] \in orphans
    \/ \E o \in opens : o.raw = b /\ o.serial = native[b]
    \/ \E r \in reaping : r.raw = b
    \/ \E c \in Contexts, v \in Virtual :
         /\ b \in {Resolve(maps[c], v), SuspendedBackend(maps[c], v)}
         /\ born[c][v] = native[b]

\* "Absent mappings stay absent, so proven-gone is stable": the verdict
\* close_session and close_all_sessions answer SESSION_HANDLE_INVALID from is
\* never undone by a completion that arrives later.
GoneIsStable ==
  [][\A c \in Live, v \in Virtual :
       born[c][v] # 0 /\ ProvenGone(maps[c], v) => ProvenGone(maps'[c], v)]_vars

\* A teardown closes a raw handle only while no live context references it
\* (references_backend, the teardown refcount check).
TeardownSparesLive ==
  [][\A r \in reaping : r \notin reaping' =>
       \A c \in Live : r.raw \notin BackendHandles(maps[c])]_vars

\* The sessions of a departed context get closed, unless the close itself
\* fails (execute_teardown_plans); handles are not recycled, as above.
DepartedSessionsReaped ==
  \A c \in Contexts, v \in Virtual :
    (~provider.recycles /\ status[c] = "removed" /\ ~ProvenGone(maps[c], v)) ~>
      (born[c][v] \in orphans \/ \A b \in Raw : native[b] # born[c][v])

\* A session that opens after its handler left is closed, unless the close
\* itself fails (MintCompletionOwner::drop and settle_on_error).
LateOpenSettled ==
  \A s \in Serials :
    (\E o \in opens : o.serial = s /\ o.raw # NoHandle /\ ~o.waiting) ~>
      (s \in orphans \/ \A b \in Raw : native[b] # s)
=============================================================================
