------------------------------ MODULE HandleMap ------------------------------
(***************************************************************************)
(* The bidirectional map between the virtual handles a client sees and the *)
(* raw handles of the PKCS#11 provider (server/handle_map.rs).  One such   *)
(* map belongs to every logical client.  A map is a value; its methods are *)
(* operators from a map to a map or from a map to a handle.                *)
(*                                                                         *)
(* A partial HashMap is a total function into handles where NoHandle means *)
(* "no entry": NoHandle is CK_INVALID_HANDLE, which neither a provider nor *)
(* next_id ever hands out.                                                 *)
(***************************************************************************)
EXTENDS Naturals

CONSTANTS Raw,      \* raw handles a provider may hand out, and recycle
          MaxId     \* bound on the virtual ids one map allocates

NoHandle == 0

ASSUME HandleAssumption == NoHandle \notin Raw /\ MaxId \in Nat

Virtual == 1 .. MaxId

Map == [next : 1 .. MaxId + 1,
        v2b  : [Virtual -> Raw \cup {NoHandle}],
        b2v  : [Raw -> Virtual \cup {NoHandle}],
        susp : [Virtual -> Raw \cup {NoHandle}]]

EmptyMap ==
  [next |-> 1,
   v2b  |-> [v \in Virtual |-> NoHandle],
   b2v  |-> [b \in Raw |-> NoHandle],
   susp |-> [v \in Virtual |-> NoHandle]]

(***************************************************************************)
(* The forward and the reverse table are inverse on the resolvable         *)
(* entries, no virtual handle is both resolvable and suspended, and ids    *)
(* not yet allocated name nothing.                                         *)
(***************************************************************************)
Inverse(m) ==
  /\ \A v \in Virtual : m.v2b[v] # NoHandle => m.b2v[m.v2b[v]] = v
  /\ \A b \in Raw : m.b2v[b] # NoHandle => m.v2b[m.b2v[b]] = b

Exclusive(m) == \A v \in Virtual : m.v2b[v] = NoHandle \/ m.susp[v] = NoHandle

Fresh(m) == \A v \in Virtual :
              v >= m.next => m.v2b[v] = NoHandle /\ m.susp[v] = NoHandle

WellFormed(m) == Inverse(m) /\ Exclusive(m) /\ Fresh(m)

-----------------------------------------------------------------------------
(* Lookups *)

\* resolve: what later requests see of a virtual handle.
Resolve(m, v) == m.v2b[v]

\* suspended_backend: the raw handle kept for a close in progress.
SuspendedBackend(m, v) == m.susp[v]

ProvenGone(m, v) == Resolve(m, v) = NoHandle /\ SuspendedBackend(m, v) = NoHandle

\* Mutant: suspended entries are left out.
ActiveHandles(m) == {b \in Raw : \E v \in Virtual : m.v2b[v] = b}

\* backend_handles: everything a teardown has to close, once each.
BackendHandles(m) ==
  {b \in Raw : \E v \in Virtual : m.v2b[v] = b \/ m.susp[v] = b}

\* Mutant: only active entries count as references.
ReferencesActive(m, b) == m.b2v[b] # NoHandle

\* references_backend: the refcount check of a teardown.
ReferencesBackend(m, b) ==
  m.b2v[b] # NoHandle \/ \E v \in Virtual : m.susp[v] = b

-----------------------------------------------------------------------------
(* Updates *)

\* Mutant: the reverse entry is written after next_id moved on.
InsertLate(m, b) ==
  IF m.b2v[b] # NoHandle
  THEN m
  ELSE [m EXCEPT !.next = @ + 1, !.v2b[m.next] = b, !.b2v[b] = m.next + 1]

\* insert is idempotent per raw handle; otherwise it allocates next_id.
Insert(m, b) ==
  IF m.b2v[b] # NoHandle
  THEN m
  ELSE [m EXCEPT !.next = @ + 1, !.v2b[m.next] = b, !.b2v[b] = m.next]

Inserted(m, b) == IF m.b2v[b] # NoHandle THEN m.b2v[b] ELSE m.next

\* Mutant: the reverse entry is dropped whoever it points at.
DetachAlways(m, v, b) == [m EXCEPT !.b2v[b] = NoHandle]

\* The reverse entry goes only if it still points at v: a recycled raw handle
\* may already be bound to a newer virtual one.
Detach(m, v, b) == IF m.b2v[b] = v THEN [m EXCEPT !.b2v[b] = NoHandle] ELSE m

\* Mutant: a removed id is given back.
RemoveRecyclingId(m, v) ==
  IF m.v2b[v] # NoHandle
  THEN [Detach(m, v, m.v2b[v]) EXCEPT !.v2b[v] = NoHandle, !.next = v]
  ELSE IF m.susp[v] # NoHandle
       THEN [Detach(m, v, m.susp[v]) EXCEPT !.susp[v] = NoHandle, !.next = v]
       ELSE m

\* remove takes the active entry, or else the suspended one.
Remove(m, v) ==
  IF m.v2b[v] # NoHandle
  THEN [Detach(m, v, m.v2b[v]) EXCEPT !.v2b[v] = NoHandle]
  ELSE IF m.susp[v] # NoHandle
       THEN [Detach(m, v, m.susp[v]) EXCEPT !.susp[v] = NoHandle]
       ELSE m

\* suspend is called on a resolvable handle; the caller reports any other as
\* SessionMissing.
Suspend(m, v) ==
  [Detach(m, v, m.v2b[v]) EXCEPT !.v2b[v] = NoHandle, !.susp[v] = m.v2b[v]]

CanReactivate(m, v, b) ==
  /\ m.susp[v] = b
  /\ m.b2v[b] \in {NoHandle, v}

\* reactivate_suspended leaves the map alone when it answers false.
Reactivate(m, v, b) ==
  IF CanReactivate(m, v, b)
  THEN [m EXCEPT !.susp[v] = NoHandle, !.v2b[v] = b, !.b2v[b] = v]
  ELSE m
=============================================================================
