------------------------- MODULE SessionTableProofs -------------------------
(***************************************************************************)
(* Theorems about HandleMap and SessionTable, for every set of clients,    *)
(* every set of raw handles and every bound.  The lemmas say what each     *)
(* method of the handle map does to a well-formed map; the theorems carry  *)
(* that through every step of the daemon and the provider.                 *)
(***************************************************************************)
EXTENDS SessionTable, TLAPS

-----------------------------------------------------------------------------
(* The handle map's methods *)

\* A new map is well formed.
LEMMA EmptyMapOK == EmptyMap \in Map /\ WellFormed(EmptyMap)
  BY HandleAssumption
     DEF EmptyMap, Map, WellFormed, Inverse, Exclusive, Fresh, Virtual, NoHandle

\* HandleMap::insert keeps a map well formed while ids last.
LEMMA InsertOK ==
  ASSUME NEW m \in Map, NEW b \in Raw,
         WellFormed(m), Inserted(m, b) \in Virtual
  PROVE  Insert(m, b) \in Map /\ WellFormed(Insert(m, b))
  <1>1. CASE m.b2v[b] # NoHandle
    BY <1>1 DEF Insert
  <1>2. CASE m.b2v[b] = NoHandle
    <2>1. m.next \in Virtual /\ m.next + 1 \in 1 .. MaxId + 1
      BY <1>2, HandleAssumption DEF Inserted, Virtual, Map
    <2>2. Insert(m, b) \in Map
      BY <1>2, <2>1 DEF Insert, Map
    <2>3. WellFormed(Insert(m, b))
      BY <1>2, <2>1, HandleAssumption
         DEF Insert, Map, WellFormed, Inverse, Exclusive, Fresh, Virtual, NoHandle
    <2>4. QED BY <2>2, <2>3
  <1>3. QED BY <1>1, <1>2

\* HandleMap::remove keeps a map well formed, also when the raw handle of a
\* suspended entry has been rebound.
LEMMA RemoveOK ==
  ASSUME NEW m \in Map, NEW v \in Virtual, WellFormed(m)
  PROVE  Remove(m, v) \in Map /\ WellFormed(Remove(m, v))
  BY HandleAssumption
     DEF Remove, Detach, Map, WellFormed, Inverse, Exclusive, Fresh, Virtual, NoHandle

\* HandleMap::suspend keeps a map well formed.
LEMMA SuspendOK ==
  ASSUME NEW m \in Map, NEW v \in Virtual, WellFormed(m),
         Resolve(m, v) # NoHandle
  PROVE  Suspend(m, v) \in Map /\ WellFormed(Suspend(m, v))
  BY HandleAssumption
     DEF Suspend, Resolve, Detach, Map, WellFormed, Inverse, Exclusive, Fresh,
         Virtual, NoHandle

\* HandleMap::reactivate_suspended keeps a map well formed: it never takes a
\* raw handle away from a newer virtual handle.
LEMMA ReactivateOK ==
  ASSUME NEW m \in Map, NEW v \in Virtual, NEW b \in Raw, WellFormed(m)
  PROVE  Reactivate(m, v, b) \in Map /\ WellFormed(Reactivate(m, v, b))
  <1>1. CASE ~CanReactivate(m, v, b)
    BY <1>1 DEF Reactivate
  <1>2. CASE CanReactivate(m, v, b)
    <2> DEFINE n == Reactivate(m, v, b)
    <2>1. /\ m.susp[v] = b /\ b # NoHandle
          /\ m.b2v[b] \in {NoHandle, v}
          /\ m.v2b[v] = NoHandle
          /\ v < m.next
      BY <1>2, HandleAssumption
         DEF CanReactivate, Map, WellFormed, Exclusive, Fresh, Virtual
    <2>2. n = [next |-> m.next,
               v2b  |-> [m.v2b EXCEPT ![v] = b],
               b2v  |-> [m.b2v EXCEPT ![b] = v],
               susp |-> [m.susp EXCEPT ![v] = NoHandle]]
      BY <1>2 DEF Reactivate, Map
    <2>3. n \in Map
      <3>1. [m.v2b EXCEPT ![v] = b] \in [Virtual -> Raw \cup {NoHandle}]
        BY DEF Map
      <3>2. [m.b2v EXCEPT ![b] = v] \in [Raw -> Virtual \cup {NoHandle}]
        BY DEF Map
      <3>3. [m.susp EXCEPT ![v] = NoHandle] \in [Virtual -> Raw \cup {NoHandle}]
        BY DEF Map
      <3>4. QED BY <2>2, <3>1, <3>2, <3>3 DEF Map
    <2>4. /\ n.next = m.next
          /\ n.susp = [m.susp EXCEPT ![v] = NoHandle]
          /\ n.v2b = [m.v2b EXCEPT ![v] = b]
          /\ n.b2v = [m.b2v EXCEPT ![b] = v]
      BY <2>2
    <2> HIDE DEF n
    <2>5. m.b2v[b] = NoHandle
      BY <2>1, HandleAssumption DEF WellFormed, Inverse, Map, Virtual, NoHandle
    <2>6. Inverse(n)
      BY <2>1, <2>4, <2>5, HandleAssumption
         DEF WellFormed, Inverse, Map, Virtual, NoHandle
    <2>7. Exclusive(n) /\ Fresh(n)
      BY <2>1, <2>4, HandleAssumption
         DEF WellFormed, Exclusive, Fresh, Map, Virtual, NoHandle
    <2>8. QED BY <2>3, <2>6, <2>7 DEF WellFormed, n
  <1>3. QED BY <1>1, <1>2

\* complete_close_session, whichever way the close ended.
LEMMA CompletedOK ==
  ASSUME NEW m \in Map, NEW v \in Virtual, NEW b \in Raw, WellFormed(m),
         NEW completion \in {"terminal", "transient", "ambiguous"}
  PROVE  /\ Completed(m, v, b, completion) \in Map
         /\ WellFormed(Completed(m, v, b, completion))
  BY RemoveOK, ReactivateOK DEF Completed

-----------------------------------------------------------------------------
(* The daemon *)

IInv == TypeOK /\ MapsWellFormed

\* Type correctness and the handle maps' well-formedness are inductive
\* together: a map is only ever replaced by what one of its methods returns.
LEMMA InitIInv == Init => IInv
  BY EmptyMapOK, SessionAssumption, HandleAssumption
     DEF Init, IInv, TypeOK, MapsWellFormed, Status, NoHandle

\* A best-effort close leaves the provider's table and the orphans typed.
LEMMA CloseBestEffortOK ==
  ASSUME TypeOK, NEW b \in Raw, CloseBestEffort(b)
  PROVE  native' \in [Raw -> 0 .. MaxOpens] /\ orphans' \subseteq Serials
  <1>1. CASE native' = Closed(b) /\ UNCHANGED orphans
    BY <1>1, SessionAssumption DEF TypeOK, Closed
  <1>2. CASE native[b] # 0 /\ orphans' = orphans \cup {native[b]} /\ UNCHANGED native
    <2>1. native[b] \in Serials
      BY <1>2, SessionAssumption DEF TypeOK, Serials
    <2>2. QED BY <1>2, <2>1 DEF TypeOK
  <1>3. QED BY <1>1, <1>2 DEF CloseBestEffort

\* Every step of a handler, of the provider or of a teardown keeps both.
LEMMA StepIInv == IInv /\ [Next]_vars => IInv'
  <1> SUFFICES ASSUME IInv, [Next]_vars PROVE IInv'
    OBVIOUS
  <1> USE DEF IInv
  <1>0. UNCHANGED provider
    BY DEF Next, vars
  <1> USE <1>0
  <1>1. ASSUME NEW c \in Contexts, CreateContext(c) PROVE IInv'
    BY <1>1 DEF CreateContext, TypeOK, MapsWellFormed, Status
  <1>2. ASSUME NEW c \in Contexts, OpenSession(c) PROVE IInv'
    <2>1. opened' \in 0 .. MaxOpens /\ opened + 1 \in Serials
      BY <1>2, SessionAssumption DEF OpenSession, TypeOK, Serials
    <2>2. opens' \subseteq [ctx : Contexts, serial : Serials,
                           raw : Raw \cup {NoHandle}, waiting : BOOLEAN]
      <3> DEFINE o == [ctx |-> c, serial |-> opened + 1,
                       raw |-> NoHandle, waiting |-> TRUE]
      <3>1. o \in [ctx : Contexts, serial : Serials,
                   raw : Raw \cup {NoHandle}, waiting : BOOLEAN]
        BY <2>1
      <3>2. opens' = opens \cup {o}
        BY <1>2 DEF OpenSession
      <3> HIDE DEF o
      <3>3. QED BY <3>1, <3>2 DEF TypeOK
    <2>3. QED BY <1>2, <2>1, <2>2 DEF OpenSession, TypeOK, MapsWellFormed
  <1>3. ASSUME NEW c \in Contexts, RemoveContext(c) PROVE IInv'
    BY <1>3 DEF RemoveContext, TypeOK, MapsWellFormed, Status
  <1>4. ASSUME NEW c \in Contexts, PlanTeardown(c) PROVE IInv'
    <2>1. reaping' \subseteq [ctx : Contexts, raw : Raw]
      BY <1>4 DEF PlanTeardown, TypeOK, BackendHandles
    <2>2. maps' \in [Contexts -> Map] /\ MapsWellFormed'
      BY <1>4, EmptyMapOK DEF PlanTeardown, TypeOK, MapsWellFormed
    <2>3. status' \in [Contexts -> Status]
      BY <1>4 DEF PlanTeardown, TypeOK, Status
    <2>4. QED BY <1>4, <2>1, <2>2, <2>3 DEF PlanTeardown, TypeOK
  <1>5. ASSUME NEW c \in Contexts, NEW v \in Virtual, BeginClose(c, v) PROVE IInv'
    <2>1. /\ maps[c] \in Map /\ WellFormed(maps[c])
          /\ Resolve(maps[c], v) \in Raw
      BY <1>5 DEF BeginClose, TypeOK, MapsWellFormed, Resolve, Map
    <2>2. Suspend(maps[c], v) \in Map /\ WellFormed(Suspend(maps[c], v))
      BY <1>5, <2>1, SuspendOK DEF BeginClose
    <2>3. QED
      BY <1>5, <2>1, <2>2 DEF BeginClose, TypeOK, MapsWellFormed, CloseRv
  <1>6. ASSUME NEW o \in opens, OpenReturns(o) PROVE IInv'
    <2>1. o.serial \in 0 .. MaxOpens
      BY SessionAssumption DEF TypeOK, Serials
    <2>2. /\ native' \in [Raw -> 0 .. MaxOpens]
          /\ used' \subseteq Raw
      BY <1>6, <2>1 DEF OpenReturns, TypeOK
    <2>3. opens' \subseteq [ctx : Contexts, serial : Serials,
                           raw : Raw \cup {NoHandle}, waiting : BOOLEAN]
      BY <1>6 DEF OpenReturns, TypeOK
    <2>4. QED BY <1>6, <2>2, <2>3 DEF OpenReturns, TypeOK, MapsWellFormed
  <1>7. ASSUME NEW o \in opens, LeaveOpen(o) PROVE IInv'
    BY <1>7 DEF LeaveOpen, TypeOK, MapsWellFormed
  <1>8. ASSUME NEW o \in opens, RegisterSession(o) PROVE IInv'
    <2>1. o.ctx \in Contexts /\ o.raw \in Raw /\ o.serial \in Serials
      BY <1>8 DEF RegisterSession, TypeOK
    <2>2. CASE o.ctx \in Live
      <3>1. /\ Insert(maps[o.ctx], o.raw) \in Map
            /\ WellFormed(Insert(maps[o.ctx], o.raw))
        BY <1>8, <2>1, <2>2, InsertOK DEF RegisterSession, TypeOK, MapsWellFormed
      <3>2. maps' \in [Contexts -> Map] /\ MapsWellFormed'
        BY <1>8, <2>1, <2>2, <3>1 DEF RegisterSession, TypeOK, MapsWellFormed
      <3>3. born' \in [Contexts -> [Virtual -> 0 .. MaxOpens]]
        <4>1. o.serial \in 0 .. MaxOpens
          BY <2>1, SessionAssumption DEF Serials
        <4>2. born[o.ctx] \in [Virtual -> 0 .. MaxOpens]
          BY <2>1 DEF TypeOK
        <4>3. [born[o.ctx] EXCEPT ![Inserted(maps[o.ctx], o.raw)] = o.serial]
                \in [Virtual -> 0 .. MaxOpens]
          BY <4>1, <4>2
        <4>4. QED BY <1>8, <2>1, <2>2, <4>3 DEF RegisterSession, TypeOK
      <3>4. QED
        BY <1>8, <2>2, <3>2, <3>3 DEF RegisterSession, TypeOK
    <2>3. CASE o.ctx \notin Live
      BY <1>8, <2>1, <2>3, CloseBestEffortOK DEF RegisterSession, TypeOK, MapsWellFormed
    <2>4. QED BY <2>2, <2>3
  <1>9. ASSUME NEW o \in opens, SettleLateOpen(o) PROVE IInv'
    <2>1. o.raw \in Raw
      BY <1>9 DEF SettleLateOpen, TypeOK
    <2>2. QED
      BY <1>9, <2>1, CloseBestEffortOK DEF SettleLateOpen, TypeOK, MapsWellFormed
  <1>10. ASSUME NEW t \in closes, CloseReturns(t) PROVE IInv'
    <2>1. t.raw \in Raw
      BY DEF TypeOK
    <2>2. native' \in [Raw -> 0 .. MaxOpens]
      BY <1>10, <2>1, SessionAssumption
         DEF CloseReturns, Closed, CloseRv, TypeOK
    <2>3. QED
      BY <1>10, <2>2 DEF CloseReturns, CloseRv, TypeOK, MapsWellFormed
  <1>11. ASSUME NEW t \in closes,
                NEW completion \in {"terminal", "transient", "ambiguous"},
                Complete(t, completion)
         PROVE  maps' \in [Contexts -> Map] /\ MapsWellFormed' /\ closes' \subseteq closes
    <2>1. t.ctx \in Contexts /\ t.virt \in Virtual /\ t.raw \in Raw
      BY DEF TypeOK
    <2>2. /\ Completed(maps[t.ctx], t.virt, t.raw, completion) \in Map
          /\ WellFormed(Completed(maps[t.ctx], t.virt, t.raw, completion))
      BY <2>1, CompletedOK DEF TypeOK, MapsWellFormed
    <2>3. QED
      BY <1>11, <2>1, <2>2 DEF Complete, TypeOK, MapsWellFormed
  <1>12. ASSUME NEW t \in closes, SettleClose(t) PROVE IInv'
    <2>1. Completion(t.rv) \in {"terminal", "transient", "ambiguous"}
      BY <1>12 DEF SettleClose, Completion, CloseRv, TypeOK
    <2>2. QED
      BY <1>11, <1>12, <2>1 DEF SettleClose, TypeOK
  <1>13. ASSUME NEW t \in closes, DropUnstartedClose(t) PROVE IInv'
    BY <1>11, <1>13 DEF DropUnstartedClose, TypeOK
  <1>14. ASSUME NEW t \in closes, DropStartedClose(t) PROVE IInv'
    <2>1. t.raw \in Raw
      BY DEF TypeOK
    <2>2. native' \in [Raw -> 0 .. MaxOpens]
      BY <1>14, <2>1, SessionAssumption DEF DropStartedClose, Closed, TypeOK
    <2>3. QED
      BY <1>11, <1>14, <2>2 DEF DropStartedClose, TypeOK
  <1>15. ASSUME NEW r \in reaping, ReapSession(r) PROVE IInv'
    <2>1. r.raw \in Raw
      BY DEF TypeOK
    <2>2. QED
      BY <1>15, <2>1, CloseBestEffortOK DEF ReapSession, TypeOK, MapsWellFormed
  <1>16. CASE UNCHANGED vars
    BY <1>16 DEF vars, TypeOK, MapsWellFormed
  <1>17. QED
    BY <1>1, <1>2, <1>3, <1>4, <1>5, <1>6, <1>7, <1>8, <1>9, <1>10, <1>12, <1>13,
       <1>14, <1>15, <1>16 DEF Next

\* The state of the session table stays within its types, whatever the clients,
\* the handlers and the provider do.
THEOREM TypeCorrect == Spec => []TypeOK
  <1>1. IInv => TypeOK
    BY DEF IInv
  <1>2. QED BY InitIInv, StepIInv, <1>1, PTL DEF Spec

\* Every client's handle map stays well formed: no recycled raw handle, no late
\* or stale completion ever breaks the inverse tables.
THEOREM MapsStayWellFormed == Spec => []MapsWellFormed
  <1>1. IInv => MapsWellFormed
    BY DEF IInv
  <1>2. QED BY InitIInv, StepIInv, <1>1, PTL DEF Spec

-----------------------------------------------------------------------------
(* Who owns a native session *)

\* The clean providers: one that recycles handles answers truthfully whether a
\* close has closed.  With both faults no daemon can tell its own session from
\* a later one under the same handle.
Exact == ~(provider.recycles /\ provider.mayClose)

\* Client c keeps raw handle b under v, to use or to close.
Held(c, v, b) == maps[c].v2b[v] = b \/ maps[c].susp[v] = b

\* The provider has answered the close of v; only its settlement is left.
Over(c, v) == \E t \in closes : t.ctx = c /\ t.virt = v /\ t.rv \in {"ok", "gone"}

\* c has a claim to b: what it keeps there is not the leftover of an answered
\* close, whose handle may be in use again.
Claim(c, v, b) == Held(c, v, b) /\ ~(provider.recycles /\ Over(c, v))

\* Only live and removed contexts have sessions, and a live one has allocated
\* the ids it has used.
StatusOK ==
  /\ \A c \in Contexts : status[c] \in {"fresh", "departed"} => maps[c] = EmptyMap
  /\ \A c \in Contexts, v \in Virtual :
       /\ status[c] = "fresh" => born[c][v] = 0
       /\ c \in Live /\ born[c][v] # 0 => v < maps[c].next

\* A close transition pins its context and its suspended pair, alone.
TokenOK ==
  /\ \A t \in closes : t.ctx \in Live /\ maps[t.ctx].susp[t.virt] = t.raw
  /\ \A t, u \in closes : t.ctx = u.ctx /\ t.virt = u.virt => t = u

\* What is kept is the session it was kept for.  A suspended one may be closed,
\* when the provider does not recycle, and is open until its close is answered.
SessionOK ==
  /\ \A c \in Contexts, v \in Virtual : maps[c].v2b[v] # NoHandle =>
       native[maps[c].v2b[v]] # 0 /\ native[maps[c].v2b[v]] = born[c][v]
  /\ \A c \in Contexts, v \in Virtual : maps[c].susp[v] # NoHandle /\ ~Over(c, v) =>
       \/ native[maps[c].susp[v]] # 0 /\ native[maps[c].susp[v]] = born[c][v]
       \/ native[maps[c].susp[v]] = 0 /\ ~provider.recycles
  /\ \A t \in closes :
       /\ t.rv \in {"pending", "error"} =>
            native[t.raw] # 0 /\ native[t.raw] = born[t.ctx][t.virt]
       /\ t.rv \in {"ok", "gone"} /\ ~provider.recycles => native[t.raw] = 0
  /\ \A o \in opens : o.raw # NoHandle => native[o.raw] = o.serial
  /\ \A r \in reaping : native[r.raw] # 0 \/ ~provider.recycles

\* Whatever is kept or open was handed out once.
UsedOK ==
  /\ \A b \in Raw : native[b] # 0 => b \in used
  /\ \A b \in Raw, c \in Contexts, v \in Virtual : Held(c, v, b) => b \in used
  /\ \A o \in opens : o.raw # NoHandle => o.raw \in used
  /\ \A r \in reaping : r.raw \in used

\* A raw handle has one claimant: a client's handle, an open or a teardown.
UniqueOK ==
  /\ \A b \in Raw, c, d \in Contexts, v, w \in Virtual :
       Claim(c, v, b) /\ Claim(d, w, b) => c = d /\ v = w
  /\ \A o \in opens, c \in Contexts, v \in Virtual : o.raw # NoHandle => ~Claim(c, v, o.raw)
  /\ \A r \in reaping, c \in Contexts, v \in Virtual : ~Claim(c, v, r.raw)
  /\ \A o, p \in opens : o.raw # NoHandle /\ o.raw = p.raw => o = p
  /\ \A r \in reaping, o \in opens : r.raw # o.raw
  /\ \A r, s \in reaping : r.raw = s.raw => r = s

\* No live client keeps, not even for its settlement, what a teardown closes.
SparedOK ==
  \A r \in reaping, c \in Live, v \in Virtual : ~Held(c, v, r.raw)

\* Every open session has an owner, or its cleanup close failed.
KeptOK ==
  \A b \in Raw : native[b] # 0 /\ ~provider.recycles =>
    \/ native[b] \in orphans
    \/ \E o \in opens : o.raw = b /\ o.serial = native[b]
    \/ \E r \in reaping : r.raw = b
    \/ \E c \in Contexts, v \in Virtual : Held(c, v, b) /\ born[c][v] = native[b]

Owned == TokenOK /\ SessionOK /\ UsedOK /\ UniqueOK /\ SparedOK /\ KeptOK

OwnInv == IInv /\ Exact /\ StatusOK /\ Owned
-----------------------------------------------------------------------------
(* What the steps have in common *)

\* The fields of the tables' entries.
LEMMA Fields ==
  ASSUME TypeOK
  PROVE  /\ NoHandle \notin Raw
         /\ \A o \in opens : /\ o.ctx \in Contexts /\ o.serial \in 0 .. MaxOpens /\ o.serial # 0
                             /\ o.raw \in Raw \cup {NoHandle} /\ o.waiting \in BOOLEAN
         /\ \A t \in closes : /\ t.ctx \in Contexts /\ t.virt \in Virtual /\ t.raw \in Raw
                              /\ t.rv \in CloseRv
         /\ \A r \in reaping : r.raw \in Raw
         /\ \A c \in Contexts : maps[c] \in Map
         /\ \A c \in Contexts, v \in Virtual :
              maps[c].v2b[v] \in Raw \cup {NoHandle} /\ maps[c].susp[v] \in Raw \cup {NoHandle}
  <1>1. NoHandle \notin Raw
    BY HandleAssumption
  <1>2. \A o \in opens : /\ o.ctx \in Contexts /\ o.serial \in 0 .. MaxOpens /\ o.serial # 0
                         /\ o.raw \in Raw \cup {NoHandle} /\ o.waiting \in BOOLEAN
    BY SessionAssumption DEF TypeOK, Serials
  <1>3. \A t \in closes : /\ t.ctx \in Contexts /\ t.virt \in Virtual /\ t.raw \in Raw
                          /\ t.rv \in CloseRv
    BY DEF TypeOK
  <1>4. \A r \in reaping : r.raw \in Raw
    BY DEF TypeOK
  <1>5. \A c \in Contexts : maps[c] \in Map
    BY DEF TypeOK
  <1>6. \A c \in Contexts, v \in Virtual :
          maps[c].v2b[v] \in Raw \cup {NoHandle} /\ maps[c].susp[v] \in Raw \cup {NoHandle}
    BY <1>5 DEF Map
  <1>7. QED BY <1>1, <1>2, <1>3, <1>4, <1>5, <1>6

\* A context that uses a handle has no close of it in progress.
LEMMA ActiveNotOver ==
  ASSUME IInv, TokenOK, NEW c \in Contexts, NEW v \in Virtual, maps[c].v2b[v] # NoHandle
  PROVE  maps[c].susp[v] = NoHandle /\ ~Over(c, v) /\ \A t \in closes : ~(t.ctx = c /\ t.virt = v)
  <1>1. maps[c].susp[v] = NoHandle
    BY DEF IInv, MapsWellFormed, WellFormed, Exclusive
  <1>2. \A t \in closes : ~(t.ctx = c /\ t.virt = v)
    BY <1>1, Fields DEF TokenOK, IInv
  <1>3. QED BY <1>1, <1>2 DEF Over

\* An empty map keeps nothing.
LEMMA EmptyHolds ==
  ASSUME NEW c, maps[c] = EmptyMap
  PROVE  /\ \A v \in Virtual : maps[c].v2b[v] = NoHandle /\ maps[c].susp[v] = NoHandle
         /\ \A v \in Virtual, b \in Raw : ~Held(c, v, b)
  BY HandleAssumption DEF EmptyMap, Held

\* Steps that change neither a map nor a close change no claim.
LEMMA SameClaims ==
  ASSUME UNCHANGED <<provider, maps, closes>>
  PROVE  \A c, v : /\ Over(c, v)' <=> Over(c, v)
                   /\ \A b : (Held(c, v, b)' <=> Held(c, v, b)) /\ (Claim(c, v, b)' <=> Claim(c, v, b))
  BY DEF Over, Held, Claim

\* Claims without the native table: used handles, and one owner each, when
\* opens and teardowns only lose handles.
LEMMA FewerOwners ==
  ASSUME OwnInv, UNCHANGED <<provider, maps, closes, status>>, used \subseteq used',
         \A o \in opens' : o.raw # NoHandle => \E p \in opens : p.raw = o.raw /\ p.serial = o.serial,
         \A o, p \in opens' : o.raw # NoHandle /\ o.raw = p.raw => o = p,
         reaping' \subseteq reaping
  PROVE  TokenOK' /\ UniqueOK' /\ SparedOK'
  <1>0. NoHandle \notin Raw /\ \A r \in reaping : r.raw \in Raw
    BY Fields DEF OwnInv, IInv
  <1>1. TokenOK'
    BY DEF OwnInv, Owned, TokenOK, Live
  <1>2. SparedOK'
    BY SameClaims DEF OwnInv, Owned, SparedOK, Live
  <1>3. UniqueOK'
    <2>1. \A o \in opens', c \in Contexts, v \in Virtual : o.raw # NoHandle => ~Claim(c, v, o.raw)
      BY DEF OwnInv, Owned, UniqueOK
    <2>2. \A r \in reaping', o \in opens' : r.raw # o.raw
      BY <1>0 DEF OwnInv, Owned, UniqueOK
    <2>3. /\ \A b \in Raw, c, d \in Contexts, v, w \in Virtual :
               Claim(c, v, b) /\ Claim(d, w, b) => c = d /\ v = w
          /\ \A r \in reaping', c \in Contexts, v \in Virtual : ~Claim(c, v, r.raw)
          /\ \A r, s \in reaping' : r.raw = s.raw => r = s
      BY DEF OwnInv, Owned, UniqueOK
    <2>4. \A b \in Raw, c, d \in Contexts, v, w \in Virtual :
            Claim(c, v, b)' /\ Claim(d, w, b)' => c = d /\ v = w
      <3> SUFFICES ASSUME NEW b \in Raw, NEW c \in Contexts, NEW d \in Contexts,
                          NEW v \in Virtual, NEW w \in Virtual,
                          Claim(c, v, b)', Claim(d, w, b)'
                   PROVE  c = d /\ v = w
        OBVIOUS
      <3>1. Claim(c, v, b) /\ Claim(d, w, b)
        BY SameClaims
      <3>2. QED BY <2>3, <3>1
    <2>5. \A r \in reaping', c \in Contexts, v \in Virtual : ~Claim(c, v, r.raw)'
      BY <2>3, SameClaims
    <2>6. \A o \in opens', c \in Contexts, v \in Virtual : o.raw # NoHandle => ~Claim(c, v, o.raw)'
      BY <2>1, SameClaims
    <2>7. \A r, s \in reaping' : r.raw = s.raw => r = s
      BY <2>3
    <2>8. QED BY <2>2, <2>4, <2>5, <2>6, <2>7 DEF UniqueOK
  <1>4. QED BY <1>1, <1>2, <1>3

\* The owner of b, an open or a teardown, closes it and is done.
LEMMA Disposed ==
  ASSUME OwnInv, UNCHANGED <<provider, maps, closes, status, used, born>>, NEW b \in Raw,
         opens' \subseteq opens, reaping' \subseteq reaping,
         \A o \in opens : o \notin opens' => o.raw = b,
         \A r \in reaping : r \notin reaping' => r.raw = b,
         \A o \in opens' : o.raw # b, \A r \in reaping' : r.raw # b,
         \A c \in Contexts, v \in Virtual : ~Claim(c, v, b),
         CloseBestEffort(b)
  PROVE  Owned'
  <1>0. TypeOK /\ b # NoHandle
    BY Fields DEF OwnInv, IInv
  <1>1. TokenOK' /\ UniqueOK' /\ SparedOK'
    BY FewerOwners DEF OwnInv, Owned, UniqueOK
  <1>2. /\ \A a \in Raw \ {b} : native'[a] = native[a]
        /\ native'[b] = 0 \/ (native'[b] = native[b] /\ native[b] \in orphans')
        /\ orphans \subseteq orphans'
    BY <1>0 DEF CloseBestEffort, Closed, TypeOK
  <1>3. UsedOK'
    <2>1. \A a \in Raw : native'[a] # 0 => a \in used'
      BY <1>2 DEF OwnInv, Owned, UsedOK
    <2>2. QED BY <2>1, SameClaims DEF OwnInv, Owned, UsedOK
  <1>4. \A c \in Contexts, v \in Virtual :
          /\ maps[c].v2b[v] # b
          /\ maps[c].susp[v] = b => Over(c, v) /\ provider.recycles
    <2>1. \A c \in Contexts, v \in Virtual : maps[c].v2b[v] # b
      BY <1>0, ActiveNotOver DEF Claim, Held, OwnInv, Owned
    <2>2. QED BY <2>1 DEF Claim, Held
  <1>5. SessionOK'
    <2>1. \A c \in Contexts, v \in Virtual : maps[c].v2b[v] # NoHandle =>
            native'[maps[c].v2b[v]] # 0 /\ native'[maps[c].v2b[v]] = born[c][v]
      <3>1. \A c \in Contexts, v \in Virtual : maps[c].v2b[v] # NoHandle => maps[c].v2b[v] \in Raw \ {b}
        BY <1>0, <1>4, Fields
      <3>2. QED BY <1>2, <3>1 DEF OwnInv, Owned, SessionOK
    <2>2. ASSUME NEW c \in Contexts, NEW v \in Virtual, maps[c].susp[v] # NoHandle, ~Over(c, v)
          PROVE  \/ native'[maps[c].susp[v]] # 0 /\ native'[maps[c].susp[v]] = born[c][v]
                 \/ native'[maps[c].susp[v]] = 0 /\ ~provider.recycles
      <3>1. maps[c].susp[v] \in Raw \ {b}
        BY <1>0, <1>4, <2>2, Fields
      <3>2. QED BY <1>2, <2>2, <3>1 DEF OwnInv, Owned, SessionOK
    <2>3. ASSUME NEW t \in closes
          PROVE  /\ t.rv \in {"pending", "error"} =>
                      native'[t.raw] # 0 /\ native'[t.raw] = born[t.ctx][t.virt]
                 /\ t.rv \in {"ok", "gone"} /\ ~provider.recycles => native'[t.raw] = 0
      <3>1. t.raw \in Raw /\ t.ctx \in Contexts /\ t.virt \in Virtual /\ maps[t.ctx].susp[t.virt] = t.raw
        BY <1>0, Fields DEF OwnInv, Owned, TokenOK
      <3>2. CASE t.raw # b
        BY <1>2, <3>1, <3>2 DEF OwnInv, Owned, SessionOK
      <3>3. CASE t.raw = b
        <4>1. Over(t.ctx, t.virt) /\ provider.recycles
          BY <1>4, <3>1, <3>3
        <4>2. t.rv \in {"ok", "gone"}
          BY <4>1 DEF Over, OwnInv, Owned, TokenOK
        <4>3. QED BY <4>1, <4>2
      <3>4. QED BY <3>2, <3>3
    <2>4. \A o \in opens' : o.raw # NoHandle => native'[o.raw] = o.serial
      BY <1>0, <1>2, Fields DEF OwnInv, Owned, SessionOK
    <2>5. \A r \in reaping' : native'[r.raw] # 0 \/ ~provider.recycles
      BY <1>0, <1>2, Fields DEF OwnInv, Owned, SessionOK
    <2>6. QED BY <2>1, <2>2, <2>3, <2>4, <2>5, SameClaims DEF SessionOK
  <1>6. KeptOK'
    <2> SUFFICES ASSUME NEW a \in Raw, native'[a] # 0, ~provider.recycles
                 PROVE  \/ native'[a] \in orphans'
                        \/ \E o \in opens' : o.raw = a /\ o.serial = native'[a]
                        \/ \E r \in reaping' : r.raw = a
                        \/ \E c \in Contexts, v \in Virtual : Held(c, v, a) /\ born[c][v] = native'[a]
      BY SameClaims DEF KeptOK
    <2>1. CASE a = b
      BY <1>2, <2>1
    <2>2. CASE a # b
      BY <1>2, <2>2 DEF OwnInv, Owned, KeptOK
    <2>3. QED BY <2>1, <2>2
  <1>7. QED BY <1>1, <1>3, <1>5, <1>6 DEF Owned

\* Only the handlers of opens change.
LEMMA OpensShift ==
  ASSUME OwnInv,
         UNCHANGED <<provider, status, maps, native, used, closes, reaping, born, orphans>>,
         \A o \in opens' : o.raw # NoHandle => \E p \in opens : p.raw = o.raw /\ p.serial = o.serial,
         \A p \in opens : p.raw # NoHandle => \E o \in opens' : o.raw = p.raw /\ o.serial = p.serial,
         \A o, p \in opens' : o.raw # NoHandle /\ o.raw = p.raw => o = p
  PROVE  Owned'
  <1>1. TokenOK' /\ UniqueOK' /\ SparedOK'
    BY FewerOwners
  <1>2. UsedOK'
    BY SameClaims DEF OwnInv, Owned, UsedOK
  <1>3. SessionOK'
    BY SameClaims DEF OwnInv, Owned, SessionOK
  <1>4. KeptOK'
    <2>1. \A b \in Raw : (\E p \in opens : p.raw = b /\ p.serial = native[b])
                           => \E o \in opens' : o.raw = b /\ o.serial = native[b]
      BY Fields DEF OwnInv, IInv
    <2> SUFFICES ASSUME NEW b \in Raw, native[b] # 0, ~provider.recycles
                 PROVE  \/ native[b] \in orphans
                        \/ \E o \in opens' : o.raw = b /\ o.serial = native[b]
                        \/ \E r \in reaping : r.raw = b
                        \/ \E c \in Contexts, v \in Virtual : Held(c, v, b) /\ born[c][v] = native[b]
      BY SameClaims DEF KeptOK
    <2>2. QED BY <2>1 DEF OwnInv, Owned, KeptOK
  <1>5. QED BY <1>1, <1>2, <1>3, <1>4 DEF Owned

\* Only the standing of contexts changes.
LEMMA StatusShift ==
  ASSUME OwnInv,
         UNCHANGED <<provider, maps, native, used, opens, closes, reaping, born, orphans>>
  PROVE  SessionOK' /\ UsedOK' /\ UniqueOK' /\ KeptOK'
  <1>1. UsedOK'
    BY SameClaims DEF OwnInv, Owned, UsedOK
  <1>2. SessionOK'
    BY SameClaims DEF OwnInv, Owned, SessionOK
  <1>3. UniqueOK'
    BY DEF OwnInv, Owned, UniqueOK, Claim, Held, Over
  <1>4. KeptOK'
    BY SameClaims DEF OwnInv, Owned, KeptOK
  <1>5. QED BY <1>1, <1>2, <1>3, <1>4

-----------------------------------------------------------------------------
(* Opens and teardowns *)

\* A context starts without sessions.
LEMMA CreateOwned ==
  ASSUME OwnInv, UNCHANGED provider, NEW c \in Contexts, CreateContext(c)
  PROVE  Owned'
  <1>1. /\ status[c] = "fresh" /\ status' = [status EXCEPT ![c] = "live"] /\ TypeOK
        /\ UNCHANGED <<maps, native, used, opens, closes, reaping, born, orphans>>
    BY DEF CreateContext, OwnInv, IInv
  <1>2. Live' = Live \cup {c}
    BY <1>1 DEF Live, TypeOK
  <1>3. \A v \in Virtual, b \in Raw : ~Held(c, v, b)
    BY <1>1, EmptyHolds DEF OwnInv, StatusOK
  <1>4. TokenOK'
    BY <1>1, <1>2 DEF OwnInv, Owned, TokenOK
  <1>5. SparedOK'
    BY <1>1, <1>2, <1>3, SameClaims, Fields DEF OwnInv, Owned, SparedOK
  <1>6. QED BY <1>1, <1>4, <1>5, StatusShift DEF Owned

\* A context is removed only without a close in progress.
LEMMA RemoveOwned ==
  ASSUME OwnInv, UNCHANGED provider, NEW c \in Contexts, RemoveContext(c)
  PROVE  Owned'
  <1>1. /\ status' = [status EXCEPT ![c] = "removed"] /\ TypeOK /\ ~InFlight(c)
        /\ UNCHANGED <<maps, native, used, opens, closes, reaping, born, orphans>>
    BY DEF RemoveContext, OwnInv, IInv
  <1>2. Live' = Live \ {c} /\ \A t \in closes : t.ctx # c
    BY <1>1 DEF Live, TypeOK, InFlight
  <1>3. TokenOK'
    BY <1>1, <1>2 DEF OwnInv, Owned, TokenOK
  <1>4. SparedOK'
    BY <1>1, <1>2, SameClaims DEF OwnInv, Owned, SparedOK
  <1>5. QED BY <1>1, <1>3, <1>4, StatusShift DEF Owned

\* An open is asked for.
LEMMA OpenOwned ==
  ASSUME OwnInv, UNCHANGED provider, NEW c \in Contexts, OpenSession(c)
  PROVE  Owned'
  <1> DEFINE o == [ctx |-> c, serial |-> opened + 1, raw |-> NoHandle, waiting |-> TRUE]
  <1>1. /\ opens' = opens \cup {o} /\ o.raw = NoHandle
        /\ UNCHANGED <<status, maps, native, used, closes, reaping, born, orphans>>
    BY DEF OpenSession
  <1> HIDE DEF o
  <1>2. \A p, q \in opens' : p.raw # NoHandle /\ p.raw = q.raw => p = q
    BY <1>1 DEF OwnInv, Owned, UniqueOK
  <1>3. QED BY <1>1, <1>2, OpensShift

\* The handler leaves; the completion owner keeps the result.
LEMMA LeaveOwned ==
  ASSUME OwnInv, UNCHANGED provider, NEW o \in opens, LeaveOpen(o)
  PROVE  Owned'
  <1> DEFINE q == [o EXCEPT !.waiting = FALSE]
  <1>1. /\ opens' = (opens \ {o}) \cup {q} /\ TypeOK
        /\ UNCHANGED <<status, maps, native, used, closes, reaping, born, orphans>>
    BY DEF LeaveOpen, OwnInv, IInv
  <1>2. q.raw = o.raw /\ q.serial = o.serial
    BY <1>1 DEF TypeOK
  <1> HIDE DEF q
  <1>3. \A p, r \in opens' : p.raw # NoHandle /\ p.raw = r.raw => p = r
    BY <1>1, <1>2 DEF OwnInv, Owned, UniqueOK
  <1>4. \A p \in opens' : p.raw # NoHandle => \E r \in opens : r.raw = p.raw /\ r.serial = p.serial
    BY <1>1, <1>2
  <1>5. \A p \in opens : p.raw # NoHandle => \E r \in opens' : r.raw = p.raw /\ r.serial = p.serial
    BY <1>1, <1>2
  <1>6. QED BY <1>1, <1>3, <1>4, <1>5, OpensShift

\* A handle that the provider hands out has no claimant.
LEMMA FreshHandle ==
  ASSUME OwnInv, NEW b \in Raw, native[b] = 0, provider.recycles \/ b \notin used
  PROVE  /\ \A c \in Contexts, v \in Virtual : ~Claim(c, v, b)
         /\ \A o \in opens : o.raw # b
         /\ \A r \in reaping : r.raw # b
  <1>0. b # NoHandle /\ TypeOK
    BY Fields DEF OwnInv, IInv
  <1>1. ASSUME NEW c \in Contexts, NEW v \in Virtual, Claim(c, v, b) PROVE FALSE
    <2>1. provider.recycles /\ ~Over(c, v)
      BY <1>1 DEF Claim, OwnInv, Owned, UsedOK
    <2>2. QED BY <1>0, <1>1, <2>1 DEF Claim, Held, OwnInv, Owned, SessionOK
  <1>2. \A o \in opens : o.raw # b
    BY <1>0, Fields DEF OwnInv, Owned, SessionOK
  <1>3. \A r \in reaping : r.raw # b
    BY DEF OwnInv, Owned, SessionOK, UsedOK
  <1>4. QED BY <1>1, <1>2, <1>3

\* The provider answers an open.
LEMMA ReturnsOwned ==
  ASSUME OwnInv, UNCHANGED provider, NEW o \in opens, OpenReturns(o)
  PROVE  Owned'
  <1>0. /\ o.raw = NoHandle /\ TypeOK
        /\ UNCHANGED <<status, maps, closes, reaping, born, orphans>>
    BY DEF OpenReturns, OwnInv, IInv
  <1>1. CASE opens' = opens \ {o} /\ UNCHANGED <<native, used>>
    <2>1. \A p, r \in opens' : p.raw # NoHandle /\ p.raw = r.raw => p = r
      BY <1>1 DEF OwnInv, Owned, UniqueOK
    <2>2. QED BY <1>0, <1>1, <2>1, OpensShift
  <1>2. ASSUME NEW b \in Raw, native[b] = 0, provider.recycles \/ b \notin used,
               native' = [native EXCEPT ![b] = o.serial], used' = used \cup {b},
               opens' = (opens \ {o}) \cup {[o EXCEPT !.raw = b]}
        PROVE  Owned'
    <2> DEFINE q == [o EXCEPT !.raw = b]
    <2>0. /\ \A c \in Contexts, v \in Virtual : ~Claim(c, v, b)
          /\ \A p \in opens : p.raw # b
          /\ \A r \in reaping : r.raw # b
      BY <1>2, FreshHandle
    <2>1. /\ q.raw = b /\ q.serial = o.serial /\ o.serial # 0 /\ b # NoHandle
          /\ opens' = (opens \ {o}) \cup {q}
      BY <1>0, <1>2, Fields DEF TypeOK
    <2> HIDE DEF q
    <2>2. native'[b] = o.serial /\ \A a \in Raw \ {b} : native'[a] = native[a]
      BY <1>0, <1>2 DEF TypeOK
    <2>3. TokenOK' /\ SparedOK'
      BY <1>0, SameClaims DEF OwnInv, Owned, TokenOK, SparedOK, Live
    <2>4. UsedOK'
      <3>1. \A a \in Raw : native'[a] # 0 => a \in used'
        BY <1>2, <2>2 DEF OwnInv, Owned, UsedOK
      <3>2. \A p \in opens' : p.raw # NoHandle => p.raw \in used'
        BY <1>2, <2>1 DEF OwnInv, Owned, UsedOK
      <3>3. QED BY <1>0, <1>2, <3>1, <3>2, SameClaims DEF OwnInv, Owned, UsedOK
    <2>5. UniqueOK'
      <3>1. \A a \in Raw, c, d \in Contexts, v, w \in Virtual :
              Claim(c, v, a)' /\ Claim(d, w, a)' => c = d /\ v = w
        BY <1>0 DEF Claim, Held, Over, OwnInv, Owned, UniqueOK
      <3>2. \A p \in opens', c \in Contexts, v \in Virtual : p.raw # NoHandle => ~Claim(c, v, p.raw)
        BY <2>0, <2>1 DEF OwnInv, Owned, UniqueOK
      <3>3. \A p \in opens', c \in Contexts, v \in Virtual : p.raw # NoHandle => ~Claim(c, v, p.raw)'
        BY <1>0, <3>2, SameClaims
      <3>4. \A r \in reaping, c \in Contexts, v \in Virtual : ~Claim(c, v, r.raw)'
        BY <1>0, SameClaims DEF OwnInv, Owned, UniqueOK
      <3>5. \A p, r \in opens' : p.raw # NoHandle /\ p.raw = r.raw => p = r
        BY <2>0, <2>1 DEF OwnInv, Owned, UniqueOK
      <3>6. \A r \in reaping, p \in opens' : r.raw # p.raw
        BY <2>0, <2>1 DEF OwnInv, Owned, UniqueOK
      <3>7. \A r, s \in reaping : r.raw = s.raw => r = s
        BY DEF OwnInv, Owned, UniqueOK
      <3>8. QED BY <1>0, <3>1, <3>3, <3>4, <3>5, <3>6, <3>7 DEF UniqueOK
    <2>6. SessionOK'
      <3>1. \A c \in Contexts, v \in Virtual : maps[c].v2b[v] # NoHandle => maps[c].v2b[v] \in Raw \ {b}
        <4>1. \A c \in Contexts, v \in Virtual : maps[c].v2b[v] # b
          BY <2>0, <2>1, ActiveNotOver DEF Claim, Held, OwnInv, Owned
        <4>2. QED BY <1>0, <4>1, Fields
      <3>2. \A c \in Contexts, v \in Virtual :
              maps[c].susp[v] # NoHandle /\ ~Over(c, v) => maps[c].susp[v] \in Raw \ {b}
        BY <1>0, <2>0, Fields DEF Claim, Held
      <3>3. ASSUME NEW t \in closes
            PROVE  /\ t.rv \in {"pending", "error"} =>
                        native'[t.raw] # 0 /\ native'[t.raw] = born[t.ctx][t.virt]
                   /\ t.rv \in {"ok", "gone"} /\ ~provider.recycles => native'[t.raw] = 0
        <4>1. /\ t.raw \in Raw /\ t.ctx \in Contexts /\ t.virt \in Virtual
              /\ Held(t.ctx, t.virt, t.raw)
          BY <1>0, Fields DEF OwnInv, Owned, TokenOK, Held
        <4>2. CASE t.raw # b
          BY <2>2, <4>1, <4>2 DEF OwnInv, Owned, SessionOK
        <4>3. CASE t.raw = b
          <5>1. provider.recycles
            BY <1>2, <4>1, <4>3 DEF OwnInv, Owned, UsedOK
          <5>2. t.rv \notin {"pending", "error"}
            BY <1>2, <4>3 DEF OwnInv, Owned, SessionOK
          <5>3. QED BY <5>1, <5>2
        <4>4. QED BY <4>2, <4>3
      <3>4. \A p \in opens' : p.raw # NoHandle => native'[p.raw] = p.serial
        <4>1. \A p \in opens : p.raw # NoHandle => p.raw \in Raw \ {b} /\ native[p.raw] = p.serial
          BY <1>0, <2>0, Fields DEF OwnInv, Owned, SessionOK
        <4>2. QED BY <2>1, <2>2, <4>1
      <3>5. \A r \in reaping : native'[r.raw] # 0 \/ ~provider.recycles
        BY <1>0, <2>0, <2>2, Fields DEF OwnInv, Owned, SessionOK
      <3>6. \A c \in Contexts, v \in Virtual : maps[c].v2b[v] # NoHandle =>
              native'[maps[c].v2b[v]] # 0 /\ native'[maps[c].v2b[v]] = born[c][v]
        BY <2>2, <3>1 DEF OwnInv, Owned, SessionOK
      <3>7. \A c \in Contexts, v \in Virtual : maps[c].susp[v] # NoHandle /\ ~Over(c, v) =>
              \/ native'[maps[c].susp[v]] # 0 /\ native'[maps[c].susp[v]] = born[c][v]
              \/ native'[maps[c].susp[v]] = 0 /\ ~provider.recycles
        BY <2>2, <3>2 DEF OwnInv, Owned, SessionOK
      <3>8. QED BY <1>0, <3>3, <3>4, <3>5, <3>6, <3>7, SameClaims DEF SessionOK
    <2>7. KeptOK'
      <3> SUFFICES ASSUME NEW a \in Raw, native'[a] # 0, ~provider.recycles
                   PROVE  \/ native'[a] \in orphans
                          \/ \E p \in opens' : p.raw = a /\ p.serial = native'[a]
                          \/ \E r \in reaping : r.raw = a
                          \/ \E c \in Contexts, v \in Virtual : Held(c, v, a) /\ born[c][v] = native'[a]
        BY <1>0, SameClaims DEF KeptOK
      <3>1. CASE a = b
        BY <2>1, <2>2, <3>1
      <3>2. CASE a # b
        <4>1. native'[a] = native[a] /\ a # NoHandle
          BY <1>0, <2>2, <3>2, Fields
        <4>2. \A p \in opens : p.raw = a => p \in opens'
          BY <1>0, <2>1, <4>1
        <4>3. QED BY <4>1, <4>2 DEF OwnInv, Owned, KeptOK
      <3>3. QED BY <3>1, <3>2
    <2>8. QED BY <2>3, <2>4, <2>5, <2>6, <2>7 DEF Owned
  <1>3. QED BY <1>1, <1>2 DEF OpenReturns

\* An open whose result nobody registers closes it.
LEMMA DropOpenOwned ==
  ASSUME OwnInv, UNCHANGED <<provider, status, maps, used, closes, reaping, born>>,
         NEW o \in opens, o.raw # NoHandle, opens' = opens \ {o}, CloseBestEffort(o.raw)
  PROVE  Owned'
  <1>1. o.raw \in Raw
    BY Fields DEF OwnInv, IInv
  <1>2. /\ \A c \in Contexts, v \in Virtual : ~Claim(c, v, o.raw)
        /\ \A p \in opens' : p.raw # o.raw
        /\ \A r \in reaping : r.raw # o.raw
    BY DEF OwnInv, Owned, UniqueOK
  <1>3. QED BY <1>1, <1>2, Disposed

\* A teardown closes what it planned to close.
LEMMA ReapOwned ==
  ASSUME OwnInv, UNCHANGED provider, NEW r \in reaping, ReapSession(r)
  PROVE  Owned'
  <1>1. /\ r.raw \in Raw /\ reaping' = reaping \ {r} /\ CloseBestEffort(r.raw)
        /\ UNCHANGED <<status, maps, used, opens, closes, born>>
    BY Fields DEF OwnInv, IInv, ReapSession
  <1>2. /\ \A c \in Contexts, v \in Virtual : ~Claim(c, v, r.raw)
        /\ \A o \in opens : o.raw # r.raw
        /\ \A s \in reaping' : s.raw # r.raw
    BY <1>1 DEF OwnInv, Owned, UniqueOK
  <1>3. QED BY <1>1, <1>2, Disposed

-----------------------------------------------------------------------------
(* Closes *)

\* Only what client c keeps under v changes, and the closes of it.
OneHandle(c, v) ==
  /\ \A d \in Contexts, w \in Virtual : d # c \/ w # v =>
       maps'[d].v2b[w] = maps[d].v2b[w] /\ maps'[d].susp[w] = maps[d].susp[w]
  /\ \A t \in closes' : t.ctx # c \/ t.virt # v => t \in closes
  /\ \A t \in closes : t.ctx # c \/ t.virt # v => t \in closes'

\* Then the other claims stay.
LEMMA OtherClaims ==
  ASSUME UNCHANGED provider, NEW c, NEW v, OneHandle(c, v),
         NEW d \in Contexts, NEW w \in Virtual, d # c \/ w # v
  PROVE  /\ Over(d, w)' <=> Over(d, w)
         /\ \A b : (Held(d, w, b)' <=> Held(d, w, b)) /\ (Claim(d, w, b)' <=> Claim(d, w, b))
  <1>1. Over(d, w)' <=> Over(d, w)
    BY DEF Over, OneHandle
  <1>2. \A b : Held(d, w, b)' <=> Held(d, w, b)
    BY DEF Held, OneHandle
  <1>3. QED BY <1>1, <1>2 DEF Claim

\* A close of b, kept by c under v, moves on: it gains no claim, and the native
\* session changes only while c has the claim.
LEMMA HandleStep ==
  ASSUME OwnInv, UNCHANGED <<provider, status, opens, used, reaping, born, orphans>>,
         NEW c \in Live, NEW v \in Virtual, NEW b \in Raw, Held(c, v, b), OneHandle(c, v),
         \A a \in Raw : Held(c, v, a)' => a = b,
         Claim(c, v, b)' => Claim(c, v, b),
         \A a \in Raw \ {b} : native'[a] = native[a],
         native'[b] = native[b] \/ (native'[b] = 0 /\ Claim(c, v, b)),
         \A t \in closes' : t.ctx = c /\ t.virt = v => maps'[c].susp[v] = t.raw,
         \A t, u \in closes' : t.ctx = c /\ t.virt = v /\ u.ctx = c /\ u.virt = v => t = u,
         maps'[c].v2b[v] = b => native'[b] # 0 /\ native'[b] = born[c][v],
         maps'[c].susp[v] = b /\ ~Over(c, v)' =>
           \/ native'[b] # 0 /\ native'[b] = born[c][v]
           \/ native'[b] = 0 /\ ~provider.recycles,
         \A t \in closes' : t.ctx = c /\ t.virt = v =>
           /\ t.rv \in {"pending", "error"} => native'[b] # 0 /\ native'[b] = born[c][v]
           /\ t.rv \in {"ok", "gone"} /\ ~provider.recycles => native'[b] = 0,
         ~provider.recycles /\ native'[b] # 0 => Held(c, v, b)' /\ born[c][v] = native'[b]
  PROVE  TypeOK' => Owned'
  <1> SUFFICES ASSUME TypeOK' PROVE Owned'
    OBVIOUS
  <1>0. c \in Contexts /\ TypeOK /\ b # NoHandle /\ Live' = Live
    BY Fields DEF Live, OwnInv, IInv
  <1>a. /\ \A d \in Contexts, w \in Virtual :
              maps[d].v2b[w] \in Raw \cup {NoHandle} /\ maps[d].susp[w] \in Raw \cup {NoHandle}
        /\ \A d \in Contexts, w \in Virtual :
              maps'[d].v2b[w] \in Raw \cup {NoHandle} /\ maps'[d].susp[w] \in Raw \cup {NoHandle}
    <2>1. maps' \in [Contexts -> Map]
      BY DEF TypeOK
    <2>2. \A d \in Contexts, w \in Virtual :
            maps'[d].v2b[w] \in Raw \cup {NoHandle} /\ maps'[d].susp[w] \in Raw \cup {NoHandle}
      BY <2>1 DEF Map
    <2>3. QED BY <1>0, <2>2, Fields
  <1>b. \A t \in closes : t.ctx \in Contexts /\ t.virt \in Virtual /\ t.raw \in Raw
    BY <1>0, Fields
  <1>1. native'[b] # native[b] =>
          /\ \A d \in Contexts, w \in Virtual : d # c \/ w # v => ~Claim(d, w, b)
          /\ \A o \in opens : o.raw # b
          /\ \A r \in reaping : r.raw # b
    BY <1>0 DEF OwnInv, Owned, UniqueOK
  <1>2. TokenOK'
    <2>1. ASSUME NEW t \in closes' PROVE t.ctx \in Live /\ maps'[t.ctx].susp[t.virt] = t.raw
      <3>1. CASE t.ctx = c /\ t.virt = v
        BY <3>1
      <3>2. CASE t.ctx # c \/ t.virt # v
        <4>1. t \in closes
          BY <3>2 DEF OneHandle
        <4>2. t.ctx \in Live /\ maps[t.ctx].susp[t.virt] = t.raw /\ t.ctx \in Contexts /\ t.virt \in Virtual
          BY <1>b, <4>1 DEF OwnInv, Owned, TokenOK
        <4>3. QED BY <3>2, <4>2 DEF OneHandle
      <3>3. QED BY <3>1, <3>2
    <2>2. ASSUME NEW t \in closes', NEW u \in closes', t.ctx = u.ctx, t.virt = u.virt PROVE t = u
      <3>1. CASE t.ctx = c /\ t.virt = v
        BY <2>2, <3>1
      <3>2. CASE t.ctx # c \/ t.virt # v
        <4>1. t \in closes /\ u \in closes
          BY <2>2, <3>2 DEF OneHandle
        <4>2. QED BY <2>2, <4>1 DEF OwnInv, Owned, TokenOK
      <3>3. QED BY <3>1, <3>2
    <2>3. QED BY <1>0, <2>1, <2>2 DEF TokenOK
  <1>3. UsedOK'
    <2>1. \A a \in Raw : native'[a] # 0 => a \in used
      BY DEF OwnInv, Owned, UsedOK
    <2>2. ASSUME NEW a \in Raw, NEW d \in Contexts, NEW w \in Virtual, Held(d, w, a)' PROVE a \in used
      <3>1. CASE d = c /\ w = v
        BY <1>0, <2>2, <3>1 DEF OwnInv, Owned, UsedOK
      <3>2. CASE d # c \/ w # v
        <4>1. Held(d, w, a)
          BY <2>2, <3>2, OtherClaims
        <4>2. QED BY <4>1 DEF OwnInv, Owned, UsedOK
      <3>3. QED BY <3>1, <3>2
    <2>3. QED BY <2>1, <2>2 DEF OwnInv, Owned, UsedOK
  <1>4. ASSUME NEW d \in Contexts, NEW w \in Virtual, NEW a \in Raw, Claim(d, w, a)'
        PROVE  Claim(d, w, a)
    <2>1. CASE d = c /\ w = v
      <3>1. a = b
        BY <1>4, <2>1 DEF Claim
      <3>2. QED BY <1>4, <2>1, <3>1
    <2>2. CASE d # c \/ w # v
      BY <1>4, <2>2, OtherClaims
    <2>3. QED BY <2>1, <2>2
  <1>5. UniqueOK'
    <2>1. ASSUME NEW a \in Raw, NEW d \in Contexts, NEW e \in Contexts, NEW w \in Virtual,
                 NEW x \in Virtual, Claim(d, w, a)', Claim(e, x, a)'
          PROVE  d = e /\ w = x
      <3>1. Claim(d, w, a) /\ Claim(e, x, a)
        BY <1>4, <2>1
      <3>2. QED BY <3>1 DEF OwnInv, Owned, UniqueOK
    <2>2. \A o \in opens, d \in Contexts, w \in Virtual : o.raw # NoHandle => ~Claim(d, w, o.raw)'
      BY <1>0, <1>4, Fields DEF OwnInv, Owned, UniqueOK
    <2>3. \A r \in reaping, d \in Contexts, w \in Virtual : ~Claim(d, w, r.raw)'
      BY <1>0, <1>4, Fields DEF OwnInv, Owned, UniqueOK
    <2>4. /\ \A o, p \in opens : o.raw # NoHandle /\ o.raw = p.raw => o = p
          /\ \A r \in reaping, o \in opens : r.raw # o.raw
          /\ \A r, s \in reaping : r.raw = s.raw => r = s
      BY DEF OwnInv, Owned, UniqueOK
    <2>5. QED BY <2>1, <2>2, <2>3, <2>4 DEF UniqueOK
  <1>6. SparedOK'
    <2> SUFFICES ASSUME NEW r \in reaping, NEW d \in Live, NEW w \in Virtual, Held(d, w, r.raw)'
                 PROVE  FALSE
      BY <1>0 DEF SparedOK
    <2>0. r.raw \in Raw /\ d \in Contexts /\ ~Held(d, w, r.raw)
      BY <1>0, Fields DEF OwnInv, Owned, SparedOK, Live
    <2>1. CASE d = c /\ w = v
      BY <2>0, <2>1
    <2>2. CASE d # c \/ w # v
      BY <2>0, <2>2, OtherClaims
    <2>3. QED BY <2>1, <2>2
  <1>7. SessionOK'
    <2>1. ASSUME NEW d \in Contexts, NEW w \in Virtual, maps'[d].v2b[w] # NoHandle
          PROVE  native'[maps'[d].v2b[w]] # 0 /\ native'[maps'[d].v2b[w]] = born[d][w]
      <3>1. CASE d = c /\ w = v
        <4>1. maps'[c].v2b[v] = b
          BY <1>a, <2>1, <3>1 DEF Held
        <4>2. QED BY <3>1, <4>1
      <3>2. CASE d # c \/ w # v
        <4> DEFINE a == maps[d].v2b[w]
        <4>1. maps'[d].v2b[w] = a /\ a \in Raw
          BY <1>a, <2>1, <3>2 DEF OneHandle
        <4>2. native[a] # 0 /\ native[a] = born[d][w] /\ ~Over(d, w)
          BY <2>1, <4>1, ActiveNotOver DEF OwnInv, Owned, SessionOK
        <4>3. Claim(d, w, a)
          BY <4>2 DEF Claim, Held
        <4> HIDE DEF a
        <4>4. native'[a] = native[a]
          BY <1>1, <3>2, <4>1, <4>3
        <4>5. QED BY <4>1, <4>2, <4>4
      <3>3. QED BY <3>1, <3>2
    <2>2. ASSUME NEW d \in Contexts, NEW w \in Virtual, maps'[d].susp[w] # NoHandle, ~Over(d, w)'
          PROVE  \/ native'[maps'[d].susp[w]] # 0 /\ native'[maps'[d].susp[w]] = born[d][w]
                 \/ native'[maps'[d].susp[w]] = 0 /\ ~provider.recycles
      <3>1. CASE d = c /\ w = v
        <4>1. maps'[c].susp[v] = b
          BY <1>a, <2>2, <3>1 DEF Held
        <4>2. QED BY <2>2, <3>1, <4>1
      <3>2. CASE d # c \/ w # v
        <4> DEFINE a == maps[d].susp[w]
        <4>1. maps'[d].susp[w] = a /\ a \in Raw /\ ~Over(d, w) /\ a # NoHandle
          BY <1>a, <2>2, <3>2, OtherClaims DEF OneHandle
        <4>2. \/ native[a] # 0 /\ native[a] = born[d][w]
              \/ native[a] = 0 /\ ~provider.recycles
          BY <4>1 DEF OwnInv, Owned, SessionOK
        <4>3. Claim(d, w, a)
          BY <4>1 DEF Claim, Held
        <4> HIDE DEF a
        <4>4. native'[a] = native[a]
          BY <1>1, <3>2, <4>1, <4>3
        <4>5. QED BY <4>1, <4>2, <4>4
      <3>3. QED BY <3>1, <3>2
    <2>3. ASSUME NEW t \in closes'
          PROVE  /\ t.rv \in {"pending", "error"} =>
                      native'[t.raw] # 0 /\ native'[t.raw] = born[t.ctx][t.virt]
                 /\ t.rv \in {"ok", "gone"} /\ ~provider.recycles => native'[t.raw] = 0
      <3>1. CASE t.ctx = c /\ t.virt = v
        <4>1. t.raw = b
          <5>1. maps'[c].susp[v] = t.raw /\ t.raw \in Raw
            BY <3>1 DEF TypeOK
          <5>2. QED BY <5>1 DEF Held
        <4>2. QED BY <3>1, <4>1
      <3>2. CASE t.ctx # c \/ t.virt # v
        <4>1. t \in closes
          BY <3>2 DEF OneHandle
        <4>2. t.ctx \in Contexts /\ t.virt \in Virtual /\ t.raw \in Raw /\ Held(t.ctx, t.virt, t.raw)
          BY <1>b, <4>1 DEF OwnInv, Owned, TokenOK, Held
        <4>3. Over(t.ctx, t.virt) => t.rv \in {"ok", "gone"}
          BY <4>1 DEF Over, OwnInv, Owned, TokenOK
        <4>4. /\ t.rv \in {"pending", "error"} =>
                   native[t.raw] # 0 /\ native[t.raw] = born[t.ctx][t.virt]
              /\ t.rv \in {"ok", "gone"} /\ ~provider.recycles => native[t.raw] = 0
          BY <4>1 DEF OwnInv, Owned, SessionOK
        <4>5. t.rv \in {"pending", "error"} \/ ~provider.recycles => Claim(t.ctx, t.virt, t.raw)
          BY <4>2, <4>3 DEF Claim
        <4>6. Claim(t.ctx, t.virt, t.raw) => native'[t.raw] = native[t.raw]
          BY <1>1, <3>2, <4>2
        <4>7. QED BY <4>4, <4>5, <4>6
      <3>3. QED BY <3>1, <3>2
    <2>4. \A o \in opens : o.raw # NoHandle => native'[o.raw] = o.serial
      <3>1. \A o \in opens : o.raw # NoHandle => native'[o.raw] = native[o.raw]
        BY <1>0, <1>1, Fields
      <3>2. QED BY <3>1 DEF OwnInv, Owned, SessionOK
    <2>5. \A r \in reaping : native'[r.raw] # 0 \/ ~provider.recycles
      <3>1. \A r \in reaping : native'[r.raw] = native[r.raw]
        BY <1>0, <1>1, Fields
      <3>2. QED BY <3>1 DEF OwnInv, Owned, SessionOK
    <2>6. QED BY <2>1, <2>2, <2>3, <2>4, <2>5 DEF SessionOK
  <1>8. KeptOK'
    <2> SUFFICES ASSUME NEW a \in Raw, native'[a] # 0, ~provider.recycles
                 PROVE  \/ native'[a] \in orphans
                        \/ \E o \in opens : o.raw = a /\ o.serial = native'[a]
                        \/ \E r \in reaping : r.raw = a
                        \/ \E d \in Contexts, w \in Virtual : Held(d, w, a)' /\ born[d][w] = native'[a]
      BY DEF KeptOK
    <2>1. CASE a = b
      BY <1>0, <2>1
    <2>2. CASE a # b
      <3>1. native'[a] = native[a]
        BY <2>2
      <3>2. ASSUME NEW d \in Contexts, NEW w \in Virtual, Held(d, w, a), born[d][w] = native[a]
            PROVE  Held(d, w, a)'
        <4>1. d # c \/ w # v
          <5> SUFFICES ASSUME d = c, w = v PROVE FALSE
            OBVIOUS
          <5>1. maps[c].susp[v] = NoHandle \/ maps[c].v2b[v] = NoHandle
            BY <1>0 DEF OwnInv, IInv, MapsWellFormed, WellFormed, Exclusive
          <5>2. QED BY <1>0, <2>2, <3>2, <5>1, Fields DEF Held
        <4>2. QED BY <3>2, <4>1, OtherClaims
      <3>3. QED BY <3>1, <3>2 DEF OwnInv, Owned, KeptOK
    <2>3. QED BY <2>1, <2>2
  <1>9. QED BY <1>2, <1>3, <1>5, <1>6, <1>7, <1>8 DEF Owned

\* What the methods do to the entries of a map, besides its reverse table.
LEMMA SuspendEntries ==
  ASSUME NEW m \in Map, NEW v \in Virtual
  PROVE  /\ Suspend(m, v).v2b[v] = NoHandle /\ Suspend(m, v).susp[v] = m.v2b[v]
         /\ Suspend(m, v).next = m.next
         /\ \A w \in Virtual \ {v} :
              Suspend(m, v).v2b[w] = m.v2b[w] /\ Suspend(m, v).susp[w] = m.susp[w]
  BY DEF Suspend, Detach, Map

\* What HandleMap::remove does to a suspended entry, and to no other.
LEMMA RemoveEntries ==
  ASSUME NEW m \in Map, NEW v \in Virtual, m.v2b[v] = NoHandle
  PROVE  /\ Remove(m, v).v2b[v] = NoHandle /\ Remove(m, v).susp[v] = NoHandle
         /\ Remove(m, v).next = m.next
         /\ \A w \in Virtual \ {v} :
              Remove(m, v).v2b[w] = m.v2b[w] /\ Remove(m, v).susp[w] = m.susp[w]
  BY DEF Remove, Detach, Map

\* What HandleMap::reactivate_suspended does to its entry, and to no other.
LEMMA ReactivateEntries ==
  ASSUME NEW m \in Map, NEW v \in Virtual, NEW b \in Raw, CanReactivate(m, v, b)
  PROVE  /\ Reactivate(m, v, b).v2b[v] = b /\ Reactivate(m, v, b).susp[v] = NoHandle
         /\ Reactivate(m, v, b).next = m.next
         /\ \A w \in Virtual \ {v} :
              Reactivate(m, v, b).v2b[w] = m.v2b[w] /\ Reactivate(m, v, b).susp[w] = m.susp[w]
  BY DEF Reactivate, Map

\* What HandleMap::insert does to the new entry, and to no other.
LEMMA InsertEntries ==
  ASSUME NEW m \in Map, NEW b \in Raw, m.b2v[b] = NoHandle, m.next \in Virtual
  PROVE  /\ Insert(m, b).v2b[m.next] = b /\ Insert(m, b).susp[m.next] = m.susp[m.next]
         /\ Insert(m, b).next = m.next + 1
         /\ \A w \in Virtual \ {m.next} :
              Insert(m, b).v2b[w] = m.v2b[w] /\ Insert(m, b).susp[w] = m.susp[w]
  BY DEF Insert, Map

\* A close begins: the handle is suspended.
LEMMA BeginOwned ==
  ASSUME OwnInv, UNCHANGED provider, NEW c \in Contexts, NEW v \in Virtual, BeginClose(c, v), TypeOK'
  PROVE  Owned'
  <1> DEFINE m == maps[c]
             n == Suspend(m, v)
  <1>a. PICK b \in Raw : b = maps[c].v2b[v]
    BY Fields DEF BeginClose, Resolve, OwnInv, IInv
  <1> DEFINE u == [ctx |-> c, virt |-> v, raw |-> b, rv |-> "pending"]
  <1>0. /\ c \in Live /\ b # NoHandle /\ maps' = [maps EXCEPT ![c] = n] /\ closes' = closes \cup {u}
        /\ UNCHANGED <<status, native, used, opened, opens, reaping, born, orphans>> /\ TypeOK
    BY <1>a DEF BeginClose, Resolve, OwnInv, IInv
  <1>1. m \in Map /\ m.v2b[v] = b
    BY <1>0, <1>a, Fields
  <1>2. /\ n.v2b[v] = NoHandle /\ n.susp[v] = b
        /\ \A w \in Virtual \ {v} : n.v2b[w] = m.v2b[w] /\ n.susp[w] = m.susp[w]
    BY <1>1, SuspendEntries
  <1>3. u.ctx = c /\ u.virt = v /\ u.raw = b /\ u.rv = "pending"
    OBVIOUS
  <1> HIDE DEF n, u
  <1>4. maps'[c] = n /\ \A d \in Contexts \ {c} : maps'[d] = maps[d]
    BY <1>0 DEF TypeOK
  <1>5. m.susp[v] = NoHandle /\ ~Over(c, v) /\ \A t \in closes : ~(t.ctx = c /\ t.virt = v)
    BY <1>0, <1>a, ActiveNotOver DEF OwnInv, Owned
  <1>6. Held(c, v, b) /\ Claim(c, v, b)
    BY <1>1, <1>5 DEF Held, Claim
  <1>7. native[b] # 0 /\ native[b] = born[c][v]
    BY <1>0, <1>a DEF OwnInv, Owned, SessionOK
  <1>8. OneHandle(c, v)
    <2>1. \A d \in Contexts, w \in Virtual : d # c \/ w # v =>
            maps'[d].v2b[w] = maps[d].v2b[w] /\ maps'[d].susp[w] = maps[d].susp[w]
      BY <1>2, <1>4
    <2>2. QED BY <1>0, <1>3, <2>1 DEF OneHandle
  <1>9. /\ \A a \in Raw : Held(c, v, a)' => a = b
        /\ Held(c, v, b)'
    BY <1>2, <1>4, HandleAssumption DEF Held
  <1>10. \A t \in closes' : t.ctx = c /\ t.virt = v => t = u
    BY <1>0, <1>5
  <1>11. maps'[c].susp[v] = b /\ maps'[c].v2b[v] # b
    BY <1>0, <1>2, <1>4
  <1>12. \A t \in closes' : t.ctx = c /\ t.virt = v => maps'[c].susp[v] = t.raw /\ t.rv = "pending"
    BY <1>3, <1>10, <1>11
  <1>13. native' = native
    BY <1>0
  <1>14. \A t \in closes' : t.ctx = c /\ t.virt = v =>
           /\ t.rv \in {"pending", "error"} => native'[b] # 0 /\ native'[b] = born[c][v]
           /\ t.rv \in {"ok", "gone"} /\ ~provider.recycles => native'[b] = 0
    BY <1>7, <1>12, <1>13
  <1>15. QED
    BY <1>0, <1>1, <1>6, <1>7, <1>8, <1>9, <1>10, <1>11, <1>12, <1>13, <1>14, HandleStep

\* A close that is not settled has its pair; until it is answered c has the claim.
LEMMA TokenFacts ==
  ASSUME OwnInv, NEW t \in closes
  PROVE  /\ t.ctx \in Live /\ t.ctx \in Contexts /\ t.virt \in Virtual /\ t.raw \in Raw
         /\ t.raw # NoHandle /\ maps[t.ctx] \in Map /\ WellFormed(maps[t.ctx])
         /\ maps[t.ctx].susp[t.virt] = t.raw /\ maps[t.ctx].v2b[t.virt] = NoHandle
         /\ Held(t.ctx, t.virt, t.raw) /\ \A a \in Raw : Held(t.ctx, t.virt, a) => a = t.raw
         /\ \A u \in closes : u.ctx = t.ctx /\ u.virt = t.virt => u = t
         /\ t.rv \notin {"ok", "gone"} => ~Over(t.ctx, t.virt) /\ Claim(t.ctx, t.virt, t.raw)
         /\ t.rv \in {"pending", "error"} =>
              native[t.raw] # 0 /\ native[t.raw] = born[t.ctx][t.virt]
         /\ t.rv \in {"ok", "gone"} /\ ~provider.recycles => native[t.raw] = 0
  <1>0. TypeOK
    BY DEF OwnInv, IInv
  <1>1. /\ t.ctx \in Live /\ t.ctx \in Contexts /\ t.virt \in Virtual /\ t.raw \in Raw
        /\ t.raw # NoHandle /\ maps[t.ctx] \in Map
        /\ maps[t.ctx].susp[t.virt] = t.raw
    BY <1>0, Fields DEF OwnInv, Owned, TokenOK
  <1>2. WellFormed(maps[t.ctx])
    BY <1>1 DEF OwnInv, IInv, MapsWellFormed
  <1>3. maps[t.ctx].v2b[t.virt] = NoHandle
    BY <1>1, <1>2 DEF WellFormed, Exclusive
  <1>4. Held(t.ctx, t.virt, t.raw) /\ \A a \in Raw : Held(t.ctx, t.virt, a) => a = t.raw
    BY <1>0, <1>1, <1>3, Fields DEF Held
  <1>5. \A u \in closes : u.ctx = t.ctx /\ u.virt = t.virt => u = t
    BY DEF OwnInv, Owned, TokenOK
  <1>6. t.rv \notin {"ok", "gone"} => ~Over(t.ctx, t.virt) /\ Claim(t.ctx, t.virt, t.raw)
    BY <1>4, <1>5 DEF Over, Claim
  <1>7. /\ t.rv \in {"pending", "error"} =>
             native[t.raw] # 0 /\ native[t.raw] = born[t.ctx][t.virt]
        /\ t.rv \in {"ok", "gone"} /\ ~provider.recycles => native[t.raw] = 0
    BY DEF OwnInv, Owned, SessionOK
  <1>8. QED BY <1>1, <1>2, <1>3, <1>4, <1>5, <1>6, <1>7

\* The provider answers a close.
LEMMA AnswerOwned ==
  ASSUME OwnInv, UNCHANGED provider, NEW t \in closes, CloseReturns(t), TypeOK'
  PROVE  Owned'
  <1> DEFINE c == t.ctx
             v == t.virt
             b == t.raw
  <1>0. /\ t.rv = "pending" /\ TypeOK
        /\ UNCHANGED <<status, maps, used, opened, opens, reaping, born, orphans>>
    BY DEF CloseReturns, OwnInv, IInv
  <1>1. PICK rv \in CloseRv \ {"pending"} :
          /\ closes' = (closes \ {t}) \cup {[t EXCEPT !.rv = rv]}
          /\ \/ rv = "ok" /\ native[t.raw] # 0 /\ native' = Closed(t.raw)
             \/ rv = "gone" /\ native[t.raw] = 0 /\ UNCHANGED native
             \/ rv = "error" /\ UNCHANGED native
             \/ rv = "device_error" /\ UNCHANGED native
             \/ rv = "device_error" /\ provider.mayClose /\ native' = Closed(t.raw)
    BY DEF CloseReturns
  <1> DEFINE u == [t EXCEPT !.rv = rv]
  <1>2. u.ctx = c /\ u.virt = v /\ u.raw = b /\ u.rv = rv
    BY <1>0 DEF TypeOK
  <1>3. closes' = (closes \ {t}) \cup {u}
    BY <1>1
  <1> HIDE DEF u
  <1>4. /\ c \in Live /\ c \in Contexts /\ v \in Virtual /\ b \in Raw /\ b # NoHandle
        /\ maps[c].susp[v] = b /\ maps[c].v2b[v] = NoHandle
        /\ Held(c, v, b) /\ \A a \in Raw : Held(c, v, a) => a = b
        /\ \A x \in closes : x.ctx = c /\ x.virt = v => x = t
        /\ Claim(c, v, b) /\ native[b] # 0 /\ native[b] = born[c][v]
    BY <1>0, TokenFacts
  <1>5. /\ \A a \in Raw \ {b} : native'[a] = native[a]
        /\ native'[b] = native[b] \/ native'[b] = 0
        /\ rv \in {"ok", "gone"} => native'[b] = 0
        /\ rv = "error" => native'[b] = native[b]
        /\ native'[b] = 0 => rv = "ok" \/ ~provider.recycles
    BY <1>0, <1>1, <1>4 DEF Closed, TypeOK, OwnInv, Exact
  <1> HIDE DEF c, v, b
  <1>6. \A x \in closes' : x.ctx = c /\ x.virt = v => x = u
    BY <1>3, <1>4
  <1>7. OneHandle(c, v)
    <2>1. t.ctx = c /\ t.virt = v
      BY DEF c, v
    <2>2. QED BY <1>0, <1>2, <1>3, <2>1 DEF OneHandle
  <1>8. Held(c, v, b)' /\ \A a \in Raw : Held(c, v, a)' => a = b
    BY <1>0, <1>4 DEF Held
  <1>9. ~Over(c, v)' => rv \notin {"ok", "gone"}
    BY <1>2, <1>3 DEF Over
  <1>10. maps'[c].susp[v] = b /\ maps'[c].v2b[v] # b
    BY <1>0, <1>4
  <1>11. rv \in {"ok", "gone", "device_error", "error"}
    BY DEF CloseRv
  <1>12. \/ native'[b] # 0 /\ native'[b] = born[c][v]
         \/ native'[b] = 0 /\ (rv = "ok" \/ ~provider.recycles)
    BY <1>4, <1>5
  <1>13. \A x \in closes' : x.ctx = c /\ x.virt = v =>
           /\ x.rv \in {"pending", "error"} => native'[b] # 0 /\ native'[b] = born[c][v]
           /\ x.rv \in {"ok", "gone"} /\ ~provider.recycles => native'[b] = 0
    BY <1>2, <1>4, <1>5, <1>6, <1>11
  <1>14. QED
    BY <1>0, <1>2, <1>4, <1>5, <1>6, <1>7, <1>8, <1>9, <1>10, <1>12, <1>13, HandleStep

\* A close is settled or dropped.  Terminal: it was answered.  Transient: it
\* left the session open.  Ambiguous: it may have closed it.
LEMMA CompleteOwned ==
  ASSUME OwnInv, NEW t \in closes, NEW completion \in {"terminal", "transient", "ambiguous"},
         UNCHANGED <<provider, status, used, opened, opens, reaping, born, orphans>>,
         Complete(t, completion), TypeOK',
         completion = "terminal" <=> t.rv \in {"ok", "gone"},
         completion = "transient" => t.rv \in {"pending", "error"} /\ UNCHANGED native,
         native' = native \/ (native' = Closed(t.raw) /\ ~provider.recycles /\ completion = "ambiguous")
  PROVE  Owned'
  <1> DEFINE c == t.ctx
             v == t.virt
             b == t.raw
             m == maps[c]
             n == Completed(m, v, b, completion)
  <1>0. TypeOK /\ closes' = closes \ {t}
    BY DEF Complete, OwnInv, IInv
  <1>1. /\ c \in Live /\ c \in Contexts /\ v \in Virtual /\ b \in Raw /\ b # NoHandle
        /\ m \in Map /\ m.susp[v] = b /\ m.v2b[v] = NoHandle
        /\ Held(c, v, b) /\ \A a \in Raw : Held(c, v, a) => a = b
        /\ \A x \in closes : x.ctx = c /\ x.virt = v => x = t
        /\ t.rv \notin {"ok", "gone"} => ~Over(c, v) /\ Claim(c, v, b)
        /\ t.rv \in {"pending", "error"} => native[b] # 0 /\ native[b] = born[c][v]
        /\ t.rv \in {"ok", "gone"} /\ ~provider.recycles => native[b] = 0
    BY TokenFacts
  <1>2. maps' = [maps EXCEPT ![c] = n]
    BY <1>1 DEF Complete
  <1>3. /\ \A w \in Virtual \ {v} : n.v2b[w] = m.v2b[w] /\ n.susp[w] = m.susp[w]
        /\ completion = "terminal" => n.v2b[v] = NoHandle /\ n.susp[v] = NoHandle
        /\ completion = "transient" =>
             \/ n.v2b[v] = b /\ n.susp[v] = NoHandle
             \/ n.v2b[v] = NoHandle /\ n.susp[v] = b
        /\ completion = "ambiguous" => n.v2b[v] = NoHandle /\ n.susp[v] = b
    <2>1. CASE completion = "terminal"
      <3>1. n = Remove(m, v)
        BY <1>1, <2>1 DEF Completed, SuspendedBackend
      <3>2. QED BY <1>1, <2>1, <3>1, RemoveEntries
    <2>2. CASE completion = "transient"
      <3>1. n = Reactivate(m, v, b)
        BY <1>1, <2>2 DEF Completed, SuspendedBackend
      <3>2. CASE CanReactivate(m, v, b)
        BY <1>1, <2>2, <3>1, <3>2, ReactivateEntries
      <3>3. CASE ~CanReactivate(m, v, b)
        BY <1>1, <2>2, <3>1, <3>3 DEF Reactivate
      <3>4. QED BY <3>2, <3>3
    <2>3. CASE completion = "ambiguous"
      BY <1>1, <2>3 DEF Completed, SuspendedBackend
    <2>4. QED BY <2>1, <2>2, <2>3
  <1> HIDE DEF n
  <1>4. maps'[c] = n /\ \A d \in Contexts \ {c} : maps'[d] = maps[d]
    BY <1>0, <1>1, <1>2 DEF TypeOK
  <1>5. /\ \A a \in Raw \ {b} : native'[a] = native[a]
        /\ native'[b] = native[b] \/ (native'[b] = 0 /\ ~provider.recycles /\ completion = "ambiguous")
    BY <1>0, <1>1 DEF Closed, TypeOK
  <1>6. OneHandle(c, v)
    <2>1. \A d \in Contexts, w \in Virtual : d # c \/ w # v =>
            maps'[d].v2b[w] = maps[d].v2b[w] /\ maps'[d].susp[w] = maps[d].susp[w]
      BY <1>3, <1>4
    <2>2. QED BY <1>0, <2>1 DEF OneHandle
  <1>a. t.rv \in CloseRv
    BY <1>0, Fields
  <1> HIDE DEF c, v, b, m
  <1>7. /\ \A a \in Raw : Held(c, v, a)' => a = b
        /\ completion # "terminal" => Held(c, v, b)'
        /\ Claim(c, v, b)' => Claim(c, v, b)
    <2>1. NoHandle \notin Raw
      BY HandleAssumption
    <2>2. \A a \in Raw : Held(c, v, a)' => a = b /\ completion # "terminal"
      BY <1>3, <1>4, <2>1 DEF Held
    <2>3. completion # "terminal" => Held(c, v, b)'
      BY <1>3, <1>4 DEF Held
    <2>4. Claim(c, v, b)' => Claim(c, v, b)
      BY <1>1, <2>2 DEF Claim
    <2>5. QED BY <2>2, <2>3, <2>4
  <1>8. \A x \in closes' : ~(x.ctx = c /\ x.virt = v)
    BY <1>0, <1>1
  <1>9. maps'[c].v2b[v] = b => completion = "transient"
    BY <1>1, <1>3, <1>4
  <1>10. completion = "transient" => native'[b] # 0 /\ native'[b] = born[c][v]
    BY <1>1, <1>5
  <1>11. completion = "ambiguous" =>
           \/ native'[b] # 0 /\ native'[b] = born[c][v]
           \/ native'[b] = 0 /\ ~provider.recycles
    <2> SUFFICES ASSUME completion = "ambiguous", native'[b] = native[b]
                 PROVE  \/ native[b] # 0 /\ native[b] = born[c][v]
                        \/ native[b] = 0 /\ ~provider.recycles
      BY <1>5
    <2>1. ~Over(c, v) /\ maps[c].susp[v] = b
      BY <1>1 DEF m
    <2>2. QED BY <1>1, <2>1 DEF OwnInv, Owned, SessionOK
  <1>12. maps'[c].susp[v] = b => completion \in {"transient", "ambiguous"}
    BY <1>1, <1>3, <1>4
  <1>13. ~provider.recycles /\ native'[b] # 0 => Held(c, v, b)' /\ born[c][v] = native'[b]
    BY <1>1, <1>5, <1>7, <1>10, <1>11
  <1>14. native'[b] = native[b] \/ (native'[b] = 0 /\ Claim(c, v, b))
    BY <1>1, <1>5
  <1>15. maps'[c].susp[v] = b /\ ~Over(c, v)' =>
           \/ native'[b] # 0 /\ native'[b] = born[c][v]
           \/ native'[b] = 0 /\ ~provider.recycles
    BY <1>10, <1>11, <1>12
  <1>16. QED
    BY <1>1, <1>5, <1>6, <1>7, <1>8, <1>9, <1>10, <1>13, <1>14, <1>15, HandleStep

-----------------------------------------------------------------------------
(* Registration and teardown plans *)

\* The handler registers the session that it opened under a new handle.
LEMMA RegisterOwned ==
  ASSUME OwnInv, UNCHANGED provider, NEW o \in opens, RegisterSession(o), o.ctx \in Live, TypeOK'
  PROVE  Owned'
  <1> DEFINE c == o.ctx
             b == o.raw
             m == maps[c]
             n == Insert(m, b)
  <1>0. /\ b # NoHandle /\ opens' = opens \ {o} /\ maps' = [maps EXCEPT ![c] = n]
        /\ Inserted(m, b) \in Virtual
        /\ born' = [born EXCEPT ![c][Inserted(m, b)] = o.serial]
        /\ UNCHANGED <<status, native, used, opened, closes, reaping, orphans>> /\ TypeOK
    BY DEF RegisterSession, OwnInv, IInv
  <1>1. /\ c \in Contexts /\ b \in Raw /\ m \in Map /\ WellFormed(m) /\ o.serial # 0
        /\ native[b] = o.serial
    <2>1. c \in Contexts /\ b \in Raw /\ m \in Map /\ o.serial # 0
      BY <1>0, Fields
    <2>2. QED BY <1>0, <2>1 DEF OwnInv, IInv, MapsWellFormed, Owned, SessionOK
  <1>2. /\ \A d \in Contexts, w \in Virtual : ~Claim(d, w, b)
        /\ \A p \in opens' : p.raw # b
        /\ \A r \in reaping : r.raw # b
    BY <1>0 DEF OwnInv, Owned, UniqueOK
  <1>3. m.b2v[b] = NoHandle
    <2> SUFFICES ASSUME m.b2v[b] # NoHandle PROVE FALSE
      OBVIOUS
    <2> DEFINE w == m.b2v[b]
    <2>1. w \in Virtual /\ m.v2b[w] = b
      BY <1>1 DEF Map, WellFormed, Inverse
    <2> HIDE DEF w
    <2>2. ~Over(c, w)
      BY <1>0, <1>1, <2>1, ActiveNotOver DEF OwnInv, Owned
    <2>3. Claim(c, w, b)
      BY <2>1, <2>2 DEF Claim, Held
    <2>4. QED BY <1>1, <1>2, <2>1, <2>3
  <1>4. PICK v \in Virtual : v = m.next /\ v = Inserted(m, b)
    BY <1>0, <1>3 DEF Inserted
  <1>5. /\ n.v2b[v] = b /\ n.susp[v] = m.susp[v]
        /\ \A w \in Virtual \ {v} : n.v2b[w] = m.v2b[w] /\ n.susp[w] = m.susp[w]
    <2>1. m.next \in Virtual /\ m \in Map /\ b \in Raw
      BY <1>1, <1>4
    <2>2. /\ Insert(m, b).v2b[m.next] = b /\ Insert(m, b).susp[m.next] = m.susp[m.next]
          /\ \A w \in Virtual \ {m.next} :
               Insert(m, b).v2b[w] = m.v2b[w] /\ Insert(m, b).susp[w] = m.susp[w]
      BY <1>3, <2>1, InsertEntries
    <2>3. QED BY <1>4, <2>2
  <1>6. m.v2b[v] = NoHandle /\ m.susp[v] = NoHandle
    BY <1>1, <1>4 DEF WellFormed, Fresh, Virtual
  <1> HIDE DEF n
  <1>7. maps'[c] = n /\ \A d \in Contexts \ {c} : maps'[d] = maps[d]
    BY <1>0, <1>1 DEF TypeOK
  <1>8. /\ born'[c][v] = o.serial
        /\ \A d \in Contexts, w \in Virtual : d # c \/ w # v => born'[d][w] = born[d][w]
    <2>1. born \in [Contexts -> [Virtual -> 0 .. MaxOpens]]
      BY <1>0 DEF TypeOK
    <2>2. QED BY <1>0, <1>1, <1>4, <2>1
  <1>a. c \in Live
    OBVIOUS
  <1> HIDE DEF c, b, m
  <1>9. /\ \A d \in Contexts, w \in Virtual : maps'[d].susp[w] = maps[d].susp[w]
        /\ \A d \in Contexts, w \in Virtual : d # c \/ w # v => maps'[d].v2b[w] = maps[d].v2b[w]
        /\ maps'[c].v2b[v] = b /\ maps'[c].susp[v] = NoHandle
        /\ maps[c].v2b[v] = NoHandle /\ maps[c].susp[v] = NoHandle
    BY <1>5, <1>6, <1>7 DEF m
  <1>10. OneHandle(c, v)
    BY <1>0, <1>9 DEF OneHandle
  <1>11. \A t \in closes : t.ctx # c \/ t.virt # v
    BY <1>0, <1>9, Fields DEF OwnInv, Owned, TokenOK
  <1>12. \A a \in Raw : (Held(c, v, a)' => a = b) /\ ~Held(c, v, a)
    BY <1>9, HandleAssumption DEF Held
  <1>13. Held(c, v, b)'
    BY <1>9 DEF Held
  <1>b. \A t \in closes : t.ctx \in Contexts /\ t.virt \in Virtual /\ t.raw \in Raw
    BY <1>0, Fields
  <1>c. Live' = Live
    BY <1>0 DEF Live
  <1>14. TokenOK'
    BY <1>0, <1>9, <1>b, <1>c DEF OwnInv, Owned, TokenOK
  <1>15. UsedOK'
    <2>1. ASSUME NEW a \in Raw, NEW d \in Contexts, NEW w \in Virtual, Held(d, w, a)' PROVE a \in used
      <3>1. CASE d = c /\ w = v
        BY <1>0, <1>12, <2>1, <3>1 DEF OwnInv, Owned, UsedOK, b
      <3>2. CASE d # c \/ w # v
        <4>1. Held(d, w, a)
          BY <1>10, <2>1, <3>2, OtherClaims
        <4>2. QED BY <4>1 DEF OwnInv, Owned, UsedOK
      <3>3. QED BY <3>1, <3>2
    <2>2. QED BY <1>0, <2>1 DEF OwnInv, Owned, UsedOK
  <1>16. ASSUME NEW d \in Contexts, NEW w \in Virtual, NEW a \in Raw, Claim(d, w, a)'
         PROVE  (a = b /\ d = c /\ w = v) \/ (a # b /\ Claim(d, w, a))
    <2>1. CASE d = c /\ w = v
      BY <1>12, <1>16, <2>1 DEF Claim
    <2>2. CASE d # c \/ w # v
      <3>1. Claim(d, w, a)
        BY <1>10, <1>16, <2>2, OtherClaims
      <3>2. QED BY <1>2, <3>1
    <2>3. QED BY <2>1, <2>2
  <1>17. UniqueOK'
    <2>1. ASSUME NEW a \in Raw, NEW d \in Contexts, NEW e \in Contexts, NEW w \in Virtual,
                 NEW x \in Virtual, Claim(d, w, a)', Claim(e, x, a)'
          PROVE  d = e /\ w = x
      <3>1. CASE a = b
        BY <1>16, <2>1, <3>1
      <3>2. CASE a # b
        <4>1. Claim(d, w, a) /\ Claim(e, x, a)
          BY <1>16, <2>1, <3>2
        <4>2. QED BY <4>1 DEF OwnInv, Owned, UniqueOK
      <3>3. QED BY <3>1, <3>2
    <2>2. \A p \in opens', d \in Contexts, w \in Virtual : p.raw # NoHandle => ~Claim(d, w, p.raw)'
      BY <1>0, <1>2, <1>16, Fields DEF OwnInv, Owned, UniqueOK
    <2>3. \A r \in reaping, d \in Contexts, w \in Virtual : ~Claim(d, w, r.raw)'
      BY <1>0, <1>2, <1>16, Fields DEF OwnInv, Owned, UniqueOK
    <2>4. /\ \A p, q \in opens' : p.raw # NoHandle /\ p.raw = q.raw => p = q
          /\ \A r \in reaping, p \in opens' : r.raw # p.raw
          /\ \A r, s \in reaping : r.raw = s.raw => r = s
      BY <1>0 DEF OwnInv, Owned, UniqueOK
    <2>5. QED BY <1>0, <2>1, <2>2, <2>3, <2>4 DEF UniqueOK
  <1>18. SparedOK'
    <2> SUFFICES ASSUME NEW r \in reaping, NEW d \in Live, NEW w \in Virtual, Held(d, w, r.raw)'
                 PROVE  FALSE
      BY <1>0, <1>c DEF SparedOK
    <2>0. r.raw \in Raw /\ d \in Contexts /\ ~Held(d, w, r.raw) /\ r.raw # b
      BY <1>0, <1>2, Fields DEF OwnInv, Owned, SparedOK, Live
    <2>1. CASE d = c /\ w = v
      BY <1>12, <2>0, <2>1
    <2>2. CASE d # c \/ w # v
      BY <1>10, <2>0, <2>2, OtherClaims
    <2>3. QED BY <2>1, <2>2
  <1>19. SessionOK'
    <2>1. ASSUME NEW d \in Contexts, NEW w \in Virtual, maps'[d].v2b[w] # NoHandle
          PROVE  native[maps'[d].v2b[w]] # 0 /\ native[maps'[d].v2b[w]] = born'[d][w]
      <3>1. CASE d = c /\ w = v
        BY <1>1, <1>8, <1>9, <3>1 DEF b
      <3>2. CASE d # c \/ w # v
        BY <1>8, <1>9, <2>1, <3>2 DEF OwnInv, Owned, SessionOK
      <3>3. QED BY <3>1, <3>2
    <2>2. ASSUME NEW d \in Contexts, NEW w \in Virtual, maps'[d].susp[w] # NoHandle, ~Over(d, w)'
          PROVE  \/ native[maps'[d].susp[w]] # 0 /\ native[maps'[d].susp[w]] = born'[d][w]
                 \/ native[maps'[d].susp[w]] = 0 /\ ~provider.recycles
      <3>1. d # c \/ w # v
        BY <1>9, <2>2
      <3>2. ~Over(d, w) /\ maps[d].susp[w] # NoHandle /\ born'[d][w] = born[d][w]
        BY <1>8, <1>9, <1>10, <2>2, <3>1, OtherClaims
      <3>3. QED BY <1>9, <3>2 DEF OwnInv, Owned, SessionOK
    <2>3. ASSUME NEW t \in closes
          PROVE  /\ t.rv \in {"pending", "error"} =>
                      native[t.raw] # 0 /\ native[t.raw] = born'[t.ctx][t.virt]
                 /\ t.rv \in {"ok", "gone"} /\ ~provider.recycles => native[t.raw] = 0
      BY <1>8, <1>11, <1>b DEF OwnInv, Owned, SessionOK
    <2>4. QED BY <1>0, <2>1, <2>2, <2>3 DEF OwnInv, Owned, SessionOK
  <1>20. KeptOK'
    <2> SUFFICES ASSUME NEW a \in Raw, native[a] # 0, ~provider.recycles
                 PROVE  \/ native[a] \in orphans
                        \/ \E p \in opens' : p.raw = a /\ p.serial = native[a]
                        \/ \E r \in reaping : r.raw = a
                        \/ \E d \in Contexts, w \in Virtual : Held(d, w, a)' /\ born'[d][w] = native[a]
      BY <1>0 DEF KeptOK
    <2>1. CASE a = b
      BY <1>1, <1>8, <1>13, <2>1 DEF b, c
    <2>2. CASE a # b
      <3>1. \A p \in opens : p.raw = a => p \in opens'
        BY <1>0, <2>2 DEF b
      <3>2. ASSUME NEW d \in Contexts, NEW w \in Virtual, Held(d, w, a)
            PROVE  Held(d, w, a)' /\ born'[d][w] = born[d][w]
        <4>1. d # c \/ w # v
          BY <1>12, <3>2
        <4>2. QED BY <1>8, <1>10, <3>2, <4>1, OtherClaims
      <3>3. QED BY <3>1, <3>2 DEF OwnInv, Owned, KeptOK
    <2>3. QED BY <2>1, <2>2
  <1>21. QED BY <1>14, <1>15, <1>17, <1>18, <1>19, <1>20 DEF Owned

\* references_backend finds what a map keeps.
LEMMA References ==
  ASSUME NEW m \in Map, WellFormed(m), NEW b \in Raw
  PROVE  ReferencesBackend(m, b) <=> \E w \in Virtual : m.v2b[w] = b \/ m.susp[w] = b
  BY HandleAssumption DEF ReferencesBackend, WellFormed, Inverse, Map, Virtual, NoHandle

\* A removed context's sessions pass to the teardown.
LEMMA PlanOwned ==
  ASSUME OwnInv, UNCHANGED provider, NEW c \in Contexts, PlanTeardown(c)
  PROVE  Owned'
  <1> DEFINE N == {[ctx |-> c, raw |-> b] :
                     b \in {h \in BackendHandles(maps[c]) : ~ReferencedByLive(h)}}
  <1>0. /\ status[c] = "removed" /\ status' = [status EXCEPT ![c] = "departed"]
        /\ reaping' = reaping \cup N /\ maps' = [maps EXCEPT ![c] = EmptyMap]
        /\ UNCHANGED <<native, used, opens, closes, born, orphans>> /\ TypeOK
    BY DEF PlanTeardown, OwnInv, IInv
  <1>1. Live' = Live /\ c \notin Live
    BY <1>0 DEF Live, TypeOK
  <1>2. maps'[c] = EmptyMap /\ \A d \in Contexts \ {c} : maps'[d] = maps[d]
    BY <1>0 DEF TypeOK
  <1>3. \A t \in closes : t.ctx # c
    BY <1>1 DEF OwnInv, Owned, TokenOK
  <1>4. \A v \in Virtual : maps'[c].v2b[v] = NoHandle /\ maps'[c].susp[v] = NoHandle
    BY <1>2 DEF EmptyMap
  <1>5. \A d, w : Over(d, w)' <=> Over(d, w)
    BY <1>0 DEF Over
  <1>6. ASSUME NEW d \in Contexts, NEW w \in Virtual, NEW a \in Raw, Held(d, w, a)'
        PROVE  d # c /\ Held(d, w, a)
    BY <1>2, <1>4, <1>6, HandleAssumption DEF Held
  <1>7. ASSUME NEW d \in Contexts, NEW w \in Virtual, NEW a \in Raw, Claim(d, w, a)'
        PROVE  d # c /\ Claim(d, w, a)
    BY <1>5, <1>6, <1>7 DEF Claim
  <1>8. \A v \in Virtual : \A a : Held(c, v, a) => Claim(c, v, a)
    BY <1>3 DEF Claim, Over
  <1>9. ASSUME NEW r \in N
        PROVE  /\ r.ctx = c /\ r.raw \in Raw /\ r = [ctx |-> c, raw |-> r.raw]
               /\ \E v \in Virtual : Held(c, v, r.raw) /\ Claim(c, v, r.raw)
               /\ \A d \in Live, w \in Virtual : ~Held(d, w, r.raw)
    <2>1. PICK b \in BackendHandles(maps[c]) : ~ReferencedByLive(b) /\ r = [ctx |-> c, raw |-> b]
      BY <1>9
    <2>2. r.raw = b /\ r.ctx = c /\ b \in Raw
      BY <2>1 DEF BackendHandles
    <2>3. \E v \in Virtual : Held(c, v, b) /\ Claim(c, v, b)
      BY <1>8, <2>1 DEF BackendHandles, Held
    <2>4. ASSUME NEW d \in Live, NEW w \in Virtual, Held(d, w, b) PROVE FALSE
      <3>1. d \in Contexts /\ maps[d] \in Map /\ WellFormed(maps[d])
        BY <1>0, Fields DEF Live, OwnInv, IInv, MapsWellFormed
      <3>2. ReferencesBackend(maps[d], b)
        BY <2>2, <2>4, <3>1, References DEF Held
      <3>3. QED BY <2>1, <3>2 DEF ReferencedByLive
    <2>5. QED BY <2>1, <2>2, <2>3, <2>4
  <1>10. ASSUME NEW v \in Virtual, NEW a \in Raw, Held(c, v, a), ~provider.recycles
         PROVE  \E r \in N : r.raw = a
    <2>1. a \in BackendHandles(maps[c])
      BY <1>10 DEF BackendHandles, Held
    <2>2. ~ReferencedByLive(a)
      <3> SUFFICES ASSUME NEW d \in Live, ReferencesBackend(maps[d], a) PROVE FALSE
        BY DEF ReferencedByLive
      <3>1. d \in Contexts /\ maps[d] \in Map /\ WellFormed(maps[d])
        BY <1>0, Fields DEF Live, OwnInv, IInv, MapsWellFormed
      <3>2. PICK w \in Virtual : maps[d].v2b[w] = a \/ maps[d].susp[w] = a
        BY <3>1, References
      <3>3. Claim(d, w, a) /\ Claim(c, v, a)
        BY <1>10, <3>2 DEF Claim, Held
      <3>4. QED BY <1>1, <3>1, <3>3 DEF OwnInv, Owned, UniqueOK
    <2>3. [ctx |-> c, raw |-> a] \in N
      BY <2>1, <2>2
    <2>4. QED BY <2>3
  <1> HIDE DEF N
  <1>a. NoHandle \notin Raw /\ \A r \in reaping : r.raw \in Raw
    BY <1>0, Fields
  <1>11. TokenOK'
    BY <1>0, <1>1, <1>2, <1>3, Fields DEF OwnInv, Owned, TokenOK
  <1>12. UsedOK'
    <2>1. \A r \in N : r.raw \in used
      BY <1>9 DEF OwnInv, Owned, UsedOK
    <2>2. \A a \in Raw, d \in Contexts, w \in Virtual : Held(d, w, a)' => a \in used
      BY <1>6 DEF OwnInv, Owned, UsedOK
    <2>3. QED BY <1>0, <2>1, <2>2 DEF OwnInv, Owned, UsedOK
  <1>13. UniqueOK'
    <2>1. ASSUME NEW a \in Raw, NEW d \in Contexts, NEW e \in Contexts, NEW w \in Virtual,
                 NEW x \in Virtual, Claim(d, w, a)', Claim(e, x, a)'
          PROVE  d = e /\ w = x
      <3>1. Claim(d, w, a) /\ Claim(e, x, a)
        BY <1>7, <2>1
      <3>2. QED BY <3>1 DEF OwnInv, Owned, UniqueOK
    <2>2. \A p \in opens, d \in Contexts, w \in Virtual : p.raw # NoHandle => ~Claim(d, w, p.raw)'
      BY <1>0, <1>7, Fields DEF OwnInv, Owned, UniqueOK
    <2>3. ASSUME NEW r \in reaping', NEW d \in Contexts, NEW w \in Virtual, Claim(d, w, r.raw)'
          PROVE  FALSE
      <3>0. r.raw \in Raw
        BY <1>0, <1>9, <1>a
      <3>1. d # c /\ Claim(d, w, r.raw)
        BY <1>7, <2>3, <3>0
      <3>2. CASE r \in reaping
        BY <3>1, <3>2 DEF OwnInv, Owned, UniqueOK
      <3>3. CASE r \in N
        <4>1. PICK v \in Virtual : Claim(c, v, r.raw)
          BY <1>9, <3>3
        <4>2. QED BY <3>0, <3>1, <4>1 DEF OwnInv, Owned, UniqueOK
      <3>4. QED BY <1>0, <3>2, <3>3
    <2>4. \A p, q \in opens : p.raw # NoHandle /\ p.raw = q.raw => p = q
      BY DEF OwnInv, Owned, UniqueOK
    <2>5. ASSUME NEW r \in reaping', NEW p \in opens, r.raw = p.raw PROVE FALSE
      <3>1. CASE r \in reaping
        BY <2>5, <3>1 DEF OwnInv, Owned, UniqueOK
      <3>2. CASE r \in N
        <4>1. PICK v \in Virtual : Claim(c, v, p.raw)
          BY <1>9, <2>5, <3>2
        <4>2. p.raw # NoHandle
          BY <1>9, <1>a, <2>5, <3>2
        <4>3. QED BY <4>1, <4>2 DEF OwnInv, Owned, UniqueOK
      <3>3. QED BY <1>0, <3>1, <3>2
    <2>6. ASSUME NEW r \in reaping', NEW s \in reaping', r.raw = s.raw PROVE r = s
      <3>1. \A q \in reaping : \A x \in N : q.raw # x.raw
        BY <1>9 DEF OwnInv, Owned, UniqueOK
      <3>2. CASE r \in reaping /\ s \in reaping
        BY <2>6, <3>2 DEF OwnInv, Owned, UniqueOK
      <3>3. CASE r \in N /\ s \in N
        BY <1>9, <2>6, <3>3
      <3>4. QED BY <1>0, <2>6, <3>1, <3>2, <3>3
    <2>7. QED BY <1>0, <2>1, <2>2, <2>3, <2>4, <2>5, <2>6 DEF UniqueOK
  <1>14. SparedOK'
    <2> SUFFICES ASSUME NEW r \in reaping', NEW d \in Live, NEW w \in Virtual, Held(d, w, r.raw)'
                 PROVE  FALSE
      BY <1>1 DEF SparedOK
    <2>1. r.raw \in Raw /\ d \in Contexts
      BY <1>0, <1>9, <1>a DEF Live
    <2>2. Held(d, w, r.raw)
      BY <1>6, <2>1
    <2>3. QED BY <1>0, <1>9, <2>2 DEF OwnInv, Owned, SparedOK
  <1>15. SessionOK'
    <2>1. ASSUME NEW d \in Contexts, NEW w \in Virtual, maps'[d].v2b[w] # NoHandle
          PROVE  native[maps'[d].v2b[w]] # 0 /\ native[maps'[d].v2b[w]] = born[d][w]
      BY <1>2, <1>4, <2>1 DEF OwnInv, Owned, SessionOK
    <2>2. ASSUME NEW d \in Contexts, NEW w \in Virtual, maps'[d].susp[w] # NoHandle, ~Over(d, w)'
          PROVE  \/ native[maps'[d].susp[w]] # 0 /\ native[maps'[d].susp[w]] = born[d][w]
                 \/ native[maps'[d].susp[w]] = 0 /\ ~provider.recycles
      BY <1>2, <1>4, <1>5, <2>2 DEF OwnInv, Owned, SessionOK
    <2>3. ASSUME NEW r \in N PROVE native[r.raw] # 0 \/ ~provider.recycles
      <3>1. PICK v \in Virtual : Held(c, v, r.raw)
        BY <1>9
      <3>2. ~Over(c, v) /\ r.raw # NoHandle
        BY <1>3, <1>9, <1>a DEF Over
      <3>3. QED BY <3>1, <3>2 DEF Held, OwnInv, Owned, SessionOK
    <2>4. QED BY <1>0, <2>1, <2>2, <2>3 DEF OwnInv, Owned, SessionOK
  <1>16. KeptOK'
    <2> SUFFICES ASSUME NEW a \in Raw, native[a] # 0, ~provider.recycles
                 PROVE  \/ native[a] \in orphans
                        \/ \E p \in opens : p.raw = a /\ p.serial = native[a]
                        \/ \E r \in reaping' : r.raw = a
                        \/ \E d \in Contexts, w \in Virtual : Held(d, w, a)' /\ born[d][w] = native[a]
      BY <1>0 DEF KeptOK
    <2>1. ASSUME NEW d \in Contexts, NEW w \in Virtual, Held(d, w, a)
          PROVE  Held(d, w, a)' \/ \E r \in reaping' : r.raw = a
      <3>1. CASE d = c
        BY <1>0, <1>10, <2>1, <3>1
      <3>2. CASE d # c
        BY <1>2, <2>1, <3>2 DEF Held
      <3>3. QED BY <3>1, <3>2
    <2>2. QED BY <1>0, <2>1 DEF OwnInv, Owned, KeptOK
  <1>17. QED BY <1>11, <1>12, <1>13, <1>14, <1>15, <1>16 DEF Owned

-----------------------------------------------------------------------------
(* Handles that are gone stay gone *)

\* Nothing comes back under an id that was allocated before.
Grows(m, n) ==
  /\ m.next <= n.next
  /\ \A v \in Virtual : v < m.next /\ ProvenGone(m, v) => ProvenGone(n, v)

\* A map that does not change grows.
LEMMA GrowsSame == ASSUME NEW m \in Map PROVE Grows(m, m)
  BY HandleAssumption DEF Grows, Map

\* HandleMap::suspend brings no handle back.
LEMMA SuspendGrows ==
  ASSUME NEW m \in Map, NEW v \in Virtual, Resolve(m, v) # NoHandle
  PROVE  Grows(m, Suspend(m, v))
  <1>1. m.next = Suspend(m, v).next /\ m.next \in Nat
    BY SuspendEntries, HandleAssumption DEF Map
  <1>2. ASSUME NEW w \in Virtual, ProvenGone(m, w) PROVE ProvenGone(Suspend(m, v), w)
    <2>1. w # v
      BY <1>2 DEF ProvenGone
    <2>2. QED BY <1>2, <2>1, SuspendEntries DEF ProvenGone, Resolve, SuspendedBackend
  <1>3. QED BY <1>1, <1>2 DEF Grows

\* HandleMap::insert gives out an id never used before.
LEMMA InsertGrows ==
  ASSUME NEW m \in Map, NEW b \in Raw, WellFormed(m), Inserted(m, b) \in Virtual
  PROVE  Grows(m, Insert(m, b)) /\ Inserted(m, b) < Insert(m, b).next
  <1>0. m.next \in 1 .. MaxId + 1 /\ MaxId \in Nat
    BY HandleAssumption DEF Map
  <1>1. CASE m.b2v[b] # NoHandle
    <2>1. Insert(m, b) = m /\ Inserted(m, b) = m.b2v[b]
      BY <1>1 DEF Insert, Inserted
    <2>2. m.b2v[b] \in Virtual /\ m.v2b[m.b2v[b]] = b /\ b # NoHandle
      BY <1>1, HandleAssumption DEF Map, WellFormed, Inverse
    <2>3. m.b2v[b] < m.next
      BY <1>0, <2>2 DEF WellFormed, Fresh, Virtual
    <2>4. QED BY <2>1, <2>3, GrowsSame
  <1>2. CASE m.b2v[b] = NoHandle
    <2>1. m.next \in Virtual /\ Inserted(m, b) = m.next
      BY <1>2 DEF Inserted
    <2>2. /\ Insert(m, b).next = m.next + 1
          /\ \A w \in Virtual \ {m.next} :
               Insert(m, b).v2b[w] = m.v2b[w] /\ Insert(m, b).susp[w] = m.susp[w]
      BY <1>2, <2>1, InsertEntries
    <2>3. \A w \in Virtual : w < m.next => w \in Virtual \ {m.next}
      BY <1>0 DEF Virtual
    <2>4. \A w \in Virtual : w < m.next /\ ProvenGone(m, w) => ProvenGone(Insert(m, b), w)
      BY <2>2, <2>3 DEF ProvenGone, Resolve, SuspendedBackend
    <2>5. QED BY <1>0, <2>1, <2>2, <2>4 DEF Grows
  <1>3. QED BY <1>1, <1>2

\* complete_close_session brings no handle back that is gone: it touches the
\* pair that is still suspended, or nothing.
LEMMA CompletedGrows ==
  ASSUME NEW m \in Map, NEW v \in Virtual, NEW b \in Raw, WellFormed(m),
         NEW completion \in {"terminal", "transient", "ambiguous"}
  PROVE  Grows(m, Completed(m, v, b, completion))
  <1> DEFINE n == Completed(m, v, b, completion)
  <1>1. CASE n = m
    BY <1>1, GrowsSame
  <1>2. CASE n # m
    <2>1. /\ m.susp[v] = b /\ b # NoHandle /\ m.v2b[v] = NoHandle
          /\ n = Remove(m, v) \/ (n = Reactivate(m, v, b) /\ CanReactivate(m, v, b))
      <3>1. m.susp[v] = b /\ n \in {Remove(m, v), Reactivate(m, v, b)}
        BY <1>2 DEF Completed, SuspendedBackend
      <3>2. b # NoHandle /\ m.v2b[v] = NoHandle
        BY <3>1, HandleAssumption DEF WellFormed, Exclusive
      <3>3. n = Reactivate(m, v, b) => CanReactivate(m, v, b)
        BY <1>2 DEF Reactivate
      <3>4. QED BY <3>1, <3>2, <3>3
    <2>2. /\ n.next = m.next
          /\ \A w \in Virtual \ {v} : n.v2b[w] = m.v2b[w] /\ n.susp[w] = m.susp[w]
      BY <2>1, RemoveEntries, ReactivateEntries
    <2> HIDE DEF n
    <2>3. m.next \in Nat
      BY HandleAssumption DEF Map
    <2>4. \A w \in Virtual : ProvenGone(m, w) => w # v
      BY <2>1 DEF ProvenGone, SuspendedBackend
    <2>5. \A w \in Virtual : ProvenGone(m, w) => ProvenGone(n, w)
      BY <2>2, <2>4 DEF ProvenGone, Resolve, SuspendedBackend
    <2>6. Grows(m, n)
      BY <2>2, <2>3, <2>5 DEF Grows
    <2>7. QED BY <2>6 DEF n
  <1>3. QED BY <1>1, <1>2

\* What one step may do to a context: give it life, change its map while it
\* lives, remove it, or take its sessions for the teardown.
Moves(c) ==
  \/ /\ status[c] = "fresh" /\ status'[c] = "live"
     /\ maps'[c] = maps[c] /\ born'[c] = born[c]
  \/ /\ status'[c] = status[c] /\ maps'[c] = maps[c] /\ born'[c] = born[c]
  \/ /\ status[c] = "live" /\ status'[c] = "live" /\ Grows(maps[c], maps'[c])
     /\ maps'[c].next \in Nat
     /\ \A v \in Virtual : born'[c][v] # born[c][v] => v < maps'[c].next
  \/ /\ status[c] = "live" /\ status'[c] = "removed"
     /\ maps'[c] = maps[c] /\ born'[c] = born[c]
  \/ status[c] = "removed" /\ status'[c] = "departed" /\ maps'[c] = EmptyMap

\* The settlement of a close, also one whose transition was dropped, moves its
\* context while it lives.
LEMMA CompleteMoves ==
  ASSUME IInv, NEW t \in closes, NEW completion \in {"terminal", "transient", "ambiguous"},
         Complete(t, completion), UNCHANGED <<status, born>>, NEW c \in Contexts, TypeOK'
  PROVE  Moves(c)
  <1>0. TypeOK
    BY DEF IInv
  <1>1. t.ctx \in Contexts /\ t.virt \in Virtual /\ t.raw \in Raw /\ maps[t.ctx] \in Map
        /\ WellFormed(maps[t.ctx])
    BY <1>0, Fields DEF IInv, MapsWellFormed
  <1>2. CASE c = t.ctx /\ c \in Live
    <2>1. maps'[c] = Completed(maps[c], t.virt, t.raw, completion)
      BY <1>0, <1>1, <1>2 DEF Complete, TypeOK
    <2>2. Grows(maps[c], maps'[c])
      BY <1>1, <1>2, <2>1, CompletedGrows
    <2>3. maps'[c].next \in Nat
      BY HandleAssumption DEF TypeOK, Map
    <2>4. QED BY <1>2, <2>2, <2>3 DEF Moves, Live
  <1>3. CASE ~(c = t.ctx /\ c \in Live)
    <2>1. maps'[c] = maps[c]
      BY <1>0, <1>1, <1>3 DEF Complete, TypeOK
    <2>2. QED BY <2>1 DEF Moves
  <1>4. QED BY <1>2, <1>3

\* Every step moves every context in one of these ways.
LEMMA StepMoves ==
  ASSUME IInv, [Next]_vars, NEW c \in Contexts
  PROVE  Moves(c)
  <1>0. TypeOK /\ TypeOK'
    BY StepIInv DEF IInv
  <1>a. maps'[c] \in Map /\ maps'[c].next \in Nat
    BY <1>0, HandleAssumption DEF TypeOK, Map
  <1>1. ASSUME NEW d \in Contexts, CreateContext(d) PROVE Moves(c)
    BY <1>0, <1>1 DEF CreateContext, Moves, TypeOK
  <1>2. ASSUME NEW d \in Contexts, OpenSession(d) PROVE Moves(c)
    BY <1>2 DEF OpenSession, Moves
  <1>3. ASSUME NEW d \in Contexts, RemoveContext(d) PROVE Moves(c)
    BY <1>0, <1>3 DEF RemoveContext, Moves, TypeOK, Live
  <1>4. ASSUME NEW d \in Contexts, PlanTeardown(d) PROVE Moves(c)
    BY <1>0, <1>4 DEF PlanTeardown, Moves, TypeOK
  <1>5. ASSUME NEW d \in Contexts, NEW v \in Virtual, BeginClose(d, v) PROVE Moves(c)
    <2>1. CASE c = d
      <3>1. /\ maps'[c] = Suspend(maps[c], v) /\ maps[c] \in Map /\ Resolve(maps[c], v) # NoHandle
            /\ status[c] = "live" /\ UNCHANGED <<status, born>>
        BY <1>0, <1>5, <2>1 DEF BeginClose, TypeOK, Live
      <3>2. Grows(maps[c], maps'[c])
        BY <3>1, SuspendGrows
      <3>3. QED BY <1>a, <3>1, <3>2 DEF Moves
    <2>2. CASE c # d
      BY <1>0, <1>5, <2>2 DEF BeginClose, Moves, TypeOK
    <2>3. QED BY <2>1, <2>2
  <1>6. ASSUME NEW o \in opens, OpenReturns(o) \/ LeaveOpen(o) \/ SettleLateOpen(o) PROVE Moves(c)
    BY <1>6 DEF OpenReturns, LeaveOpen, SettleLateOpen, Moves
  <1>7. ASSUME NEW o \in opens, RegisterSession(o) PROVE Moves(c)
    <2>1. CASE c = o.ctx /\ c \in Live
      <3>1. PICK w \in Virtual : w = Inserted(maps[c], o.raw)
        BY <1>7, <2>1 DEF RegisterSession
      <3>2. /\ maps'[c] = Insert(maps[c], o.raw) /\ maps[c] \in Map /\ WellFormed(maps[c])
            /\ status[c] = "live" /\ UNCHANGED status /\ o.raw \in Raw
            /\ born' = [born EXCEPT ![c][w] = o.serial]
        BY <1>0, <1>7, <2>1, <3>1, Fields DEF RegisterSession, TypeOK, Live, IInv, MapsWellFormed
      <3>3. Grows(maps[c], maps'[c]) /\ w < maps'[c].next
        BY <3>1, <3>2, InsertGrows
      <3>4. \A v \in Virtual : v # w => born'[c][v] = born[c][v]
        BY <1>0, <3>2 DEF TypeOK
      <3>5. QED BY <1>a, <3>2, <3>3, <3>4 DEF Moves
    <2>2. CASE ~(c = o.ctx /\ c \in Live)
      BY <1>0, <1>7, <2>2 DEF RegisterSession, Moves, TypeOK
    <2>3. QED BY <2>1, <2>2
  <1>8. ASSUME NEW t \in closes, CloseReturns(t) PROVE Moves(c)
    BY <1>8 DEF CloseReturns, Moves
  <1>9. ASSUME NEW t \in closes, SettleClose(t) PROVE Moves(c)
    <2>1. Completion(t.rv) \in {"terminal", "transient", "ambiguous"}
      BY <1>0, <1>9 DEF SettleClose, Completion, CloseRv, TypeOK
    <2>2. QED BY <1>0, <1>9, <2>1, CompleteMoves DEF SettleClose
  <1>10. ASSUME NEW t \in closes, DropUnstartedClose(t) PROVE Moves(c)
    BY <1>0, <1>10, CompleteMoves DEF DropUnstartedClose
  <1>11. ASSUME NEW t \in closes, DropStartedClose(t) PROVE Moves(c)
    BY <1>0, <1>11, CompleteMoves DEF DropStartedClose
  <1>12. ASSUME NEW r \in reaping, ReapSession(r) PROVE Moves(c)
    BY <1>12 DEF ReapSession, Moves
  <1>13. CASE UNCHANGED vars
    BY <1>13 DEF vars, Moves
  <1>14. QED
    BY <1>1, <1>2, <1>3, <1>4, <1>5, <1>6, <1>7, <1>8, <1>9, <1>10, <1>11, <1>12, <1>13 DEF Next

\* A context that has not begun or has departed keeps nothing, and ids in use
\* were allocated, after every step.
LEMMA StatusStep ==
  ASSUME IInv, StatusOK, [Next]_vars
  PROVE  StatusOK'
  <1>0. \A c \in Contexts : Moves(c)
    BY StepMoves
  <1>1. ASSUME NEW c \in Contexts, status'[c] \in {"fresh", "departed"} PROVE maps'[c] = EmptyMap
    BY <1>0, <1>1 DEF Moves, StatusOK
  <1>2. ASSUME NEW c \in Contexts, NEW v \in Virtual, status'[c] = "fresh" PROVE born'[c][v] = 0
    <2>1. status[c] = "fresh" /\ born'[c] = born[c]
      BY <1>0, <1>2 DEF Moves
    <2>2. QED BY <2>1 DEF StatusOK
  <1>3. ASSUME NEW c \in Contexts, NEW v \in Virtual, status'[c] = "live", born'[c][v] # 0
        PROVE  v < maps'[c].next
    <2>1. CASE status[c] = "fresh"
      BY <1>0, <1>3, <2>1 DEF Moves, StatusOK
    <2>2. CASE status[c] = "live" /\ maps'[c] = maps[c] /\ born'[c] = born[c]
      BY <1>3, <2>2 DEF StatusOK, Live
    <2>3. CASE /\ status[c] = "live" /\ Grows(maps[c], maps'[c]) /\ maps'[c].next \in Nat
               /\ \A w \in Virtual : born'[c][w] # born[c][w] => w < maps'[c].next
      <3>1. CASE born'[c][v] # born[c][v]
        BY <2>3, <3>1
      <3>2. CASE born'[c][v] = born[c][v]
        <4>1. v < maps[c].next /\ maps[c].next <= maps'[c].next
          BY <1>3, <2>3, <3>2 DEF StatusOK, Live, Grows
        <4>2. v \in Nat /\ maps[c].next \in Nat
          BY HandleAssumption DEF Virtual, IInv, TypeOK, Map
        <4>3. QED BY <2>3, <4>1, <4>2
      <3>3. QED BY <3>1, <3>2
    <2>4. QED BY <1>0, <1>3, <2>1, <2>2, <2>3 DEF Moves
  <1>4. QED BY <1>1, <1>2, <1>3 DEF StatusOK, Live

\* At the start no context has a session.
LEMMA StatusInit == Init => StatusOK
  BY DEF Init, StatusOK, Live

\* A verdict that a handle is gone is final: no late or stale completion, and no
\* later registration, makes it resolvable again.  It holds with every provider
\* (close_session, close_all_sessions).
THEOREM GoneStaysGone == Spec => GoneIsStable
  <1> DEFINE A == \A c \in Live, v \in Virtual :
                    born[c][v] # 0 /\ ProvenGone(maps[c], v) => ProvenGone(maps'[c], v)
  <1>1. Init => IInv /\ StatusOK
    BY InitIInv, StatusInit
  <1>2. IInv /\ StatusOK /\ [Next]_vars => IInv' /\ StatusOK'
    BY StepIInv, StatusStep
  <1>3. IInv /\ StatusOK /\ [Next]_vars => [A]_vars
    <2> SUFFICES ASSUME IInv, StatusOK, [Next]_vars, NEW c \in Live, NEW v \in Virtual,
                        born[c][v] # 0, ProvenGone(maps[c], v)
                 PROVE  ProvenGone(maps'[c], v)
      OBVIOUS
    <2>1. c \in Contexts /\ status[c] = "live" /\ v < maps[c].next
      BY DEF Live, StatusOK
    <2>2. Moves(c)
      BY <2>1, StepMoves
    <2>3. maps'[c] = maps[c] \/ Grows(maps[c], maps'[c])
      BY <2>1, <2>2 DEF Moves
    <2>4. QED BY <2>1, <2>3 DEF Grows
  <1> HIDE DEF A
  <1>4. Spec => [][A]_vars
    BY <1>1, <1>2, <1>3, PTL DEF Spec
  <1>5. QED BY <1>4 DEF GoneIsStable, A

-----------------------------------------------------------------------------
(* Ownership *)

\* A recycling provider says truthfully whether a close has closed.
Truthful == \A p \in Providers : ~(p.recycles /\ p.mayClose)

\* At the start there is nothing to own.
LEMMA OwnInit == ASSUME Truthful PROVE Init => OwnInv
  <1> SUFFICES ASSUME Init PROVE OwnInv
    OBVIOUS
  <1>1. IInv /\ StatusOK /\ Exact
    BY InitIInv, StatusInit DEF Init, Exact, Truthful
  <1>2. \A c \in Contexts : /\ \A v \in Virtual : maps[c].v2b[v] = NoHandle /\ maps[c].susp[v] = NoHandle
                            /\ \A v \in Virtual, b \in Raw : ~Held(c, v, b)
    BY EmptyHolds DEF Init
  <1>3. /\ opens = {} /\ closes = {} /\ reaping = {} /\ \A b \in Raw : native[b] = 0
    BY DEF Init
  <1>4. TokenOK /\ SessionOK /\ SparedOK /\ KeptOK
    BY <1>2, <1>3 DEF TokenOK, SessionOK, SparedOK, KeptOK
  <1>5. UsedOK /\ UniqueOK
    BY <1>2, <1>3 DEF UsedOK, UniqueOK, Claim
  <1>6. QED BY <1>1, <1>4, <1>5 DEF OwnInv, Owned

\* The owner of every session, after every step.
LEMMA OwnStep == OwnInv /\ [Next]_vars => OwnInv'
  <1> SUFFICES ASSUME OwnInv, [Next]_vars PROVE OwnInv'
    OBVIOUS
  <1>0. UNCHANGED provider
    BY DEF Next, vars
  <1>a. IInv' /\ StatusOK' /\ Exact' /\ TypeOK' /\ TypeOK
    BY <1>0, StepIInv, StatusStep DEF OwnInv, IInv, Exact
  <1>b. SUFFICES Owned'
    BY <1>a DEF OwnInv
  <1>1. ASSUME NEW c \in Contexts, CreateContext(c) PROVE Owned'
    BY <1>0, <1>1, CreateOwned
  <1>2. ASSUME NEW c \in Contexts, OpenSession(c) PROVE Owned'
    BY <1>0, <1>2, OpenOwned
  <1>3. ASSUME NEW c \in Contexts, RemoveContext(c) PROVE Owned'
    BY <1>0, <1>3, RemoveOwned
  <1>4. ASSUME NEW c \in Contexts, PlanTeardown(c) PROVE Owned'
    BY <1>0, <1>4, PlanOwned
  <1>5. ASSUME NEW c \in Contexts, NEW v \in Virtual, BeginClose(c, v) PROVE Owned'
    BY <1>0, <1>a, <1>5, BeginOwned
  <1>6. ASSUME NEW o \in opens, OpenReturns(o) PROVE Owned'
    BY <1>0, <1>6, ReturnsOwned
  <1>7. ASSUME NEW o \in opens, LeaveOpen(o) PROVE Owned'
    BY <1>0, <1>7, LeaveOwned
  <1>8. ASSUME NEW o \in opens, RegisterSession(o) PROVE Owned'
    <2>1. CASE o.ctx \in Live
      BY <1>0, <1>a, <1>8, <2>1, RegisterOwned
    <2>2. CASE o.ctx \notin Live
      <3>1. /\ UNCHANGED <<provider, status, maps, used, closes, reaping, born>>
            /\ o.raw # NoHandle /\ opens' = opens \ {o} /\ CloseBestEffort(o.raw)
        BY <1>0, <1>8, <2>2 DEF RegisterSession
      <3>2. QED BY <3>1, DropOpenOwned
    <2>3. QED BY <2>1, <2>2
  <1>9. ASSUME NEW o \in opens, SettleLateOpen(o) PROVE Owned'
    <2>1. /\ UNCHANGED <<provider, status, maps, used, closes, reaping, born>>
          /\ o.raw # NoHandle /\ opens' = opens \ {o} /\ CloseBestEffort(o.raw)
      BY <1>0, <1>9 DEF SettleLateOpen
    <2>2. QED BY <2>1, DropOpenOwned
  <1>10. ASSUME NEW t \in closes, CloseReturns(t) PROVE Owned'
    BY <1>0, <1>a, <1>10, AnswerOwned
  <1>11. ASSUME NEW t \in closes, SettleClose(t) PROVE Owned'
    <2>1. /\ t.rv \in CloseRv \ {"pending"} /\ Complete(t, Completion(t.rv))
          /\ UNCHANGED <<provider, status, native, used, opened, opens, reaping, born, orphans>>
      BY <1>0, <1>a, <1>11, Fields DEF SettleClose
    <2>2. /\ Completion(t.rv) \in {"terminal", "transient", "ambiguous"}
          /\ Completion(t.rv) = "terminal" <=> t.rv \in {"ok", "gone"}
          /\ Completion(t.rv) = "transient" => t.rv \in {"pending", "error"}
      BY <2>1 DEF Completion, CloseRv
    <2>3. PICK x \in {"terminal", "transient", "ambiguous"} : x = Completion(t.rv)
      BY <2>2
    <2>4. QED BY <1>a, <2>1, <2>2, <2>3, CompleteOwned
  <1>12. ASSUME NEW t \in closes, DropUnstartedClose(t) PROVE Owned'
    <2>1. /\ t.rv = "pending" /\ Complete(t, "transient")
          /\ UNCHANGED <<provider, status, native, used, opened, opens, reaping, born, orphans>>
      BY <1>0, <1>12 DEF DropUnstartedClose
    <2>2. QED BY <1>a, <2>1, CompleteOwned
  <1>13. ASSUME NEW t \in closes, DropStartedClose(t) PROVE Owned'
    <2>1. /\ t.rv = "pending" /\ Complete(t, "ambiguous")
          /\ native' = native \/ (native' = Closed(t.raw) /\ ~provider.recycles)
          /\ UNCHANGED <<provider, status, used, opened, opens, reaping, born, orphans>>
      BY <1>0, <1>13 DEF DropStartedClose, OwnInv, Exact
    <2>2. QED BY <1>a, <2>1, CompleteOwned
  <1>14. ASSUME NEW r \in reaping, ReapSession(r) PROVE Owned'
    BY <1>0, <1>14, ReapOwned
  <1>15. CASE UNCHANGED vars
    <2>1. UNCHANGED <<provider, status, maps, native, used, opens, closes, reaping, born, orphans>>
      BY <1>15 DEF vars
    <2>2. QED BY <2>1, OpensShift DEF OwnInv, Owned, UniqueOK
  <1>16. QED
    BY <1>1, <1>2, <1>3, <1>4, <1>5, <1>6, <1>7, <1>8, <1>9, <1>10, <1>11, <1>12, <1>13,
       <1>14, <1>15 DEF Next

\* A handle that a live client resolves names the very native session it was
\* created for, still open, although raw handles are recycled, closes are
\* answered late and teardowns of other clients run (register_session,
\* complete_close_session, plan_removed_context_teardown).
THEOREM HandlesNameTheirSessions == ASSUME Truthful PROVE Spec => []HandleNamesItsSession
  <1>1. OwnInv => HandleNamesItsSession
    BY DEF OwnInv, Owned, SessionOK, HandleNamesItsSession, Resolve, Live
  <1>2. QED BY <1>1, OwnInit, OwnStep, PTL DEF Spec

\* Every open native session has an owner that will close it, or had its
\* cleanup close fail (MintCompletionOwner, close transitions, teardown plans).
THEOREM NothingForgotten == ASSUME Truthful PROVE Spec => []NoSessionForgotten
  <1>1. OwnInv => NoSessionForgotten
    <2> SUFFICES ASSUME OwnInv, NEW b \in Raw, native[b] # 0, ~provider.recycles
                 PROVE  \/ native[b] \in orphans
                        \/ \E o \in opens : o.raw = b /\ o.serial = native[b]
                        \/ \E r \in reaping : r.raw = b
                        \/ \E c \in Contexts, v \in Virtual :
                             /\ b \in {Resolve(maps[c], v), SuspendedBackend(maps[c], v)}
                             /\ born[c][v] = native[b]
      BY DEF NoSessionForgotten
    <2>1. \A c \in Contexts, v \in Virtual :
            Held(c, v, b) => b \in {Resolve(maps[c], v), SuspendedBackend(maps[c], v)}
      BY DEF Held, Resolve, SuspendedBackend
    <2>2. QED BY <2>1 DEF OwnInv, Owned, KeptOK
  <1>2. QED BY <1>1, OwnInit, OwnStep, PTL DEF Spec

\* A teardown never closes a raw handle that a live client still references, not
\* even one that was recycled for that client after the plan was made
\* (references_backend, the teardown refcount check).
THEOREM TeardownSparesTheLiving == ASSUME Truthful PROVE Spec => TeardownSparesLive
  <1> DEFINE A == \A r \in reaping : r \notin reaping' =>
                    \A c \in Live : r.raw \notin BackendHandles(maps[c])
  <1>1. OwnInv /\ [Next]_vars => [A]_vars
    BY DEF OwnInv, Owned, SparedOK, Held, BackendHandles
  <1> HIDE DEF A
  <1>2. Spec => [][A]_vars
    BY <1>1, OwnInit, OwnStep, PTL DEF Spec
  <1>3. QED BY <1>2 DEF TeardownSparesLive, A

=============================================================================
