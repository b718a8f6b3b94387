---------------------------- MODULE ContextLease ----------------------------
(***************************************************************************)
(* Which logical clients the daemon keeps: admission at the context cap    *)
(* (create_context_replacing_idle_same_identity_on_connection), the        *)
(* in-flight guards of requests, the lease reaper, Finalize, and the       *)
(* transport liveness they all go by (connection_state.rs).  One step is   *)
(* one critical section: a shard lock of a table, or an access to an       *)
(* atomic.  Connections of one peer (a process on a Unix socket) share a   *)
(* group.                                                                  *)
(***************************************************************************)
EXTENDS Naturals, Sequences, FiniteSets

CONSTANTS Conns,        \* transport connections
          Peer,         \* Conns -> peer key
          Identity,     \* peer key -> authenticated identity
          Contexts,     \* client context ids (UUIDs, never reused)
          Tasks,        \* request handlers
          MaxContexts,  \* max_contexts
          MaxInFlight,  \* per_context_max_in_flight
          None          \* no context, no connection, no task

Peers == {Peer[k] : k \in Conns}

Identities == {Identity[p] : p \in Peers}

ASSUME LeaseAssumption ==
  /\ Peer \in [Conns -> Peers] /\ Identity \in [Peers -> Identities]
  /\ IsFiniteSet(Contexts)
  /\ MaxContexts \in Nat \ {0} /\ MaxInFlight \in Nat \ {0}
  /\ None \notin Contexts \cup Conns \cup Tasks

VARIABLES conn,      \* Conns -> where the stream is in its life
          groupOf,   \* Conns -> its group, 0 before it is accepted
          groups,    \* every ConnectionState ever made
          byPeer,    \* ConnectionRegistry: Peers -> group, 0 for no entry
          ctx,       \* Contexts -> the LogicalClientInstance
          inFlight,  \* Contexts -> its in-flight counter
          admission, \* owner of the admission mutex
          task,      \* Tasks -> what the handler is doing
          carried    \* Contexts -> connections that carried its requests

vars == <<conn, groupOf, groups, byPeer, ctx, inFlight, admission, task, carried>>

GroupIds == 1 .. Len(groups)

Idle == [pc |-> "idle", kind |-> "op", ctx |-> None, conn |-> None, g |-> 0, cands |-> {}]

\* bound tells a context that was bound to a connection, whatever became of it.
Absent == [st |-> "unused", who |-> None, bound |-> FALSE, gs |-> {}, lease |-> "held", sess |-> FALSE]

\* held: used within the lease; idle: not; aged: idle and older than max_context_lifetime.
Lease == {"held", "idle", "aged"}

PC == {"idle", "lookup", "lock", "evict", "replace", "insert", "bind", "begin", "run", "drop"}

GroupType == [live : Nat, closed : BOOLEAN]

CtxType == [st : {"unused", "live", "gone"}, who : Identities \cup {None}, bound : BOOLEAN,
            gs : SUBSET GroupIds, lease : Lease, sess : BOOLEAN]

TaskType == [pc : PC, kind : {"init", "op", "finalize"}, ctx : Contexts \cup {None},
             conn : Conns \cup {None}, g : 0 .. Len(groups), cands : SUBSET Contexts]

TypeOK ==
  /\ conn \in [Conns -> {"new", "open", "last", "closed"}]
  /\ groupOf \in [Conns -> 0 .. Len(groups)]
  /\ groups \in Seq(GroupType)
  /\ byPeer \in [Peers -> 0 .. Len(groups)]
  /\ ctx \in [Contexts -> CtxType]
  /\ inFlight \in [Contexts -> 0 .. MaxInFlight]
  /\ admission \in Tasks \cup {None}
  /\ task \in [Tasks -> TaskType]
  /\ carried \in [Contexts -> SUBSET Conns]

Init ==
  /\ conn = [k \in Conns |-> "new"]
  /\ groupOf = [k \in Conns |-> 0]
  /\ groups = <<>>
  /\ byPeer = [p \in Peers |-> 0]
  /\ ctx = [c \in Contexts |-> Absent]
  /\ inFlight = [c \in Contexts |-> 0]
  /\ admission = None
  /\ task = [t \in Tasks |-> Idle]
  /\ carried = [c \in Contexts |-> {}]

-----------------------------------------------------------------------------
At(t, pc) == task[t].pc = pc

Go(t, pc) == task' = [task EXCEPT ![t].pc = pc]

Finish(t) == task' = [task EXCEPT ![t] = Idle]

Live == {c \in Contexts : ctx[c].st = "live"}

Gone(c) ==
  /\ ctx' = [ctx EXCEPT ![c] = [Absent EXCEPT !.st = "gone"]]
  /\ carried' = [carried EXCEPT ![c] = {}]

Full == Cardinality(Live) >= MaxContexts

LiveGroups(c) == {g \in ctx[c].gs : ~groups[g].closed}

TransportDead(c) == ctx[c].bound /\ LiveGroups(c) = {}

LeaseOver(c) == IF ctx[c].sess THEN ctx[c].lease = "aged" ELSE ctx[c].lease # "held"

\* Group g carried the new Initialize; 0 is a request without a connection.
SameConnection(c, g) ==
  IF g = 0 THEN ~ctx[c].bound ELSE ~groups[g].closed /\ g \in LiveGroups(c)

\* Mutant: a request in progress does not keep its context.
ReapableBusy(c) ==
  /\ ctx[c].st = "live"
  /\ TransportDead(c) \/ LeaseOver(c)

Reapable(c) ==
  /\ ctx[c].st = "live"
  /\ inFlight[c] = 0
  /\ TransportDead(c) \/ LeaseOver(c)

-----------------------------------------------------------------------------
(* Connections *)

\* Mutant: the stream that joins is counted twice.
AcceptTwice(k) ==
  LET p == Peer[k] IN
  /\ conn[k] = "new"
  /\ conn' = [conn EXCEPT ![k] = "open"]
  /\ IF byPeer[p] # 0
     THEN /\ groups' = [groups EXCEPT ![byPeer[p]].live = @ + 2]
          /\ groupOf' = [groupOf EXCEPT ![k] = byPeer[p]]
          /\ UNCHANGED byPeer
     ELSE /\ groups' = Append(groups, [live |-> 1, closed |-> FALSE])
          /\ groupOf' = [groupOf EXCEPT ![k] = Len(groups')]
          /\ byPeer' = [byPeer EXCEPT ![p] = Len(groups')]
  /\ UNCHANGED <<ctx, inFlight, admission, task, carried>>

\* register: the stream joins its peer's group or makes one.
Accept(k) ==
  LET p == Peer[k] IN
  /\ conn[k] = "new"
  /\ conn' = [conn EXCEPT ![k] = "open"]
  /\ IF byPeer[p] # 0
     THEN /\ groups' = [groups EXCEPT ![byPeer[p]].live = @ + 1]
          /\ groupOf' = [groupOf EXCEPT ![k] = byPeer[p]]
          /\ UNCHANGED byPeer
     ELSE /\ groups' = Append(groups, [live |-> 1, closed |-> FALSE])
          /\ groupOf' = [groupOf EXCEPT ![k] = Len(groups')]
          /\ byPeer' = [byPeer EXCEPT ![p] = Len(groups')]
  /\ UNCHANGED <<ctx, inFlight, admission, task, carried>>

\* unregister: only a release that names the registered group counts.
Leave(k) ==
  LET g == groupOf[k] IN
  /\ conn[k] = "open"
  /\ IF byPeer[Peer[k]] = g
     THEN /\ groups' = [groups EXCEPT ![g].live = @ - 1]
          /\ conn' = [conn EXCEPT ![k] = IF groups[g].live = 1 THEN "last" ELSE "closed"]
     ELSE /\ conn' = [conn EXCEPT ![k] = "closed"]
          /\ UNCHANGED groups
  /\ UNCHANGED <<groupOf, byPeer, ctx, inFlight, admission, task, carried>>

\* Mutant: the last one out removes the group without looking again.
RemoveGroupBlind(k) ==
  /\ conn[k] = "last"
  /\ byPeer' = [byPeer EXCEPT ![Peer[k]] = 0]
  /\ groups' = [groups EXCEPT ![groupOf[k]].closed = TRUE]
  /\ conn' = [conn EXCEPT ![k] = "closed"]
  /\ UNCHANGED <<groupOf, ctx, inFlight, admission, task, carried>>

\* remove_if, then mark_closed: a connection that joined meanwhile keeps the group.
RemoveGroup(k) ==
  LET g == groupOf[k]
      mine == byPeer[Peer[k]] = g /\ groups[g].live = 0 IN
  /\ conn[k] = "last"
  /\ byPeer' = IF mine THEN [byPeer EXCEPT ![Peer[k]] = 0] ELSE byPeer
  /\ groups' = IF mine THEN [groups EXCEPT ![g].closed = TRUE] ELSE groups
  /\ conn' = [conn EXCEPT ![k] = "closed"]
  /\ UNCHANGED <<groupOf, ctx, inFlight, admission, task, carried>>

-----------------------------------------------------------------------------
(* Requests *)

\* A request arrives on an open connection.
Arrive(t, k, kind, c) ==
  /\ At(t, "idle") /\ conn[k] = "open"
  /\ task' = [task EXCEPT ![t] = [Idle EXCEPT !.pc = IF kind = "init" THEN "lookup" ELSE "bind",
                                              !.kind = kind, !.ctx = c, !.conn = k]]
  /\ UNCHANGED <<conn, groupOf, groups, byPeer, ctx, inFlight, admission, carried>>

\* The guard on the unused ids is the bound on Initialize requests.
ArriveInit(t, k) ==
  /\ Cardinality({u \in Tasks : task[u].kind = "init"}) < Cardinality({c \in Contexts : ctx[c].st = "unused"})
  /\ Arrive(t, k, "init", None)

\* enforce_context_owner passed: the identity of the connection owns c.
ArriveOp(t, k, c, kind) ==
  /\ c \in Live /\ ctx[c].who = Identity[Peer[k]]
  /\ Arrive(t, k, kind, c)

-----------------------------------------------------------------------------
(* Initialize *)

\* connection_state_for_request: the group registered for the peer by now;
\* the connection that carried the request may be gone.
InitLookup(t) ==
  /\ At(t, "lookup")
  /\ task' = [task EXCEPT ![t].pc = "lock", ![t].g = byPeer[Peer[task[t].conn]]]
  /\ UNCHANGED <<conn, groupOf, groups, byPeer, ctx, inFlight, admission, carried>>

\* The new context, bound to the connection that was looked up.
Insert(t, c, g) ==
  /\ ctx[c].st = "unused"
  /\ ctx' = [ctx EXCEPT ![c] = [Absent EXCEPT !.st = "live", !.who = Identity[Peer[task[t].conn]],
                                              !.bound = g # 0, !.gs = {g} \ {0}]]
  /\ carried' = [carried EXCEPT ![c] = {task[t].conn}]

\* Mutant: the cap is checked without the admission mutex.
InitLockFree(t) ==
  /\ At(t, "lock")
  /\ IF Full
     THEN task' = [task EXCEPT ![t].pc = "evict",
                               ![t].cands = {c \in Live : Reapable(c) /\ ~ctx[c].sess}]
     ELSE Go(t, "insert")
  /\ UNCHANGED <<conn, groupOf, groups, byPeer, ctx, inFlight, admission, carried>>

\* The admission mutex and the first check of the cap.
InitLock(t) ==
  /\ At(t, "lock") /\ admission = None
  /\ admission' = t
  /\ IF Full
     THEN task' = [task EXCEPT ![t].pc = "evict",
                               ![t].cands = {c \in Live : Reapable(c) /\ ~ctx[c].sess}]
     ELSE Go(t, "insert")
  /\ UNCHANGED <<conn, groupOf, groups, byPeer, ctx, inFlight, carried>>

\* evict_expired_sessionless_for_admission: each candidate is checked again.
InitEvict(t) ==
  /\ At(t, "evict")
  /\ \E c \in task[t].cands :
       /\ task' = [task EXCEPT ![t].cands = @ \ {c}]
       /\ IF Reapable(c) /\ ~ctx[c].sess THEN Gone(c) ELSE UNCHANGED <<ctx, carried>>
  /\ UNCHANGED <<conn, groupOf, groups, byPeer, inFlight, admission>>

\* Still full: the contexts of the same identity are candidates.
InitRecheck(t) ==
  /\ At(t, "evict") /\ task[t].cands = {}
  /\ IF Full
     THEN task' = [task EXCEPT ![t].pc = "replace",
                     ![t].cands = {c \in Live : ctx[c].who = Identity[Peer[task[t].conn]]}]
     ELSE Go(t, "insert")
  /\ UNCHANGED <<conn, groupOf, groups, byPeer, ctx, inFlight, admission, carried>>

\* Mutant: same identity and idle is enough.
ReplaceableByIdentity(t, c) == ctx[c].st = "live" /\ inFlight[c] = 0

\* remove_context_if_replaceable.
Replaceable(t, c) ==
  /\ ctx[c].st = "live" /\ inFlight[c] = 0
  /\ TransportDead(c) \/ SameConnection(c, task[t].g)

\* One candidate; a replaced context frees the slot.
InitReplace(t) ==
  /\ At(t, "replace")
  /\ \E c \in task[t].cands :
       IF Replaceable(t, c)
       THEN Gone(c) /\ task' = [task EXCEPT ![t].pc = "insert", ![t].cands = {}]
       ELSE UNCHANGED <<ctx, carried>> /\ task' = [task EXCEPT ![t].cands = @ \ {c}]
  /\ UNCHANGED <<conn, groupOf, groups, byPeer, inFlight, admission>>

\* No candidate was replaceable: refused, unless a removal made room.
InitDecide(t) ==
  /\ At(t, "replace") /\ task[t].cands = {}
  /\ IF Full THEN Finish(t) /\ admission' = None
             ELSE Go(t, "insert") /\ UNCHANGED admission
  /\ UNCHANGED <<conn, groupOf, groups, byPeer, ctx, inFlight, carried>>

InitInsert(t) ==
  /\ At(t, "insert")
  /\ \E c \in Contexts : Insert(t, c, task[t].g)
  /\ admission' = None
  /\ Finish(t)
  /\ UNCHANGED <<conn, groupOf, groups, byPeer, inFlight>>

-----------------------------------------------------------------------------
(* Operations and Finalize *)

\* check_context_owner: the peer's group, if it is live, joins the binding set.
\* On a missing context this and begin_operation_capped do nothing.
Bind(t) ==
  LET c == task[t].ctx
      g == byPeer[Peer[task[t].conn]] IN
  /\ At(t, "bind")
  /\ IF c \in Live /\ g # 0 /\ ~groups[g].closed
     THEN /\ ctx' = [ctx EXCEPT ![c].bound = TRUE, ![c].gs = LiveGroups(c) \cup {g}]
          /\ carried' = [carried EXCEPT ![c] = @ \cup {task[t].conn}]
     ELSE UNCHANGED <<ctx, carried>>
  /\ IF c \in Live
     THEN task' = [task EXCEPT ![t] = [Idle EXCEPT !.pc = "begin", !.kind = task[t].kind, !.ctx = c]]
     ELSE Finish(t)
  /\ UNCHANGED <<conn, groupOf, groups, byPeer, inFlight, admission>>

\* begin_operation_capped: a missing context, or one at its cap, ends the request.
Begin(t) ==
  LET c == task[t].ctx IN
  /\ At(t, "begin")
  /\ IF c \in Live /\ inFlight[c] < MaxInFlight
     THEN inFlight' = [inFlight EXCEPT ![c] = @ + 1] /\ Go(t, "run")
     ELSE UNCHANGED inFlight /\ Finish(t)
  /\ UNCHANGED <<conn, groupOf, groups, byPeer, ctx, admission, carried>>

\* remove_context_if_idle: only the guard of this request may be out.
Finalize(t) ==
  LET c == task[t].ctx IN
  /\ At(t, "run") /\ task[t].kind = "finalize"
  /\ IF c \in Live /\ inFlight[c] <= 1 THEN Gone(c) ELSE UNCHANGED <<ctx, carried>>
  /\ Go(t, "drop")
  /\ UNCHANGED <<conn, groupOf, groups, byPeer, inFlight, admission>>

\* OperationGuardInner::drop: the lease is renewed and the count given back
\* under one shard lock.  The handler has left the context with or without
\* open sessions; until the count is back nothing looks at them.
EndOp(t) ==
  LET c == task[t].ctx IN
  /\ At(t, "drop") \/ (At(t, "run") /\ task[t].kind = "op")
  /\ inFlight' = [inFlight EXCEPT ![c] = @ - 1]
  /\ \E sess \in BOOLEAN :
       ctx' = IF c \in Live THEN [ctx EXCEPT ![c].lease = "held", ![c].sess = sess] ELSE ctx
  /\ Finish(t)
  /\ UNCHANGED <<conn, groupOf, groups, byPeer, admission, carried>>

-----------------------------------------------------------------------------
(* Time and the reaper *)

\* Time passes: the lease runs out, then the absolute lifetime.
LeaseExpires(c) ==
  /\ c \in Live /\ ctx[c].lease # "aged"
  /\ ctx' = [ctx EXCEPT ![c].lease = IF @ = "held" THEN "idle" ELSE "aged"]
  /\ UNCHANGED <<conn, groupOf, groups, byPeer, inFlight, admission, task, carried>>

\* One context of an evict_expired sweep.  The sweep's list of candidates is
\* only a filter: remove_if decides under the shard lock.
Reap(c) ==
  /\ Reapable(c)
  /\ Gone(c)
  /\ UNCHANGED <<conn, groupOf, groups, byPeer, inFlight, admission, task>>

-----------------------------------------------------------------------------
TaskStep(t) ==
  \/ InitLookup(t) \/ InitLock(t) \/ InitEvict(t) \/ InitRecheck(t) \/ InitReplace(t)
  \/ InitDecide(t) \/ InitInsert(t) \/ Bind(t) \/ Begin(t) \/ Finalize(t) \/ EndOp(t)

Next ==
  \/ \E k \in Conns : Accept(k) \/ Leave(k) \/ RemoveGroup(k)
  \/ \E t \in Tasks, k \in Conns :
       ArriveInit(t, k) \/ \E c \in Contexts, kind \in {"op", "finalize"} : ArriveOp(t, k, c, kind)
  \/ \E t \in Tasks : TaskStep(t)
  \/ \E c \in Contexts : LeaseExpires(c) \/ Reap(c)

Spec == Init /\ [][Next]_vars

-----------------------------------------------------------------------------
(* Properties *)

\* However Initialize requests, evictions and Finalize interleave, the table
\* never holds more than max_contexts contexts (the admission mutex of
\* create_context_replacing_idle_same_identity_on_connection).
CapHolds == Cardinality(Live) <= MaxContexts

\* No reaper, admission or Finalize takes a context away from under another
\* request that is past begin_operation_capped (the in-flight counter).
BusyNeverRemoved ==
  [][\A c \in Contexts : ctx[c].st = "live" /\ ctx'[c].st # "live" =>
       \A t \in Tasks : task[t].ctx = c /\ task[t].pc \in {"run", "drop"} => task'[t] # task[t]]_vars

\* A context that an open connection carried and whose lease holds goes only
\* by its owner's Finalize, or by an Initialize of its own identity from a
\* peer that carried it: never because an older connection closed, nor for
\* another process of the same identity.
LiveClientSpared ==
  [][\A c \in Contexts :
       (/\ ctx[c].st = "live" /\ ctx'[c].st # "live"
        /\ ~LeaseOver(c) /\ \E k \in carried[c] : conn[k] = "open")
       => \E t \in Tasks :
            /\ task'[t] # task[t]
            /\ \/ task[t].kind = "finalize" /\ task[t].ctx = c
               \/ /\ task[t].pc = "replace"
                  /\ Identity[Peer[task[t].conn]] = ctx[c].who
                  /\ \E k \in carried[c] : Peer[k] = Peer[task[t].conn]]_vars

\* An open stream's group is the registered one and not closed, also when
\* the stream joined while the last other one was leaving (remove_if in
\* ConnectionRegistry::unregister).
OpenConnectionRegistered ==
  \A k \in Conns : conn[k] = "open" => byPeer[Peer[k]] = groupOf[k] /\ ~groups[groupOf[k]].closed

Deserted(c) == \A k \in Conns, j \in carried[c] : Peer[k] = Peer[j] => conn[k] \in {"new", "closed"}

\* A bound context none of whose peers has a connection left is an orphan to
\* is_transport_dead: no order of joins, leaves and rebinds leaves a group
\* that never closes, so the next sweep takes it whatever its lease.
OrphansSeen ==
  \A c \in Live : ctx[c].bound /\ Deserted(c) => TransportDead(c)
=============================================================================
