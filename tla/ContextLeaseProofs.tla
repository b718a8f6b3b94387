-------------------------- MODULE ContextLeaseProofs --------------------------
(***************************************************************************)
(* Admission, reaping and transport liveness of ContextLease are right for *)
(* any connections, peers, identities, contexts and handlers.              *)
(***************************************************************************)
EXTENDS ContextLease, FiniteSetTheorems, TLAPS

-----------------------------------------------------------------------------
(* The inductive invariant *)

OpenIn(g) == {k \in Conns : conn[k] = "open" /\ groupOf[k] = g}

Busy(c) == {t \in Tasks : task[t].ctx = c /\ task[t].pc \in {"run", "drop"}}

\* A group belongs to one peer; the registered one is not closed, it is the one
\* of the peer's open connections, and one of them or the last one out will see
\* to its removal.  A group counts its open connections.
GroupOK ==
  /\ \A k \in Conns : conn[k] # "new" => groupOf[k] # 0
  /\ \A k \in Conns, p \in Peers : groupOf[k] # 0 /\ groupOf[k] = byPeer[p] => Peer[k] = p
  /\ \A p, q \in Peers : byPeer[p] # 0 /\ byPeer[p] = byPeer[q] => p = q
  /\ \A k \in Conns : conn[k] = "open" => byPeer[Peer[k]] = groupOf[k]
  /\ \A p \in Peers : byPeer[p] # 0 =>
       /\ ~groups[byPeer[p]].closed
       /\ \E k \in Conns : groupOf[k] = byPeer[p] /\ conn[k] \in {"open", "last"}

CountOK ==
  \A g \in GroupIds : IsFiniteSet(OpenIn(g)) /\ groups[g].live = Cardinality(OpenIn(g))

ConnPC == {"lookup", "lock", "evict", "replace", "insert", "bind"}
CtxPC == {"bind", "begin", "run", "drop"}
LookedPC == {"lock", "evict", "replace", "insert"}

\* A handler's group is still its peer's, or closed; it is its connection's
\* while that is open; and its candidates stay what they were or go.
TaskOK(r) ==
  /\ r.pc \in ConnPC => r.conn \in Conns /\ conn[r.conn] # "new"
  /\ r.pc \in CtxPC => r.ctx \in Contexts
  /\ r.pc \in LookedPC =>
       /\ r.g # 0 => groups[r.g].closed \/ byPeer[Peer[r.conn]] = r.g
       /\ conn[r.conn] = "open" => r.g = groupOf[r.conn]
  /\ r.pc \in {"evict", "replace"} => \A c \in r.cands : ctx[c].st # "unused"
  /\ r.pc = "replace" =>
       \A c \in r.cands : ctx[c].st = "live" => ctx[c].who = Identity[Peer[r.conn]]

TasksOK == \A t \in Tasks : TaskOK(task[t])

\* The groups that a context is bound to are closed or registered for a peer
\* that carried it, and an open connection that carried it is among them.
CtxOK(c) ==
  /\ \A k \in carried[c] : conn[k] # "new"
  /\ ctx[c].st = "live" =>
       /\ \A g \in ctx[c].gs : groups[g].closed \/ \E j \in carried[c] : byPeer[Peer[j]] = g
       /\ \A k \in carried[c] : conn[k] = "open" => groupOf[k] \in ctx[c].gs
       /\ ctx[c].gs # {} => ctx[c].bound

ContextsOK == \A c \in Contexts : CtxOK(c)

\* Who decides about the cap owns the admission mutex, and has seen room before
\* it inserts.
AdmissionOK ==
  /\ CapHolds
  /\ \A t \in Tasks :
       /\ task[t].pc \in {"evict", "replace", "insert"} => admission = t
       /\ task[t].pc = "insert" => Cardinality(Live) < MaxContexts

\* The in-flight counter of a context counts its requests past
\* begin_operation_capped.
BusyOK ==
  \A c \in Contexts : IsFiniteSet(Busy(c)) /\ inFlight[c] = Cardinality(Busy(c))

IInv ==
  /\ TypeOK /\ GroupOK /\ CountOK /\ TasksOK
  /\ ContextsOK /\ AdmissionOK /\ BusyOK

-----------------------------------------------------------------------------
(* Sets and sequences *)

\* A finite set, with one element more and one less.
LEMMA Count ==
  ASSUME NEW S, IsFiniteSet(S)
  PROVE  /\ Cardinality(S) \in Nat
         /\ \A x : x \notin S =>
              IsFiniteSet(S \cup {x}) /\ Cardinality(S \cup {x}) = Cardinality(S) + 1
         /\ \A x \in S :
              /\ IsFiniteSet(S \ {x}) /\ Cardinality(S \ {x}) = Cardinality(S) - 1
              /\ Cardinality(S) > 0
         /\ Cardinality(S) = 0 => S = {}
<1>1. Cardinality(S) \in Nat
  BY FS_CardinalityType
<1>2. \A x : x \notin S =>
        IsFiniteSet(S \cup {x}) /\ Cardinality(S \cup {x}) = Cardinality(S) + 1
  BY FS_AddElement
<1>3. ASSUME NEW x \in S
      PROVE  /\ IsFiniteSet(S \ {x}) /\ Cardinality(S \ {x}) = Cardinality(S) - 1
             /\ Cardinality(S) > 0
  <2>1. IsFiniteSet(S \ {x}) /\ Cardinality(S \ {x}) = Cardinality(S) - 1
    BY FS_RemoveElement
  <2>2. Cardinality(S \ {x}) \in Nat
    BY <2>1, FS_CardinalityType
  <2> QED BY <1>1, <2>1, <2>2
<1>4. Cardinality(S) = 0 => S = {}
  BY FS_EmptySet
<1> QED BY <1>1, <1>2, <1>3, <1>4

\* The live contexts are finitely many; fewer of them are no more.
LEMMA LiveCount ==
  /\ Cardinality(Live) \in Nat
  /\ \A T : T \subseteq Live => Cardinality(T) \in Nat /\ Cardinality(T) <= Cardinality(Live)
  /\ \A c \in Live : Cardinality(Live \ {c}) = Cardinality(Live) - 1
  /\ \A c \in Contexts \ Live : Cardinality(Live \cup {c}) = Cardinality(Live) + 1
<1>1. IsFiniteSet(Live)
  BY LeaseAssumption, FS_Subset DEF Live
<1>2. ASSUME NEW T, T \subseteq Live
      PROVE  Cardinality(T) \in Nat /\ Cardinality(T) <= Cardinality(Live)
  BY <1>1, <1>2, FS_Subset, FS_CardinalityType
<1> QED BY <1>1, <1>2, Count

\* The elements of the group table.
LEMMA GroupElements ==
  ASSUME TypeOK
  PROVE  /\ Len(groups) \in Nat /\ groups \in Seq(GroupType)
         /\ \A g \in GroupIds : groups[g] \in GroupType
         /\ \A p \in Peers : byPeer[p] # 0 => byPeer[p] \in GroupIds
         /\ \A k \in Conns : groupOf[k] # 0 => groupOf[k] \in GroupIds
         /\ \A k \in Conns : Peer[k] \in Peers
<1>1. groups \in Seq(GroupType) /\ Len(groups) \in Nat
  BY DEF TypeOK
<1>2. \A g \in GroupIds : groups[g] \in GroupType
  BY <1>1 DEF GroupIds
<1>3. \A p \in Peers : byPeer[p] # 0 => byPeer[p] \in GroupIds
  BY <1>1 DEF TypeOK, GroupIds
<1>4. \A k \in Conns : groupOf[k] # 0 => groupOf[k] \in GroupIds
  BY <1>1 DEF TypeOK, GroupIds
<1>5. \A k \in Conns : Peer[k] \in Peers
  BY DEF Peers
<1> QED BY <1>1, <1>2, <1>3, <1>4, <1>5

\* One group is replaced by another record.
LEMMA GroupSet ==
  ASSUME TypeOK, NEW g \in GroupIds, NEW r \in GroupType, groups' = [groups EXCEPT ![g] = r]
  PROVE  /\ groups' \in Seq(GroupType) /\ Len(groups') = Len(groups) /\ groups'[g] = r
         /\ \A h \in GroupIds \ {g} : groups'[h] = groups[h]
<1>1. groups \in Seq(GroupType) /\ g \in 1 .. Len(groups)
  BY DEF TypeOK, GroupIds
<1>2. groups' \in Seq(GroupType) /\ Len(groups') = Len(groups)
  BY <1>1
<1>3. groups'[g] = r /\ \A h \in 1 .. Len(groups) : h # g => groups'[h] = groups[h]
  BY <1>1
<1> QED BY <1>2, <1>3 DEF GroupIds

\* A group is made.
LEMMA GroupAdd ==
  ASSUME TypeOK, NEW r \in GroupType, groups' = Append(groups, r)
  PROVE  /\ groups' \in Seq(GroupType) /\ Len(groups') = Len(groups) + 1
         /\ groups'[Len(groups) + 1] = r
         /\ \A h \in GroupIds : groups'[h] = groups[h]
         /\ GroupIds' = GroupIds \cup {Len(groups) + 1} /\ Len(groups) + 1 \notin GroupIds
<1>1. groups \in Seq(GroupType) /\ Len(groups) \in Nat
  BY DEF TypeOK
<1>2. groups' \in Seq(GroupType) /\ Len(groups') = Len(groups) + 1
  BY <1>1
<1>3. groups'[Len(groups) + 1] = r /\ \A h \in 1 .. Len(groups) : groups'[h] = groups[h]
  BY <1>1
<1>4. 1 .. (Len(groups) + 1) = (1 .. Len(groups)) \cup {Len(groups) + 1}
  BY <1>1
<1> QED BY <1>1, <1>2, <1>3, <1>4 DEF GroupIds

-----------------------------------------------------------------------------
(* Connections *)

\* What connection steps leave alone: the contexts and the handlers.
Aside == UNCHANGED <<ctx, inFlight, admission, task, carried>>

\* Types survive the growth of the group table.
LEMMA TypeGrows ==
  ASSUME TypeOK, Aside, Len(groups) <= Len(groups'), Len(groups') \in Nat,
         conn' \in [Conns -> {"new", "open", "last", "closed"}],
         groupOf' \in [Conns -> 0 .. Len(groups')],
         groups' \in Seq(GroupType),
         byPeer' \in [Peers -> 0 .. Len(groups')]
  PROVE  TypeOK'
<1>1. Len(groups) \in Nat
  BY GroupElements
<1>2. GroupIds \subseteq GroupIds' /\ 0 .. Len(groups) \subseteq 0 .. Len(groups')
  BY <1>1 DEF GroupIds
<1>3. CtxType \subseteq CtxType'
  BY <1>2 DEF CtxType
<1>4. TaskType \subseteq TaskType'
  BY <1>2 DEF TaskType
<1>5. ctx' \in [Contexts -> CtxType']
  BY <1>3 DEF TypeOK, Aside
<1>6. task' \in [Tasks -> TaskType']
  BY <1>4 DEF TypeOK, Aside
<1>7. GroupType' = GroupType
  BY DEF GroupType
<1> QED BY <1>5, <1>6, <1>7 DEF TypeOK, Aside

\* Connections move forward, groups close and a peer's entry goes only with
\* its group: then handlers and contexts keep what they know.
LEMMA ConnMove ==
  ASSUME TypeOK, TasksOK, ContextsOK, AdmissionOK, BusyOK, Aside,
         \A j \in Conns : conn[j] # "new" =>
           /\ conn'[j] # "new" /\ groupOf'[j] = groupOf[j]
           /\ conn'[j] = "open" => conn[j] = "open",
         \A g \in GroupIds : groups[g].closed => groups'[g].closed,
         \A p \in Peers : byPeer[p] # 0 =>
           byPeer'[p] = byPeer[p] \/ groups'[byPeer[p]].closed
  PROVE  TasksOK' /\ ContextsOK' /\ AdmissionOK' /\ BusyOK'
<1>1. TasksOK'
  <2> SUFFICES ASSUME NEW t \in Tasks PROVE TaskOK(task[t])'
    BY DEF TasksOK
  <2>1. task[t] \in TaskType /\ task'[t] = task[t]
    BY DEF TypeOK, Aside
  <2>2. task[t].pc \in LookedPC =>
          /\ task[t].conn \in Conns /\ conn[task[t].conn] # "new"
          /\ task[t].g # 0 => task[t].g \in GroupIds
    BY <2>1, GroupElements DEF TasksOK, TaskOK, LookedPC, ConnPC, TaskType, GroupIds
  <2>3. task[t].pc \in LookedPC => Peer[task[t].conn] \in Peers
    BY <2>2, GroupElements
  <2>4. task[t].pc \in LookedPC =>
          /\ task[t].g # 0 => groups'[task[t].g].closed \/ byPeer'[Peer[task[t].conn]] = task[t].g
          /\ conn'[task[t].conn] = "open" => task[t].g = groupOf'[task[t].conn]
    BY <2>2, <2>3 DEF TasksOK, TaskOK
  <2> QED BY <2>1, <2>4 DEF TasksOK, TaskOK, Aside
<1>2. ContextsOK'
  <2> SUFFICES ASSUME NEW c \in Contexts PROVE CtxOK(c)'
    BY DEF ContextsOK
  <2>1. /\ ctx'[c] = ctx[c] /\ carried'[c] = carried[c] /\ carried[c] \subseteq Conns
        /\ ctx[c].gs \subseteq GroupIds
    BY DEF TypeOK, Aside, CtxType
  <2>2. \A g \in ctx[c].gs :
          (groups[g].closed \/ \E j \in carried[c] : byPeer[Peer[j]] = g)
            => (groups'[g].closed \/ \E j \in carried[c] : byPeer'[Peer[j]] = g)
    <3> SUFFICES ASSUME NEW g \in ctx[c].gs, NEW j \in carried[c], byPeer[Peer[j]] = g
                 PROVE  groups'[g].closed \/ byPeer'[Peer[j]] = g
      BY <2>1
    <3>1. Peer[j] \in Peers /\ g # 0
      BY <2>1, GroupElements DEF GroupIds
    <3> QED BY <3>1
  <2> QED BY <2>1, <2>2 DEF ContextsOK, CtxOK
<1>3. AdmissionOK'
  <2>1. Live' = Live
    BY DEF Live, Aside
  <2> QED BY <2>1 DEF AdmissionOK, CapHolds, Aside
<1>4. BusyOK'
  BY DEF BusyOK, Busy, Aside
<1> QED BY <1>1, <1>2, <1>3, <1>4

\* A stream joins its peer's group or makes one.
LEMMA AcceptOK ==
  ASSUME IInv, NEW k \in Conns, Accept(k)
  PROVE  IInv'
<1> DEFINE p == Peer[k]
<1>0. /\ conn[k] = "new" /\ conn' = [conn EXCEPT ![k] = "open"] /\ Aside
      /\ p \in Peers /\ TypeOK /\ Len(groups) \in Nat
  BY GroupElements DEF Accept, IInv, Aside
<1>a. conn'[k] = "open" /\ \A j \in Conns \ {k} : conn'[j] = conn[j]
  BY <1>0 DEF TypeOK
<1>b. conn' \in [Conns -> {"new", "open", "last", "closed"}]
  BY <1>0 DEF TypeOK
<1> HIDE DEF p
<1>1. CASE byPeer[p] # 0
  <2> DEFINE g == byPeer[p]
             r == [groups[g] EXCEPT !.live = @ + 1]
  <2>0. /\ groups' = [groups EXCEPT ![g].live = @ + 1]
        /\ groupOf' = [groupOf EXCEPT ![k] = g] /\ UNCHANGED byPeer
    BY <1>1 DEF Accept, p
  <2>a. g \in GroupIds /\ groups[g] \in GroupType
    BY <1>0, <1>1, GroupElements
  <2>b. r \in GroupType /\ r.closed = groups[g].closed /\ r.live = groups[g].live + 1
    BY <2>a DEF GroupType
  <2>c. groups' = [groups EXCEPT ![g] = r]
    BY <2>0
  <2> HIDE DEF r, g
  <2>d. /\ groups' \in Seq(GroupType) /\ Len(groups') = Len(groups) /\ groups'[g] = r
        /\ \A h \in GroupIds \ {g} : groups'[h] = groups[h]
    BY <1>0, <2>a, <2>b, <2>c, GroupSet
  <2>e. /\ groupOf'[k] = g /\ \A j \in Conns \ {k} : groupOf'[j] = groupOf[j]
        /\ groupOf' \in [Conns -> 0 .. Len(groups')] /\ GroupIds' = GroupIds
    BY <1>0, <2>0, <2>a, <2>d DEF TypeOK, GroupIds
  <2>f. \A h \in GroupIds : groups'[h].closed = groups[h].closed
    BY <2>b, <2>d
  <2>1. TypeOK'
    BY <1>0, <1>b, <2>0, <2>d, <2>e, TypeGrows DEF TypeOK
  <2>2. GroupOK'
    <3>1. \A j \in Conns, q \in Peers : groupOf'[j] # 0 /\ groupOf'[j] = byPeer'[q] => Peer[j] = q
      BY <1>0, <1>1, <2>0, <2>e DEF IInv, GroupOK, g, p
    <3>2. \A j \in Conns : conn'[j] = "open" => byPeer'[Peer[j]] = groupOf'[j]
      BY <1>a, <2>0, <2>e DEF IInv, GroupOK, g, p
    <3>3. ASSUME NEW q \in Peers, byPeer[q] # 0
          PROVE  /\ ~groups'[byPeer[q]].closed
                 /\ \E j \in Conns : groupOf'[j] = byPeer[q] /\ conn'[j] \in {"open", "last"}
      <4>1. byPeer[q] \in GroupIds /\ ~groups[byPeer[q]].closed
        BY <1>0, <3>3, GroupElements DEF IInv, GroupOK
      <4>2. PICK j \in Conns : groupOf[j] = byPeer[q] /\ conn[j] \in {"open", "last"}
        BY <3>3 DEF IInv, GroupOK
      <4>3. j # k
        BY <1>0, <4>2
      <4> QED BY <1>a, <2>e, <2>f, <4>1, <4>2, <4>3
    <3>4. \A j \in Conns : conn'[j] # "new" => groupOf'[j] # 0
      BY <1>1, <1>a, <2>e DEF IInv, GroupOK, g
    <3> QED BY <2>0, <3>1, <3>2, <3>3, <3>4 DEF IInv, GroupOK
  <2>3. CountOK'
    <3> SUFFICES ASSUME NEW h \in GroupIds
                 PROVE  IsFiniteSet(OpenIn(h)') /\ groups'[h].live = Cardinality(OpenIn(h)')
      BY <2>e DEF CountOK
    <3>0. IsFiniteSet(OpenIn(h)) /\ groups[h].live = Cardinality(OpenIn(h))
      BY DEF IInv, CountOK
    <3>1. CASE h = g
      <4>1. OpenIn(h)' = OpenIn(h) \cup {k} /\ k \notin OpenIn(h)
        BY <1>0, <1>a, <2>e, <3>1 DEF OpenIn
      <4> QED BY <2>b, <2>d, <3>0, <3>1, <4>1, Count
    <3>2. CASE h # g
      <4>1. OpenIn(h)' = OpenIn(h)
        BY <1>0, <1>a, <2>e, <3>2 DEF OpenIn
      <4> QED BY <2>d, <3>0, <3>2, <4>1
    <3> QED BY <3>1, <3>2
  <2>4. TasksOK' /\ ContextsOK' /\ AdmissionOK' /\ BusyOK'
    BY <1>0, <1>a, <2>0, <2>e, <2>f, ConnMove DEF IInv
  <2> QED BY <2>1, <2>2, <2>3, <2>4 DEF IInv
<1>2. CASE byPeer[p] = 0
  <2> DEFINE n == Len(groups) + 1
             r == [live |-> 1, closed |-> FALSE]
  <2>0. groups' = Append(groups, r) /\ r \in GroupType
    BY <1>2 DEF Accept, p, GroupType
  <2>a. /\ groups' \in Seq(GroupType) /\ Len(groups') = n /\ groups'[n] = r
        /\ \A h \in GroupIds : groups'[h] = groups[h]
        /\ GroupIds' = GroupIds \cup {n} /\ n \notin GroupIds
    BY <1>0, <2>0, GroupAdd
  <2>b. groupOf' = [groupOf EXCEPT ![k] = n] /\ byPeer' = [byPeer EXCEPT ![p] = n]
    BY <1>2, <2>a DEF Accept, p
  <2>c. n \in Nat \ {0} /\ Len(groups) <= n /\ \A m \in 0 .. Len(groups) : m \in 0 .. n /\ m # n
    BY <1>0
  <2>d. /\ groupOf'[k] = n /\ \A j \in Conns \ {k} : groupOf'[j] = groupOf[j]
        /\ byPeer'[p] = n /\ \A q \in Peers \ {p} : byPeer'[q] = byPeer[q]
    BY <1>0, <2>b DEF TypeOK
  <2>e. /\ \A j \in Conns : groupOf[j] \in 0 .. Len(groups) /\ groupOf[j] # n
        /\ \A q \in Peers : byPeer[q] \in 0 .. Len(groups) /\ byPeer[q] # n
    BY <1>0, <2>c DEF TypeOK
  <2>f. groupOf' \in [Conns -> 0 .. Len(groups')] /\ byPeer' \in [Peers -> 0 .. Len(groups')]
    BY <1>0, <2>a, <2>b, <2>c, <2>e DEF TypeOK
  <2>g. r.live = 1 /\ r.closed = FALSE
    OBVIOUS
  <2> HIDE DEF n, r
  <2>1. TypeOK'
    BY <1>0, <1>b, <2>a, <2>c, <2>f, TypeGrows
  <2>2. GroupOK'
    <3>1. \A j \in Conns, q \in Peers : groupOf'[j] # 0 /\ groupOf'[j] = byPeer'[q] => Peer[j] = q
      BY <1>0, <2>d, <2>e DEF IInv, GroupOK, p
    <3>2. \A q, u \in Peers : byPeer'[q] # 0 /\ byPeer'[q] = byPeer'[u] => q = u
      BY <2>d, <2>e DEF IInv, GroupOK
    <3>3. \A j \in Conns : conn'[j] = "open" => byPeer'[Peer[j]] = groupOf'[j]
      <4> SUFFICES ASSUME NEW j \in Conns, conn'[j] = "open" PROVE byPeer'[Peer[j]] = groupOf'[j]
        OBVIOUS
      <4>1. CASE j = k
        BY <2>d, <4>1 DEF p
      <4>2. CASE j # k
        <5>1. conn[j] = "open" /\ byPeer[Peer[j]] = groupOf[j] /\ groupOf[j] # 0
          BY <1>a, <4>2 DEF IInv, GroupOK
        <5>2. Peer[j] \in Peers \ {p}
          BY <1>0, <1>2, <5>1, GroupElements
        <5> QED BY <2>d, <4>2, <5>1, <5>2
      <4> QED BY <4>1, <4>2
    <3>4. ASSUME NEW q \in Peers, byPeer'[q] # 0
          PROVE  /\ ~groups'[byPeer'[q]].closed
                 /\ \E j \in Conns : groupOf'[j] = byPeer'[q] /\ conn'[j] \in {"open", "last"}
      <4>1. CASE q = p
        BY <1>a, <2>a, <2>d, <2>g, <4>1
      <4>2. CASE q # p
        <5>0. byPeer'[q] = byPeer[q]
          BY <2>d, <4>2
        <5>1. byPeer[q] \in GroupIds /\ ~groups[byPeer[q]].closed
          BY <1>0, <3>4, <5>0, GroupElements DEF IInv, GroupOK
        <5>2. PICK j \in Conns : groupOf[j] = byPeer[q] /\ conn[j] \in {"open", "last"}
          BY <3>4, <5>0 DEF IInv, GroupOK
        <5>3. j # k
          BY <1>0, <5>2
        <5> QED BY <1>a, <2>a, <2>d, <5>0, <5>1, <5>2, <5>3
      <4> QED BY <4>1, <4>2
    <3>5. \A j \in Conns : conn'[j] # "new" => groupOf'[j] # 0
      BY <1>a, <2>c, <2>d DEF IInv, GroupOK
    <3> QED BY <3>1, <3>2, <3>3, <3>4, <3>5 DEF GroupOK
  <2>3. CountOK'
    <3> SUFFICES ASSUME NEW h \in GroupIds'
                 PROVE  IsFiniteSet(OpenIn(h)') /\ groups'[h].live = Cardinality(OpenIn(h)')
      BY DEF CountOK
    <3>1. CASE h = n
      <4>1. OpenIn(h)' = {} \cup {k}
        BY <1>a, <2>d, <2>e, <3>1 DEF OpenIn
      <4>2. IsFiniteSet({}) /\ Cardinality({}) = 0
        BY FS_EmptySet
      <4>3. IsFiniteSet({} \cup {k}) /\ Cardinality({} \cup {k}) = 0 + 1
        BY <4>2, FS_AddElement
      <4> QED BY <2>a, <2>g, <3>1, <4>1, <4>3
    <3>2. CASE h # n
      <4>1. h \in GroupIds
        BY <2>a, <3>2
      <4>2. OpenIn(h)' = OpenIn(h)
        BY <1>0, <1>a, <2>d, <3>2 DEF OpenIn
      <4> QED BY <2>a, <4>1, <4>2 DEF IInv, CountOK
    <3> QED BY <3>1, <3>2
  <2>4. TasksOK' /\ ContextsOK' /\ AdmissionOK' /\ BusyOK'
    <3>1. \A q \in Peers : byPeer[q] # 0 => byPeer'[q] = byPeer[q]
      BY <1>2, <2>d
    <3> QED BY <1>0, <1>a, <2>a, <2>d, <3>1, ConnMove DEF IInv
  <2> QED BY <2>1, <2>2, <2>3, <2>4 DEF IInv
<1> QED BY <1>1, <1>2

\* An open stream's group is registered and counts it; another open stream of
\* the group is still there unless it was the only one.
LEMMA OpenFacts ==
  ASSUME IInv, NEW k \in Conns, conn[k] = "open"
  PROVE  /\ byPeer[Peer[k]] = groupOf[k] /\ groupOf[k] \in GroupIds /\ Peer[k] \in Peers
         /\ groups[groupOf[k]] \in GroupType /\ groups[groupOf[k]].live \in Nat \ {0}
         /\ groups[groupOf[k]].live # 1 =>
              \E j \in Conns \ {k} : conn[j] = "open" /\ groupOf[j] = groupOf[k]
<1> DEFINE g == groupOf[k]
<1>1. TypeOK /\ byPeer[Peer[k]] = g /\ g # 0
  BY DEF IInv, GroupOK
<1>2. g \in GroupIds /\ groups[g] \in GroupType /\ Peer[k] \in Peers
  BY <1>1, GroupElements
<1>3. IsFiniteSet(OpenIn(g)) /\ groups[g].live = Cardinality(OpenIn(g)) /\ k \in OpenIn(g)
  BY <1>2 DEF IInv, CountOK, OpenIn
<1>4. /\ Cardinality(OpenIn(g)) \in Nat /\ Cardinality(OpenIn(g)) > 0
      /\ Cardinality(OpenIn(g) \ {k}) = Cardinality(OpenIn(g)) - 1
  BY <1>3, Count
<1>5. Cardinality({}) = 0
  BY FS_EmptySet
<1>6. groups[g].live # 1 => OpenIn(g) \ {k} # {}
  <2> DEFINE n == Cardinality(OpenIn(g))
  <2> SUFFICES ASSUME OpenIn(g) \ {k} = {} PROVE n = 1
    BY <1>3
  <2>1. Cardinality(OpenIn(g) \ {k}) = 0
    BY <1>5
  <2>2. n \in Nat /\ n - 1 = 0
    BY <1>4, <2>1
  <2> HIDE DEF n
  <2> QED BY <2>2
<1>7. \A j \in OpenIn(g) \ {k} : j \in Conns \ {k} /\ conn[j] = "open" /\ groupOf[j] = g
  BY DEF OpenIn
<1>8. groups[g].live \in Nat \ {0}
  BY <1>3, <1>4
<1> QED BY <1>1, <1>2, <1>6, <1>7, <1>8

\* A stream leaves its group and is told whether it was the last one.
LEMMA LeaveOK ==
  ASSUME IInv, NEW k \in Conns, Leave(k)
  PROVE  IInv'
<1> DEFINE g == groupOf[k]
           r == [groups[g] EXCEPT !.live = @ - 1]
<1>0. conn[k] = "open" /\ Aside /\ UNCHANGED <<groupOf, byPeer>> /\ TypeOK
  BY DEF Leave, Aside, IInv
<1>1. /\ byPeer[Peer[k]] = g /\ g \in GroupIds /\ Peer[k] \in Peers
      /\ groups[g] \in GroupType /\ groups[g].live \in Nat \ {0}
      /\ groups[g].live # 1 => \E j \in Conns \ {k} : conn[j] = "open" /\ groupOf[j] = g
  BY <1>0, OpenFacts
<1>2. /\ groups' = [groups EXCEPT ![g].live = @ - 1]
      /\ conn' = [conn EXCEPT ![k] = IF groups[g].live = 1 THEN "last" ELSE "closed"]
  BY <1>1 DEF Leave
<1>3. r \in GroupType /\ r.closed = groups[g].closed /\ r.live = groups[g].live - 1
  BY <1>1 DEF GroupType
<1>4. groups' = [groups EXCEPT ![g] = r]
  BY <1>2
<1> HIDE DEF r, g
<1>5. /\ groups' \in Seq(GroupType) /\ Len(groups') = Len(groups) /\ groups'[g] = r
      /\ \A h \in GroupIds \ {g} : groups'[h] = groups[h]
  BY <1>0, <1>1, <1>3, <1>4, GroupSet
<1>6. /\ conn'[k] \in {"last", "closed"} /\ (groups[g].live = 1 => conn'[k] = "last")
      /\ \A j \in Conns \ {k} : conn'[j] = conn[j]
      /\ conn' \in [Conns -> {"new", "open", "last", "closed"}]
  BY <1>0, <1>2 DEF TypeOK
<1>7. GroupIds' = GroupIds /\ \A h \in GroupIds : groups'[h].closed = groups[h].closed
  BY <1>3, <1>5 DEF GroupIds
<1>8. TypeOK'
  <2>1. Len(groups) \in Nat
    BY <1>0, GroupElements
  <2> QED BY <1>0, <1>5, <1>6, <2>1, TypeGrows DEF TypeOK
<1>9. GroupOK'
  <2>1. \A j \in Conns : conn'[j] = "open" => conn[j] = "open"
    BY <1>0, <1>6
  <2>2. ASSUME NEW q \in Peers, byPeer[q] # 0
        PROVE  /\ ~groups'[byPeer[q]].closed
               /\ \E j \in Conns : groupOf[j] = byPeer[q] /\ conn'[j] \in {"open", "last"}
    <3>1. byPeer[q] \in GroupIds /\ ~groups[byPeer[q]].closed
      BY <1>0, <2>2, GroupElements DEF IInv, GroupOK
    <3>2. PICK j \in Conns : groupOf[j] = byPeer[q] /\ conn[j] \in {"open", "last"}
      BY <2>2 DEF IInv, GroupOK
    <3>3. CASE j # k
      BY <1>6, <1>7, <3>1, <3>2, <3>3
    <3>4. CASE j = k
      <4>1. byPeer[q] = g
        BY <3>2, <3>4 DEF g
      <4>2. CASE groups[g].live = 1
        BY <1>6, <1>7, <3>1, <3>2, <3>4, <4>2
      <4>3. CASE groups[g].live # 1
        <5>1. PICK i \in Conns \ {k} : conn[i] = "open" /\ groupOf[i] = g
          BY <1>1, <4>3
        <5> QED BY <1>6, <1>7, <3>1, <4>1, <5>1
      <4> QED BY <4>2, <4>3
    <3> QED BY <3>3, <3>4
  <2>3. \A j \in Conns : conn'[j] # "new" => groupOf[j] # 0
    BY <1>0, <1>6 DEF IInv, GroupOK
  <2> QED BY <1>0, <2>1, <2>2, <2>3 DEF IInv, GroupOK
<1>10. CountOK'
  <2> SUFFICES ASSUME NEW h \in GroupIds
               PROVE  IsFiniteSet(OpenIn(h)') /\ groups'[h].live = Cardinality(OpenIn(h)')
    BY <1>7 DEF CountOK
  <2>0. IsFiniteSet(OpenIn(h)) /\ groups[h].live = Cardinality(OpenIn(h))
    BY DEF IInv, CountOK
  <2>1. CASE h = g
    <3>1. OpenIn(h)' = OpenIn(h) \ {k} /\ k \in OpenIn(h)
      BY <1>0, <1>6, <2>1 DEF OpenIn, g
    <3> QED BY <1>3, <1>5, <2>0, <2>1, <3>1, Count
  <2>2. CASE h # g
    <3>1. OpenIn(h)' = OpenIn(h)
      BY <1>0, <1>6, <2>2 DEF OpenIn, g
    <3> QED BY <1>5, <2>0, <2>2, <3>1
  <2> QED BY <2>1, <2>2
<1>11. TasksOK' /\ ContextsOK' /\ AdmissionOK' /\ BusyOK'
  BY <1>0, <1>6, <1>7, ConnMove DEF IInv
<1> QED BY <1>8, <1>9, <1>10, <1>11 DEF IInv

\* The last stream out removes its group unless another one has joined.
LEMMA RemoveGroupOK ==
  ASSUME IInv, NEW k \in Conns, RemoveGroup(k)
  PROVE  IInv'
<1> DEFINE g == groupOf[k]
           p == Peer[k]
<1>0. /\ conn[k] = "last" /\ conn' = [conn EXCEPT ![k] = "closed"]
      /\ Aside /\ UNCHANGED groupOf /\ TypeOK
  BY DEF RemoveGroup, Aside, IInv
<1>1. g \in GroupIds /\ g # 0 /\ p \in Peers /\ groups[g] \in GroupType /\ Len(groups) \in Nat
  BY <1>0, GroupElements DEF IInv, GroupOK
<1>2. /\ conn'[k] = "closed" /\ \A j \in Conns \ {k} : conn'[j] = conn[j]
      /\ conn' \in [Conns -> {"new", "open", "last", "closed"}]
  BY <1>0 DEF TypeOK
<1>3. \A h : OpenIn(h)' = OpenIn(h)
  BY <1>0, <1>2 DEF OpenIn
<1>4. CASE byPeer[p] = g /\ groups[g].live = 0
  <2> DEFINE r == [groups[g] EXCEPT !.closed = TRUE]
  <2>0. byPeer' = [byPeer EXCEPT ![p] = 0] /\ groups' = [groups EXCEPT ![g] = r]
    BY <1>4 DEF RemoveGroup
  <2>1. r \in GroupType /\ r.closed = TRUE /\ r.live = groups[g].live
    BY <1>1 DEF GroupType
  <2> HIDE DEF r, g, p
  <2>2. /\ groups' \in Seq(GroupType) /\ Len(groups') = Len(groups) /\ groups'[g] = r
        /\ \A h \in GroupIds \ {g} : groups'[h] = groups[h]
    BY <1>0, <1>1, <2>0, <2>1, GroupSet
  <2>3. /\ GroupIds' = GroupIds /\ \A h \in GroupIds : groups'[h].live = groups[h].live
        /\ groups'[g].closed
    BY <2>1, <2>2 DEF GroupIds
  <2>4. /\ byPeer'[p] = 0 /\ \A q \in Peers \ {p} : byPeer'[q] = byPeer[q]
        /\ byPeer' \in [Peers -> 0 .. Len(groups')]
    BY <1>0, <1>1, <2>0, <2>2 DEF TypeOK
  <2>5. TypeOK'
    BY <1>0, <1>1, <1>2, <2>2, <2>4, TypeGrows DEF TypeOK
  <2>6. OpenIn(g) = {}
    BY <1>1, <1>4, Count DEF IInv, CountOK
  <2>7. GroupOK'
    <3>1. \A j \in Conns, q \in Peers : groupOf[j] # 0 /\ groupOf[j] = byPeer'[q] => Peer[j] = q
      BY <2>4 DEF IInv, GroupOK
    <3>2. \A q, u \in Peers : byPeer'[q] # 0 /\ byPeer'[q] = byPeer'[u] => q = u
      BY <2>4 DEF IInv, GroupOK
    <3>3. ASSUME NEW j \in Conns, conn'[j] = "open" PROVE byPeer'[Peer[j]] = groupOf[j]
      <4>1. conn[j] = "open" /\ byPeer[Peer[j]] = groupOf[j] /\ Peer[j] \in Peers
        BY <1>0, <1>2, <3>3, GroupElements DEF IInv, GroupOK
      <4>2. groupOf[j] # g
        BY <2>6, <4>1 DEF OpenIn
      <4> QED BY <1>4, <2>4, <4>1, <4>2 DEF g, p
    <3>4. ASSUME NEW q \in Peers, byPeer'[q] # 0
          PROVE  /\ ~groups'[byPeer'[q]].closed
                 /\ \E j \in Conns : groupOf[j] = byPeer'[q] /\ conn'[j] \in {"open", "last"}
      <4>1. q # p /\ byPeer'[q] = byPeer[q] /\ byPeer[q] # 0
        BY <2>4, <3>4
      <4>2. byPeer[q] \in GroupIds /\ ~groups[byPeer[q]].closed
        BY <1>0, <4>1, GroupElements DEF IInv, GroupOK
      <4>3. byPeer[q] # g
        BY <1>1, <1>4, <4>1 DEF IInv, GroupOK, g, p
      <4>4. PICK j \in Conns : groupOf[j] = byPeer[q] /\ conn[j] \in {"open", "last"}
        BY <4>1 DEF IInv, GroupOK
      <4>5. j # k
        BY <4>3, <4>4 DEF g
      <4> QED BY <1>2, <2>2, <4>1, <4>2, <4>3, <4>4, <4>5
    <3>5. \A j \in Conns : conn'[j] # "new" => groupOf[j] # 0
      BY <1>0, <1>2 DEF IInv, GroupOK
    <3> QED BY <1>0, <3>1, <3>2, <3>3, <3>4, <3>5 DEF GroupOK
  <2>8. CountOK'
    BY <1>3, <2>3 DEF IInv, CountOK
  <2>9. TasksOK' /\ ContextsOK' /\ AdmissionOK' /\ BusyOK'
    <3>1. \A h \in GroupIds : groups[h].closed => groups'[h].closed
      BY <2>2, <2>3
    <3>2. \A q \in Peers : byPeer[q] # 0 => byPeer'[q] = byPeer[q] \/ groups'[byPeer[q]].closed
      BY <1>4, <2>3, <2>4 DEF g, p
    <3>3. \A j \in Conns : conn[j] # "new" =>
            /\ conn'[j] # "new" /\ groupOf'[j] = groupOf[j]
            /\ conn'[j] = "open" => conn[j] = "open"
      BY <1>0, <1>2
    <3> QED BY <1>0, <3>1, <3>2, <3>3, ConnMove DEF IInv
  <2> QED BY <2>5, <2>7, <2>8, <2>9 DEF IInv
<1>5. CASE ~(byPeer[p] = g /\ groups[g].live = 0)
  <2>0. byPeer' = byPeer /\ groups' = groups
    BY <1>5 DEF RemoveGroup
  <2>1. TypeOK'
    BY <1>0, <1>1, <1>2, <2>0, TypeGrows DEF TypeOK
  <2>2. GroupOK'
    <3>1. ASSUME NEW q \in Peers, byPeer[q] # 0
          PROVE  \E j \in Conns : groupOf[j] = byPeer[q] /\ conn'[j] \in {"open", "last"}
      <4>1. PICK j \in Conns : groupOf[j] = byPeer[q] /\ conn[j] \in {"open", "last"}
        BY <3>1 DEF IInv, GroupOK
      <4>2. CASE j # k
        BY <1>2, <4>1, <4>2
      <4>3. CASE j = k
        <5>1. q = p /\ byPeer[p] = g
          BY <1>1, <4>1, <4>3 DEF IInv, GroupOK
        <5>2. groups[g].live # 0 /\ IsFiniteSet(OpenIn(g)) /\ groups[g].live = Cardinality(OpenIn(g))
          BY <1>1, <1>5, <5>1 DEF IInv, CountOK
        <5>3. OpenIn(g) # {}
          BY <5>2, FS_EmptySet
        <5>4. PICK i \in OpenIn(g) : TRUE
          BY <5>3
        <5>5. i \in Conns /\ conn[i] = "open" /\ groupOf[i] = byPeer[q] /\ i # k
          BY <1>0, <5>1, <5>4 DEF OpenIn
        <5> QED BY <1>2, <5>5
      <4> QED BY <4>2, <4>3
    <3>2. \A j \in Conns : (conn'[j] # "new" => conn[j] # "new") /\ (conn'[j] = "open" => conn[j] = "open")
      BY <1>0, <1>2
    <3> QED BY <1>0, <2>0, <3>1, <3>2 DEF IInv, GroupOK
  <2>3. CountOK'
    BY <1>3, <2>0 DEF IInv, CountOK, GroupIds
  <2>4. TasksOK' /\ ContextsOK' /\ AdmissionOK' /\ BusyOK'
    BY <1>0, <1>2, <2>0, ConnMove DEF IInv
  <2> QED BY <2>1, <2>2, <2>3, <2>4 DEF IInv
<1> QED BY <1>4, <1>5

-----------------------------------------------------------------------------
(* What the steps of handlers and of the reaper have in common *)

\* They leave the connections alone.
Transport == UNCHANGED <<conn, groupOf, groups, byPeer>>

Counting == {"run", "drop"}
Admitting == {"evict", "replace", "insert"}

\* A context goes from unused to live to gone and keeps its owner.
CtxForward ==
  \A c \in Contexts : ctx[c].st # "unused" =>
    /\ ctx'[c].st # "unused"
    /\ ctx'[c].st = "live" => ctx[c].st = "live" /\ ctx'[c].who = ctx[c].who

\* Contexts change in order and none is added.
CtxKept ==
  /\ ctx' \in [Contexts -> CtxType] /\ carried' \in [Contexts -> SUBSET Conns]
  /\ CtxForward /\ Live' \subseteq Live /\ ContextsOK'

\* The groups stay right.
LEMMA TransportKept ==
  ASSUME IInv, Transport
  PROVE  /\ GroupOK' /\ CountOK' /\ GroupIds' = GroupIds
         /\ CtxType' = CtxType /\ TaskType' = TaskType
<1>1. GroupIds' = GroupIds
  BY DEF Transport, GroupIds
<1>2. GroupOK'
  BY DEF IInv, GroupOK, Transport
<1>3. CountOK'
  BY <1>1 DEF IInv, CountOK, OpenIn, Transport
<1>4. CtxType' = CtxType
  BY <1>1 DEF CtxType
<1>5. TaskType' = TaskType
  BY DEF TaskType, Transport
<1> QED BY <1>1, <1>2, <1>3, <1>4, <1>5

\* The types, when each table that changes keeps its own.
LEMMA TypeKept ==
  ASSUME IInv, Transport,
         ctx' \in [Contexts -> CtxType], inFlight' \in [Contexts -> 0 .. MaxInFlight],
         admission' \in Tasks \cup {None}, task' \in [Tasks -> TaskType],
         carried' \in [Contexts -> SUBSET Conns]
  PROVE  TypeOK'
<1>1. CtxType' = CtxType /\ TaskType' = TaskType
  BY TransportKept
<1>2. GroupType' = GroupType
  BY DEF GroupType
<1> QED BY <1>1, <1>2 DEF IInv, TypeOK, Transport

\* A handler that does not move still knows what it knew.
LEMMA TasksKept ==
  ASSUME IInv, Transport, CtxForward,
         \A u \in Tasks : task'[u] = task[u] \/ TaskOK(task[u])'
  PROVE  TasksOK'
<1> SUFFICES ASSUME NEW u \in Tasks, task'[u] = task[u] PROVE TaskOK(task[u])'
  BY DEF TasksOK
<1>1. task[u] \in TaskType /\ TaskOK(task[u])
  BY DEF IInv, TypeOK, TasksOK
<1>2. task[u].cands \subseteq Contexts
  BY <1>1 DEF TaskType
<1> QED BY <1>1, <1>2 DEF TaskOK, Transport, CtxForward

\* The mutex and the room that its owner saw, when no context is added.
LEMMA AdmissionKept ==
  ASSUME IInv, Live' \subseteq Live,
         \A u \in Tasks :
           \/ task'[u] = task[u] /\ (admission = u => admission' = u)
           \/ /\ task'[u].pc \in Admitting => admission' = u
              /\ task'[u].pc = "insert" => Cardinality(Live)' < MaxContexts
  PROVE  AdmissionOK'
<1>1. /\ Cardinality(Live) \in Nat /\ Cardinality(Live') \in Nat /\ MaxContexts \in Nat
      /\ Cardinality(Live') <= Cardinality(Live)
  BY LiveCount, LeaseAssumption
<1>2. CapHolds'
  BY <1>1 DEF IInv, AdmissionOK, CapHolds
<1>3. ASSUME NEW u \in Tasks
      PROVE  /\ task'[u].pc \in Admitting => admission' = u
             /\ task'[u].pc = "insert" => Cardinality(Live') < MaxContexts
  <2>1. CASE task'[u] = task[u] /\ (admission = u => admission' = u)
    BY <1>1, <2>1 DEF IInv, AdmissionOK, Admitting
  <2>2. CASE /\ task'[u].pc \in Admitting => admission' = u
             /\ task'[u].pc = "insert" => Cardinality(Live)' < MaxContexts
    BY <2>2
  <2> QED BY <2>1, <2>2
<1> QED BY <1>2, <1>3 DEF AdmissionOK, Admitting

\* The in-flight counters, when no request begins or ends.
LEMMA BusyKept ==
  ASSUME IInv, inFlight' = inFlight,
         \A u \in Tasks :
           \/ task'[u] = task[u]
           \/ task[u].pc \notin Counting /\ task'[u].pc \notin Counting
           \/ /\ task[u].pc \in Counting /\ task'[u].pc \in Counting
              /\ task'[u].ctx = task[u].ctx
  PROVE  BusyOK'
<1> SUFFICES ASSUME NEW c \in Contexts PROVE Busy(c)' = Busy(c)
  BY DEF IInv, BusyOK
<1>1. \A u \in Tasks : (task'[u].ctx = c /\ task'[u].pc \in Counting)
                         <=> (task[u].ctx = c /\ task[u].pc \in Counting)
  OBVIOUS
<1> QED BY <1>1 DEF Busy, Counting

\* One handler is set.
LEMMA TaskSet ==
  ASSUME IInv, NEW t \in Tasks, NEW r \in TaskType, task' = [task EXCEPT ![t] = r]
  PROVE  /\ task' \in [Tasks -> TaskType] /\ task'[t] = r
         /\ \A u \in Tasks \ {t} : task'[u] = task[u]
BY DEF IInv, TypeOK

\* A step of one handler that adds no context and begins and ends no request.
LEMMA StepKept ==
  ASSUME IInv, Transport, CtxKept, inFlight' = inFlight, NEW t \in Tasks,
         task' \in [Tasks -> TaskType], \A u \in Tasks \ {t} : task'[u] = task[u],
         TaskOK(task[t])',
         \/ task[t].pc \notin Counting /\ task'[t].pc \notin Counting
         \/ /\ task[t].pc \in Counting /\ task'[t].pc \in Counting
            /\ task'[t].ctx = task[t].ctx,
         admission' \in Tasks \cup {None},
         \A u \in Tasks \ {t} : admission = u => admission' = u,
         task'[t].pc \in Admitting => admission' = t,
         task'[t].pc = "insert" => Cardinality(Live)' < MaxContexts
  PROVE  IInv'
<1>1. TypeOK'
  BY TypeKept DEF IInv, TypeOK, CtxKept
<1>2. TasksOK'
  BY TasksKept DEF CtxKept
<1>3. AdmissionOK'
  BY AdmissionKept DEF CtxKept
<1>4. BusyOK'
  BY BusyKept
<1> QED BY <1>1, <1>2, <1>3, <1>4, TransportKept DEF IInv, CtxKept

\* The contexts stay as they are.
LEMMA CtxSame ==
  ASSUME IInv, Transport, UNCHANGED <<ctx, carried>>
  PROVE  CtxKept /\ Live' = Live
<1>1. Live' = Live
  BY DEF Live
<1>2. ContextsOK'
  BY DEF IInv, ContextsOK, CtxOK, Transport
<1> QED BY <1>1, <1>2 DEF CtxKept, CtxForward, IInv, TypeOK, Transport

\* A context is removed.
LEMMA GoneOK ==
  ASSUME IInv, Transport, NEW c \in Live, Gone(c)
  PROVE  /\ CtxKept /\ Live' = Live \ {c}
         /\ Cardinality(Live)' = Cardinality(Live) - 1
<1> DEFINE r == [Absent EXCEPT !.st = "gone"]
<1>0. /\ c \in Contexts /\ ctx' = [ctx EXCEPT ![c] = r]
      /\ carried' = [carried EXCEPT ![c] = {}]
  BY DEF Gone, Live
<1>1. r \in CtxType /\ r.st = "gone"
  BY DEF Absent, CtxType, Lease
<1> HIDE DEF r
<1>2. /\ ctx'[c] = r /\ \A d \in Contexts \ {c} : ctx'[d] = ctx[d]
      /\ carried'[c] = {} /\ \A d \in Contexts \ {c} : carried'[d] = carried[d]
      /\ ctx' \in [Contexts -> CtxType] /\ carried' \in [Contexts -> SUBSET Conns]
  BY <1>0, <1>1 DEF IInv, TypeOK
<1>3. Live' = Live \ {c}
  BY <1>1, <1>2 DEF Live
<1>4. Cardinality(Live)' = Cardinality(Live) - 1
  BY <1>3, LiveCount
<1>5. CtxForward
  BY <1>1, <1>2 DEF CtxForward
<1>6. ContextsOK'
  <2> SUFFICES ASSUME NEW d \in Contexts PROVE CtxOK(d)'
    BY DEF ContextsOK
  <2>1. CASE d = c
    BY <1>1, <1>2, <2>1 DEF CtxOK
  <2>2. CASE d # c
    BY <1>2, <2>2 DEF IInv, ContextsOK, CtxOK, Transport
  <2> QED BY <2>1, <2>2
<1> QED BY <1>2, <1>3, <1>4, <1>5, <1>6 DEF CtxKept

-----------------------------------------------------------------------------
(* Requests and Initialize *)

\* The fields of a handler.
LEMMA TaskFields ==
  ASSUME IInv, NEW t \in Tasks
  PROVE  /\ task[t] \in TaskType /\ TaskOK(task[t]) /\ task[t].pc \in PC
         /\ task[t].kind \in {"init", "op", "finalize"} /\ task[t].ctx \in Contexts \cup {None}
         /\ task[t].conn \in Conns \cup {None} /\ task[t].g \in 0 .. Len(groups)
         /\ task[t].cands \subseteq Contexts
         /\ task[t].pc \in Admitting => admission = t
         /\ task[t].pc = "insert" => Cardinality(Live) < MaxContexts
         /\ Len(groups) \in Nat
<1>1. task[t] \in TaskType /\ TaskOK(task[t])
  BY DEF IInv, TypeOK, TasksOK
<1>2. Len(groups) \in Nat
  BY GroupElements DEF IInv
<1>3. /\ task[t].pc \in Admitting => admission = t
      /\ task[t].pc = "insert" => Cardinality(Live) < MaxContexts
  BY DEF IInv, AdmissionOK, Admitting
<1> QED BY <1>1, <1>2, <1>3 DEF TaskType

\* A handler that is done is the idle one.
LEMMA IdleOK ==
  ASSUME Len(groups) \in Nat
  PROVE  Idle \in TaskType /\ Idle.pc = "idle" /\ Idle.ctx = None
<1>1. "idle" \in PC /\ 0 \in 0 .. Len(groups)
  BY DEF PC
<1> QED BY <1>1 DEF Idle, TaskType

\* A request arrives on an open connection.
LEMMA ArriveOK ==
  ASSUME IInv, NEW t \in Tasks, NEW k \in Conns, NEW kind \in {"init", "op", "finalize"},
         NEW c \in Contexts \cup {None}, kind # "init" => c \in Contexts, Arrive(t, k, kind, c)
  PROVE  IInv'
<1> DEFINE pc == IF kind = "init" THEN "lookup" ELSE "bind"
           r == [Idle EXCEPT !.pc = pc, !.kind = kind, !.ctx = c, !.conn = k]
<1>0. /\ task[t].pc = "idle" /\ conn[k] = "open" /\ task' = [task EXCEPT ![t] = r]
      /\ Transport /\ UNCHANGED <<ctx, inFlight, admission, carried>>
  BY DEF Arrive, At, Transport
<1>1. pc \in PC /\ pc \in {"lookup", "bind"} /\ (pc = "bind" => c \in Contexts)
  BY DEF PC
<1> HIDE DEF pc
<1>2. r \in TaskType /\ r.pc = pc /\ r.ctx = c /\ r.conn = k
  <2>1. 0 \in 0 .. Len(groups)
    BY GroupElements DEF IInv
  <2> QED BY <1>1, <2>1 DEF Idle, TaskType
<1> HIDE DEF r
<1>3. /\ task' \in [Tasks -> TaskType] /\ task'[t] = r
      /\ \A u \in Tasks \ {t} : task'[u] = task[u]
  BY <1>0, <1>2, TaskSet
<1>4. TaskOK(task[t])'
  BY <1>0, <1>1, <1>2, <1>3 DEF TaskOK, ConnPC, CtxPC, LookedPC, Transport
<1>5. CtxKept
  BY <1>0, CtxSame
<1>6. task[t].pc \notin Counting /\ task'[t].pc \notin Counting /\ task'[t].pc \notin Admitting
  BY <1>0, <1>1, <1>2, <1>3 DEF Counting, Admitting
<1>7. admission' \in Tasks \cup {None} /\ task'[t].pc # "insert"
  BY <1>0, <1>1, <1>2, <1>3 DEF IInv, TypeOK
<1> QED BY <1>0, <1>3, <1>4, <1>5, <1>6, <1>7, StepKept

\* The peer's group is looked up.
LEMMA InitLookupOK ==
  ASSUME IInv, NEW t \in Tasks, InitLookup(t)
  PROVE  IInv'
<1> DEFINE k == task[t].conn
           g == byPeer[Peer[k]]
           r == [task[t] EXCEPT !.pc = "lock", !.g = g]
<1>0. /\ task[t].pc = "lookup" /\ Transport /\ UNCHANGED <<ctx, inFlight, admission, carried>>
      /\ task[t] \in TaskType /\ task' = [task EXCEPT ![t] = r]
  BY TaskFields DEF InitLookup, At, Transport, IInv, TypeOK
<1>1. k \in Conns /\ Peer[k] \in Peers /\ g \in 0 .. Len(groups) /\ conn[k] # "new"
  BY <1>0, TaskFields, GroupElements DEF TaskOK, ConnPC, IInv, TypeOK
<1>a. "lock" \in PC
  BY DEF PC
<1>2. r \in TaskType /\ r.pc = "lock" /\ r.g = g /\ r.conn = k
  BY <1>0, <1>1, <1>a DEF TaskType
<1>b. conn[k] = "open" => g = groupOf[k]
  BY <1>1 DEF IInv, GroupOK
<1> HIDE DEF r, g, k
<1>3. /\ task' \in [Tasks -> TaskType] /\ task'[t] = r
      /\ \A u \in Tasks \ {t} : task'[u] = task[u]
  BY <1>0, <1>2, TaskSet
<1>4. TaskOK(task[t])'
  <2>1. g = byPeer[Peer[k]]
    BY DEF g
  <2> QED BY <1>0, <1>1, <1>2, <1>3, <1>b, <2>1 DEF TaskOK, ConnPC, CtxPC, LookedPC, Transport
<1>5. CtxKept
  BY <1>0, CtxSame
<1>6. task[t].pc \notin Counting /\ task'[t].pc \notin Counting /\ task'[t].pc \notin Admitting
  BY <1>0, <1>2, <1>3 DEF Counting, Admitting
<1>7. admission' \in Tasks \cup {None} /\ task'[t].pc # "insert"
  BY <1>0, <1>2, <1>3 DEF IInv, TypeOK
<1> QED BY <1>0, <1>3, <1>4, <1>5, <1>6, <1>7, StepKept

\* A step within admission: the handler owns the mutex, keeps its connection
\* and its group, and its candidates are live contexts or were candidates.
LEMMA AdmitStep ==
  ASSUME IInv, NEW t \in Tasks, Transport, CtxKept, inFlight' = inFlight,
         task[t].pc \in LookedPC, admission \in {None, t}, admission' = t,
         NEW pc \in Admitting, NEW C \in SUBSET Contexts,
         task' = [task EXCEPT ![t] = [task[t] EXCEPT !.pc = pc, !.cands = C]],
         pc \in {"evict", "replace"} => \A c \in C : ctx'[c].st # "unused",
         pc = "replace" =>
           \A c \in C : ctx'[c].st = "live" => ctx'[c].who = Identity[Peer[task[t].conn]],
         pc = "insert" => Cardinality(Live)' < MaxContexts
  PROVE  IInv'
<1> DEFINE r == [task[t] EXCEPT !.pc = pc, !.cands = C]
<1>0. task[t] \in TaskType /\ TaskOK(task[t])
  BY TaskFields
<1>1. pc \in PC
  BY DEF Admitting, PC
<1>2. /\ r \in TaskType /\ r.pc = pc /\ r.cands = C
      /\ r.conn = task[t].conn /\ r.g = task[t].g /\ r.ctx = task[t].ctx
  BY <1>0, <1>1 DEF TaskType
<1>3. task' = [task EXCEPT ![t] = r]
  OBVIOUS
<1> HIDE DEF r
<1>4. /\ task' \in [Tasks -> TaskType] /\ task'[t] = r
      /\ \A u \in Tasks \ {t} : task'[u] = task[u]
  BY <1>2, <1>3, TaskSet
<1>5. TaskOK(task[t])'
  <2>1. task[t].pc \in ConnPC
    BY DEF LookedPC, ConnPC
  <2>2. pc \notin CtxPC
    BY DEF Admitting, CtxPC
  <2> QED BY <1>0, <1>2, <1>4, <2>1, <2>2 DEF TaskOK, Transport
<1>6. task[t].pc \notin Counting /\ task'[t].pc \notin Counting
  BY <1>2, <1>4 DEF LookedPC, Counting, Admitting
<1>7. \A u \in Tasks \ {t} : admission = u => admission' = u
  BY LeaseAssumption
<1> QED BY <1>2, <1>4, <1>5, <1>6, <1>7, StepKept

\* Under the cap there is room for one more.
LEMMA RoomBelowCap ==
  ~Full => Cardinality(Live) < MaxContexts
BY LiveCount, LeaseAssumption DEF Full

\* The mutex and the first check of the cap.
LEMMA InitLockOK ==
  ASSUME IInv, NEW t \in Tasks, InitLock(t)
  PROVE  IInv'
<1>0. /\ task[t].pc = "lock" /\ admission = None /\ admission' = t /\ Transport
      /\ UNCHANGED <<ctx, inFlight, carried>> /\ task[t] \in TaskType
      /\ task[t].pc \in LookedPC
  BY TaskFields DEF InitLock, At, Transport, LookedPC
<1>1. CtxKept /\ Live' = Live
  BY <1>0, CtxSame
<1>2. CASE Full
  <2> DEFINE C == {c \in Live : Reapable(c) /\ ~ctx[c].sess}
  <2>1. C \in SUBSET Contexts /\ \A c \in C : ctx'[c].st # "unused"
    BY <1>0 DEF Live
  <2>2. task' = [task EXCEPT ![t] = [task[t] EXCEPT !.pc = "evict", !.cands = C]]
    BY <1>2 DEF InitLock, IInv, TypeOK
  <2> HIDE DEF C
  <2>3. "evict" \in Admitting
    BY DEF Admitting
  <2> QED BY <1>0, <1>1, <2>1, <2>2, <2>3, AdmitStep
<1>3. CASE ~Full
  <2>1. task' = [task EXCEPT ![t] = [task[t] EXCEPT !.pc = "insert", !.cands = task[t].cands]]
    BY <1>0, <1>3 DEF InitLock, Go, TaskType, IInv, TypeOK
  <2>2. "insert" \in Admitting /\ task[t].cands \in SUBSET Contexts
    BY TaskFields DEF Admitting
  <2>3. Cardinality(Live)' < MaxContexts
    BY <1>1, <1>3, RoomBelowCap
  <2> QED BY <1>0, <1>1, <2>1, <2>2, <2>3, AdmitStep
<1> QED BY <1>2, <1>3

\* One candidate for eviction is checked again and removed or kept.
LEMMA InitEvictOK ==
  ASSUME IInv, NEW t \in Tasks, InitEvict(t)
  PROVE  IInv'
<1>0. /\ task[t].pc = "evict" /\ Transport /\ UNCHANGED <<inFlight, admission>>
      /\ task[t] \in TaskType /\ TaskOK(task[t]) /\ admission = t
      /\ task[t].cands \subseteq Contexts /\ task[t].pc \in LookedPC
  BY TaskFields DEF InitEvict, At, Transport, LookedPC, Admitting
<1>1. PICK c \in task[t].cands :
        /\ task' = [task EXCEPT ![t].cands = @ \ {c}]
        /\ IF Reapable(c) /\ ~ctx[c].sess THEN Gone(c) ELSE UNCHANGED <<ctx, carried>>
  BY DEF InitEvict
<1>2. CtxKept
  <2>1. CASE Reapable(c) /\ ~ctx[c].sess
    <3>1. c \in Live
      BY <1>0, <2>1 DEF Reapable, Live
    <3> QED BY <1>0, <1>1, <2>1, <3>1, GoneOK
  <2>2. CASE ~(Reapable(c) /\ ~ctx[c].sess)
    BY <1>0, <1>1, <2>2, CtxSame
  <2> QED BY <2>1, <2>2
<1> DEFINE C == task[t].cands \ {c}
<1>3. task' = [task EXCEPT ![t] = [task[t] EXCEPT !.pc = "evict", !.cands = C]]
  BY <1>0, <1>1 DEF TaskType, IInv, TypeOK
<1>4. C \in SUBSET Contexts /\ \A d \in C : ctx'[d].st # "unused"
  BY <1>0, <1>2 DEF TaskOK, CtxKept, CtxForward
<1>5. "evict" \in Admitting
  BY DEF Admitting
<1> HIDE DEF C
<1> QED BY <1>0, <1>2, <1>3, <1>4, <1>5, AdmitStep

\* Still full: the contexts of the same identity are candidates.
LEMMA InitRecheckOK ==
  ASSUME IInv, NEW t \in Tasks, InitRecheck(t)
  PROVE  IInv'
<1>0. /\ task[t].pc = "evict" /\ Transport /\ UNCHANGED <<ctx, inFlight, admission, carried>>
      /\ task[t] \in TaskType /\ admission = t /\ task[t].pc \in LookedPC
  BY TaskFields DEF InitRecheck, At, Transport, LookedPC, Admitting
<1>1. CtxKept /\ Live' = Live
  BY <1>0, CtxSame
<1>2. CASE Full
  <2> DEFINE C == {c \in Live : ctx[c].who = Identity[Peer[task[t].conn]]}
  <2>1. /\ C \in SUBSET Contexts /\ \A c \in C : ctx'[c].st # "unused"
        /\ \A c \in C : ctx'[c].who = Identity[Peer[task[t].conn]]
    BY <1>0 DEF Live
  <2>2. task' = [task EXCEPT ![t] = [task[t] EXCEPT !.pc = "replace", !.cands = C]]
    BY <1>2 DEF InitRecheck, IInv, TypeOK
  <2> HIDE DEF C
  <2>3. "replace" \in Admitting
    BY DEF Admitting
  <2>4. \A c \in C : ctx'[c].st = "live" => ctx'[c].who = Identity[Peer[task[t].conn]]
    BY <2>1
  <2>5. inFlight' = inFlight /\ admission \in {None, t} /\ admission' = t
    BY <1>0
  <2> QED BY <1>0, <1>1, <2>1, <2>2, <2>3, <2>4, <2>5, AdmitStep
<1>3. CASE ~Full
  <2>1. task' = [task EXCEPT ![t] = [task[t] EXCEPT !.pc = "insert", !.cands = task[t].cands]]
    BY <1>0, <1>3 DEF InitRecheck, Go, TaskType, IInv, TypeOK
  <2>2. "insert" \in Admitting /\ task[t].cands \in SUBSET Contexts
    BY TaskFields DEF Admitting
  <2>3. Cardinality(Live)' < MaxContexts
    BY <1>1, <1>3, RoomBelowCap
  <2> QED BY <1>0, <1>1, <2>1, <2>2, <2>3, AdmitStep
<1> QED BY <1>2, <1>3

\* One candidate for replacement; the slot that it frees is the room.
LEMMA InitReplaceOK ==
  ASSUME IInv, NEW t \in Tasks, InitReplace(t)
  PROVE  IInv'
<1>0. /\ task[t].pc = "replace" /\ Transport /\ UNCHANGED <<inFlight, admission>>
      /\ task[t] \in TaskType /\ TaskOK(task[t]) /\ admission = t
      /\ task[t].cands \subseteq Contexts /\ task[t].pc \in LookedPC
  BY TaskFields DEF InitReplace, At, Transport, LookedPC, Admitting
<1>1. PICK c \in task[t].cands :
        IF Replaceable(t, c)
        THEN Gone(c) /\ task' = [task EXCEPT ![t].pc = "insert", ![t].cands = {}]
        ELSE UNCHANGED <<ctx, carried>> /\ task' = [task EXCEPT ![t].cands = @ \ {c}]
  BY DEF InitReplace
<1>2. CASE Replaceable(t, c)
  <2>1. c \in Live
    BY <1>0, <1>2 DEF Replaceable, Live
  <2>2. CtxKept /\ Cardinality(Live)' = Cardinality(Live) - 1
    BY <1>0, <1>1, <1>2, <2>1, GoneOK
  <2>3. Cardinality(Live)' < MaxContexts
    BY <2>2, LiveCount, LeaseAssumption DEF IInv, AdmissionOK, CapHolds
  <2>4. task' = [task EXCEPT ![t] = [task[t] EXCEPT !.pc = "insert", !.cands = {}]]
    BY <1>1, <1>2 DEF IInv, TypeOK
  <2>5. "insert" \in Admitting /\ {} \in SUBSET Contexts
    BY DEF Admitting
  <2> QED BY <1>0, <2>2, <2>3, <2>4, <2>5, AdmitStep
<1>3. CASE ~Replaceable(t, c)
  <2> DEFINE C == task[t].cands \ {c}
  <2>1. CtxKept /\ ctx' = ctx
    BY <1>0, <1>1, <1>3, CtxSame
  <2>2. task' = [task EXCEPT ![t] = [task[t] EXCEPT !.pc = "replace", !.cands = C]]
    BY <1>0, <1>1, <1>3 DEF TaskType, IInv, TypeOK
  <2>3. /\ C \in SUBSET Contexts /\ \A d \in C : ctx'[d].st # "unused"
        /\ \A d \in C : ctx'[d].st = "live" => ctx'[d].who = Identity[Peer[task[t].conn]]
    BY <1>0, <2>1 DEF TaskOK
  <2>4. "replace" \in Admitting
    BY DEF Admitting
  <2> HIDE DEF C
  <2> QED BY <1>0, <2>1, <2>2, <2>3, <2>4, AdmitStep
<1> QED BY <1>2, <1>3

\* A handler ends while the contexts stay or go.
LEMMA FinishOK ==
  ASSUME IInv, NEW t \in Tasks, Transport, CtxKept, inFlight' = inFlight,
         Finish(t), task[t].pc \notin Counting,
         admission' = admission \/ (admission = t /\ admission' = None)
  PROVE  IInv'
<1>0. Idle \in TaskType /\ Idle.pc = "idle" /\ task' = [task EXCEPT ![t] = Idle]
  BY TaskFields, IdleOK DEF Finish
<1>1. /\ task' \in [Tasks -> TaskType] /\ task'[t] = Idle
      /\ \A u \in Tasks \ {t} : task'[u] = task[u]
  BY <1>0, TaskSet
<1>2. TaskOK(task[t])'
  BY <1>0, <1>1 DEF TaskOK, ConnPC, CtxPC, LookedPC
<1>3. task'[t].pc \notin Counting /\ task'[t].pc \notin Admitting /\ task'[t].pc # "insert"
  BY <1>0, <1>1 DEF Counting, Admitting
<1>4. admission' \in Tasks \cup {None} /\ \A u \in Tasks \ {t} : admission = u => admission' = u
  BY DEF IInv, TypeOK
<1> QED BY <1>1, <1>2, <1>3, <1>4, StepKept

\* Nobody could be replaced: refused, unless there is room by now.
LEMMA InitDecideOK ==
  ASSUME IInv, NEW t \in Tasks, InitDecide(t)
  PROVE  IInv'
<1>0. /\ task[t].pc = "replace" /\ Transport /\ UNCHANGED <<ctx, inFlight, carried>>
      /\ task[t] \in TaskType /\ admission = t /\ task[t].pc \in LookedPC
  BY TaskFields DEF InitDecide, At, Transport, LookedPC, Admitting
<1>1. CtxKept /\ Live' = Live
  BY <1>0, CtxSame
<1>2. CASE Full
  <2>1. Finish(t) /\ admission' = None /\ task[t].pc \notin Counting
    BY <1>0, <1>2 DEF InitDecide, Counting
  <2> QED BY <1>0, <1>1, <2>1, FinishOK
<1>3. CASE ~Full
  <2>1. task' = [task EXCEPT ![t] = [task[t] EXCEPT !.pc = "insert", !.cands = task[t].cands]]
    BY <1>0, <1>3 DEF InitDecide, Go, TaskType, IInv, TypeOK
  <2>2. "insert" \in Admitting /\ task[t].cands \in SUBSET Contexts /\ admission' = t
    BY <1>0, <1>3, TaskFields DEF Admitting, InitDecide
  <2>3. Cardinality(Live)' < MaxContexts
    BY <1>1, <1>3, RoomBelowCap
  <2> QED BY <1>0, <1>1, <2>1, <2>2, <2>3, AdmitStep
<1> QED BY <1>2, <1>3

\* The owner of the mutex inserts its context into the room that it saw.
LEMMA InitInsertOK ==
  ASSUME IInv, NEW t \in Tasks, InitInsert(t)
  PROVE  IInv'
<1> DEFINE g == task[t].g
           k == task[t].conn
<1>0. /\ task[t].pc = "insert" /\ Transport /\ UNCHANGED inFlight /\ admission' = None
      /\ task[t] \in TaskType /\ TaskOK(task[t]) /\ admission = t
      /\ Cardinality(Live) < MaxContexts /\ g \in 0 .. Len(groups) /\ Len(groups) \in Nat
  BY TaskFields DEF InitInsert, At, Transport, Admitting
<1>1. PICK c \in Contexts : Insert(t, c, g)
  BY DEF InitInsert
<1> DEFINE r == [Absent EXCEPT !.st = "live", !.who = Identity[Peer[k]],
                               !.bound = g # 0, !.gs = {g} \ {0}]
<1>2. /\ ctx[c].st = "unused" /\ ctx' = [ctx EXCEPT ![c] = r]
      /\ carried' = [carried EXCEPT ![c] = {k}]
  BY <1>1 DEF Insert
<1>3. /\ k \in Conns /\ conn[k] # "new" /\ Peer[k] \in Peers /\ Identity[Peer[k]] \in Identities
      /\ g # 0 => groups[g].closed \/ byPeer[Peer[k]] = g
      /\ conn[k] = "open" => g = groupOf[k] /\ groupOf[k] # 0
  <2>1. k \in Conns /\ conn[k] # "new"
    BY <1>0 DEF TaskOK, ConnPC
  <2>2. Peer[k] \in Peers /\ Identity[Peer[k]] \in Identities
    BY <2>1 DEF Peers, Identities
  <2>3. /\ g # 0 => groups[g].closed \/ byPeer[Peer[k]] = g
        /\ conn[k] = "open" => g = groupOf[k]
    BY <1>0 DEF TaskOK, LookedPC
  <2>4. groupOf[k] # 0
    BY <2>1 DEF IInv, GroupOK
  <2> QED BY <2>1, <2>2, <2>3, <2>4
<1>4. r \in CtxType /\ r.st = "live" /\ r.gs = {g} \ {0} /\ (r.gs # {} => r.bound)
  <2>1. {g} \ {0} \in SUBSET GroupIds /\ (g # 0) \in BOOLEAN
    BY <1>0 DEF GroupIds
  <2>2. "live" \in {"unused", "live", "gone"} /\ "held" \in Lease
    BY DEF Lease
  <2> QED BY <1>3, <2>1, <2>2 DEF Absent, CtxType
<1> HIDE DEF r
<1>5. /\ ctx'[c] = r /\ \A d \in Contexts \ {c} : ctx'[d] = ctx[d]
      /\ carried'[c] = {k} /\ \A d \in Contexts \ {c} : carried'[d] = carried[d]
      /\ ctx' \in [Contexts -> CtxType] /\ carried' \in [Contexts -> SUBSET Conns]
  BY <1>2, <1>3, <1>4 DEF IInv, TypeOK
<1>6. Live' = Live \cup {c} /\ c \in Contexts \ Live
  BY <1>2, <1>4, <1>5 DEF Live
<1>7. Cardinality(Live)' = Cardinality(Live) + 1 /\ Cardinality(Live) \in Nat
  BY <1>6, LiveCount
<1>8. /\ task' \in [Tasks -> TaskType] /\ task'[t] = Idle /\ Idle.pc = "idle"
      /\ \A u \in Tasks \ {t} : task'[u] = task[u]
  BY <1>0, IdleOK, TaskSet DEF InitInsert, Finish
<1>9. TypeOK'
  BY <1>0, <1>5, <1>8, TypeKept DEF IInv, TypeOK
<1>10. TasksOK'
  <2>1. CtxForward
    BY <1>2, <1>5 DEF CtxForward
  <2>2. TaskOK(task[t])'
    BY <1>8 DEF TaskOK, ConnPC, CtxPC, LookedPC
  <2> QED BY <1>0, <1>8, <2>1, <2>2, TasksKept
<1>11. ContextsOK'
  <2> SUFFICES ASSUME NEW d \in Contexts PROVE CtxOK(d)'
    BY DEF ContextsOK
  <2>1. CASE d = c
    <3> HIDE DEF g, k
    <3>1. \A j \in carried'[c] : conn'[j] # "new"
      BY <1>0, <1>3, <1>5 DEF Transport
    <3>2. \A h \in ctx'[c].gs : groups'[h].closed \/ \E j \in carried'[c] : byPeer'[Peer[j]] = h
      BY <1>0, <1>3, <1>4, <1>5 DEF Transport
    <3>3. \A j \in carried'[c] : conn'[j] = "open" => groupOf'[j] \in ctx'[c].gs
      BY <1>0, <1>3, <1>4, <1>5 DEF Transport
    <3> QED BY <1>4, <1>5, <2>1, <3>1, <3>2, <3>3 DEF CtxOK
  <2>2. CASE d # c
    BY <1>0, <1>5, <2>2 DEF IInv, ContextsOK, CtxOK, Transport
  <2> QED BY <2>1, <2>2
<1>12. AdmissionOK'
  <2>1. CapHolds'
    BY <1>0, <1>7, LeaseAssumption DEF CapHolds
  <2>2. \A u \in Tasks \ {t} : task'[u].pc \notin Admitting
    BY <1>0, <1>8, TaskFields
  <2>3. task'[t].pc \notin Admitting
    BY <1>8 DEF Admitting
  <2>4. \A u \in Tasks : task'[u].pc \notin Admitting
    BY <2>2, <2>3
  <2> QED BY <2>1, <2>4 DEF AdmissionOK, Admitting
<1>13. BusyOK'
  <2>1. task[t].pc \notin Counting /\ task'[t].pc \notin Counting
    BY <1>0, <1>8 DEF Counting
  <2> QED BY <1>0, <1>8, <2>1, BusyKept
<1> QED BY <1>0, <1>9, <1>10, <1>11, <1>12, <1>13, TransportKept DEF IInv

-----------------------------------------------------------------------------
(* Operations, Finalize, time and the reaper *)

\* Only the lease and the sessions of contexts change.
LEMMA CtxSoft ==
  ASSUME IInv, Transport, ctx' \in [Contexts -> CtxType], carried' = carried,
         \A d \in Contexts : /\ ctx'[d].st = ctx[d].st /\ ctx'[d].who = ctx[d].who
                             /\ ctx'[d].bound = ctx[d].bound /\ ctx'[d].gs = ctx[d].gs
  PROVE  CtxKept /\ Live' = Live
<1>1. Live' = Live
  BY DEF Live
<1>2. ContextsOK'
  BY DEF IInv, ContextsOK, CtxOK, Transport
<1> QED BY <1>1, <1>2 DEF CtxKept, CtxForward, IInv, TypeOK, Transport

\* An open connection's group is not closed.
LEMMA OpenNotClosed ==
  ASSUME IInv
  PROVE  OpenConnectionRegistered
<1> SUFFICES ASSUME NEW k \in Conns, conn[k] = "open"
             PROVE  byPeer[Peer[k]] = groupOf[k] /\ ~groups[groupOf[k]].closed
  BY DEF OpenConnectionRegistered
<1>1. byPeer[Peer[k]] = groupOf[k] /\ groupOf[k] # 0 /\ Peer[k] \in Peers
  BY GroupElements DEF IInv, GroupOK
<1> QED BY <1>1 DEF IInv, GroupOK

\* The group that a request came on joins the context's groups.
LEMMA RebindOK ==
  ASSUME IInv, Transport, NEW c \in Live, NEW k \in Conns, conn[k] # "new",
         NEW g, g = byPeer[Peer[k]], g # 0,
         ctx' = [ctx EXCEPT ![c].bound = TRUE, ![c].gs = LiveGroups(c) \cup {g}],
         carried' = [carried EXCEPT ![c] = @ \cup {k}]
  PROVE  CtxKept
<1> DEFINE r == [ctx[c] EXCEPT !.bound = TRUE, !.gs = LiveGroups(c) \cup {g}]
<1>0. c \in Contexts /\ ctx[c] \in CtxType /\ ctx[c].st = "live" /\ TypeOK
  BY DEF Live, IInv, TypeOK
<1>1. Peer[k] \in Peers /\ g \in GroupIds
  BY <1>0, GroupElements
<1>2. LiveGroups(c) \cup {g} \in SUBSET GroupIds
  BY <1>0, <1>1 DEF LiveGroups, CtxType
<1>3. /\ r \in CtxType /\ r.st = "live" /\ r.who = ctx[c].who /\ r.bound = TRUE
      /\ r.gs = LiveGroups(c) \cup {g}
  BY <1>0, <1>2 DEF CtxType
<1>4. ctx' = [ctx EXCEPT ![c] = r]
  BY <1>0 DEF TypeOK
<1> HIDE DEF r
<1>5. /\ ctx'[c] = r /\ \A d \in Contexts \ {c} : ctx'[d] = ctx[d]
      /\ carried'[c] = carried[c] \cup {k} /\ \A d \in Contexts \ {c} : carried'[d] = carried[d]
      /\ ctx' \in [Contexts -> CtxType] /\ carried' \in [Contexts -> SUBSET Conns]
      /\ carried[c] \subseteq Conns
  <2>1. ctx'[c] = r /\ (\A d \in Contexts \ {c} : ctx'[d] = ctx[d]) /\ ctx' \in [Contexts -> CtxType]
    <3>1. ctx \in [Contexts -> CtxType]
      BY <1>0 DEF TypeOK
    <3> QED BY <1>0, <1>3, <1>4, <3>1
  <2>2. carried \in [Contexts -> SUBSET Conns] /\ carried[c] \cup {k} \in SUBSET Conns
    BY <1>0 DEF TypeOK
  <2>3. /\ carried'[c] = carried[c] \cup {k} /\ \A d \in Contexts \ {c} : carried'[d] = carried[d]
        /\ carried' \in [Contexts -> SUBSET Conns]
    BY <1>0, <2>2
  <2> QED BY <2>1, <2>2, <2>3
<1>6. Live' = Live
  BY <1>0, <1>3, <1>5 DEF Live
<1>7. CtxForward
  BY <1>0, <1>3, <1>5 DEF CtxForward
<1>8. ContextsOK'
  <2> SUFFICES ASSUME NEW d \in Contexts PROVE CtxOK(d)'
    BY DEF ContextsOK
  <2>1. CASE d = c
    <3>0. CtxOK(c)
      BY <1>0 DEF IInv, ContextsOK
    <3>1. \A j \in carried'[c] : conn'[j] # "new"
      BY <1>5, <3>0 DEF CtxOK, Transport
    <3>2. ASSUME NEW h \in ctx'[c].gs
          PROVE  groups'[h].closed \/ \E j \in carried'[c] : byPeer'[Peer[j]] = h
      <4>1. h = g \/ (h \in ctx[c].gs /\ ~groups[h].closed)
        BY <1>3, <1>5, <3>2 DEF LiveGroups
      <4>2. CASE h = g
        BY <1>5, <4>2 DEF Transport
      <4>3. CASE h \in ctx[c].gs /\ ~groups[h].closed
        <5>1. \E j \in carried[c] : byPeer[Peer[j]] = h
          BY <1>0, <3>0, <4>3 DEF CtxOK
        <5> QED BY <1>5, <5>1 DEF Transport
      <4> QED BY <4>1, <4>2, <4>3
    <3>3. ASSUME NEW j \in carried'[c], conn'[j] = "open" PROVE groupOf'[j] \in ctx'[c].gs
      <4>1. /\ j \in Conns /\ conn[j] = "open" /\ groupOf'[j] = groupOf[j]
            /\ byPeer[Peer[j]] = groupOf[j] /\ ~groups[groupOf[j]].closed
        BY <1>5, <3>3, OpenNotClosed DEF OpenConnectionRegistered, Transport
      <4>2. CASE j = k
        BY <1>3, <1>5, <4>1, <4>2
      <4>3. CASE j \in carried[c]
        <5>1. groupOf[j] \in ctx[c].gs
          BY <1>0, <3>0, <4>1, <4>3 DEF CtxOK
        <5> QED BY <1>3, <1>5, <4>1, <5>1 DEF LiveGroups
      <4> QED BY <1>5, <3>3, <4>2, <4>3
    <3> QED BY <1>3, <1>5, <2>1, <3>1, <3>2, <3>3 DEF CtxOK
  <2>2. CASE d # c
    BY <1>5, <2>2 DEF IInv, ContextsOK, CtxOK, Transport
  <2> QED BY <2>1, <2>2
<1> QED BY <1>5, <1>6, <1>7, <1>8 DEF CtxKept

\* The owner check of a request binds its context to the peer's group.
LEMMA BindOK ==
  ASSUME IInv, NEW t \in Tasks, Bind(t)
  PROVE  IInv'
<1> DEFINE c == task[t].ctx
           k == task[t].conn
           g == byPeer[Peer[k]]
<1>0. /\ task[t].pc = "bind" /\ Transport /\ UNCHANGED <<inFlight, admission>>
      /\ task[t] \in TaskType /\ TaskOK(task[t]) /\ task[t].kind \in {"init", "op", "finalize"}
      /\ task[t].pc \notin Counting
  BY TaskFields DEF Bind, At, Transport, Counting
<1>1. c \in Contexts /\ k \in Conns /\ conn[k] # "new"
  BY <1>0 DEF TaskOK, ConnPC, CtxPC
<1>2. CtxKept
  <2>1. CASE c \in Live /\ g # 0 /\ ~groups[g].closed
    <3>1. /\ ctx' = [ctx EXCEPT ![c].bound = TRUE, ![c].gs = LiveGroups(c) \cup {g}]
          /\ carried' = [carried EXCEPT ![c] = @ \cup {k}]
      BY <2>1 DEF Bind
    <3>2. g = byPeer[Peer[k]]
      OBVIOUS
    <3> HIDE DEF c, k, g
    <3> QED BY <1>0, <1>1, <2>1, <3>1, <3>2, RebindOK
  <2>2. CASE ~(c \in Live /\ g # 0 /\ ~groups[g].closed)
    <3>1. UNCHANGED <<ctx, carried>>
      BY <2>2 DEF Bind
    <3> QED BY <1>0, <3>1, CtxSame
  <2> QED BY <2>1, <2>2
<1>3. CASE c \in Live
  <2> DEFINE r == [Idle EXCEPT !.pc = "begin", !.kind = task[t].kind, !.ctx = c]
  <2>0. task' = [task EXCEPT ![t] = r]
    BY <1>3 DEF Bind
  <2>1. r \in TaskType /\ r.pc = "begin" /\ r.ctx = c
    <3>1. "begin" \in PC /\ 0 \in 0 .. Len(groups)
      BY TaskFields DEF PC
    <3> QED BY <1>0, <1>1, <3>1 DEF Idle, TaskType
  <2> HIDE DEF r
  <2>2. /\ task' \in [Tasks -> TaskType] /\ task'[t] = r
        /\ \A u \in Tasks \ {t} : task'[u] = task[u]
    BY <2>0, <2>1, TaskSet
  <2>3. TaskOK(task[t])'
    BY <1>1, <2>1, <2>2 DEF TaskOK, ConnPC, CtxPC, LookedPC
  <2>4. task'[t].pc \notin Counting /\ task'[t].pc \notin Admitting /\ task'[t].pc # "insert"
    BY <2>1, <2>2 DEF Counting, Admitting
  <2>5. admission' \in Tasks \cup {None} /\ inFlight' = inFlight /\ admission' = admission
    BY <1>0 DEF IInv, TypeOK
  <2> QED BY <1>0, <1>2, <2>2, <2>3, <2>4, <2>5, StepKept
<1>4. CASE c \notin Live
  <2>1. Finish(t) /\ admission' = admission /\ inFlight' = inFlight
    BY <1>0, <1>4 DEF Bind
  <2>2. Transport /\ task[t].pc \notin Counting
    BY <1>0
  <2> QED BY <1>2, <2>1, <2>2, FinishOK
<1> QED BY <1>3, <1>4

\* A request begins and is counted.
LEMMA BeginOK ==
  ASSUME IInv, NEW t \in Tasks, Begin(t)
  PROVE  IInv'
<1> DEFINE c == task[t].ctx
<1>0. /\ task[t].pc = "begin" /\ Transport /\ UNCHANGED <<ctx, admission, carried>>
      /\ task[t] \in TaskType /\ TaskOK(task[t]) /\ task[t].pc \notin Counting
  BY TaskFields DEF Begin, At, Transport, Counting
<1>1. c \in Contexts
  BY <1>0 DEF TaskOK, CtxPC
<1>2. CtxKept
  BY <1>0, CtxSame
<1>3. CASE c \in Live /\ inFlight[c] < MaxInFlight
  <2> DEFINE r == [task[t] EXCEPT !.pc = "run"]
  <2>0. inFlight' = [inFlight EXCEPT ![c] = @ + 1] /\ task' = [task EXCEPT ![t] = r]
    BY <1>3 DEF Begin, Go
  <2>1. r \in TaskType /\ r.pc = "run" /\ r.ctx = c
    <3>1. "run" \in PC
      BY DEF PC
    <3> QED BY <1>0, <3>1 DEF TaskType
  <2> HIDE DEF r, c
  <2>2. /\ task' \in [Tasks -> TaskType] /\ task'[t] = r
        /\ \A u \in Tasks \ {t} : task'[u] = task[u]
    BY <2>0, <2>1, TaskSet
  <2>3. /\ inFlight'[c] = inFlight[c] + 1 /\ \A d \in Contexts \ {c} : inFlight'[d] = inFlight[d]
        /\ inFlight' \in [Contexts -> 0 .. MaxInFlight]
    <3>1. inFlight \in [Contexts -> 0 .. MaxInFlight] /\ MaxInFlight \in Nat
      BY LeaseAssumption DEF IInv, TypeOK
    <3>2. inFlight[c] + 1 \in 0 .. MaxInFlight
      BY <1>1, <1>3, <3>1
    <3> QED BY <1>1, <2>0, <3>1, <3>2
  <2>4. TypeOK'
    BY <1>0, <1>2, <2>2, <2>3, TypeKept DEF IInv, TypeOK, CtxKept
  <2>5. TasksOK'
    <3>1. TaskOK(task[t])'
      BY <1>1, <2>1, <2>2 DEF TaskOK, ConnPC, CtxPC, LookedPC
    <3> QED BY <1>0, <1>2, <2>2, <3>1, TasksKept DEF CtxKept
  <2>6. AdmissionOK'
    <3>1. task'[t].pc \notin Admitting /\ task'[t].pc # "insert"
      BY <2>1, <2>2 DEF Admitting
    <3> QED BY <1>0, <1>2, <2>2, <3>1, AdmissionKept DEF CtxKept
  <2>7. BusyOK'
    <3> SUFFICES ASSUME NEW d \in Contexts
                 PROVE  IsFiniteSet(Busy(d)') /\ inFlight'[d] = Cardinality(Busy(d)')
      BY DEF BusyOK
    <3>0. IsFiniteSet(Busy(d)) /\ inFlight[d] = Cardinality(Busy(d))
      BY DEF IInv, BusyOK
    <3>1. CASE d = c
      <4>1. Busy(d)' = Busy(d) \cup {t} /\ t \notin Busy(d)
        BY <1>0, <2>1, <2>2, <3>1 DEF Busy, Counting
      <4> QED BY <2>3, <3>0, <3>1, <4>1, Count
    <3>2. CASE d # c
      <4>1. Busy(d)' = Busy(d)
        BY <1>0, <2>1, <2>2, <3>2 DEF Busy, Counting
      <4> QED BY <2>3, <3>0, <3>2, <4>1
    <3> QED BY <3>1, <3>2
  <2> QED BY <1>0, <1>2, <2>4, <2>5, <2>6, <2>7, TransportKept DEF IInv, CtxKept
<1>4. CASE ~(c \in Live /\ inFlight[c] < MaxInFlight)
  <2>1. Finish(t) /\ admission' = admission /\ inFlight' = inFlight
    BY <1>0, <1>4 DEF Begin
  <2>2. Transport /\ task[t].pc \notin Counting
    BY <1>0
  <2> QED BY <1>2, <2>1, <2>2, FinishOK
<1> QED BY <1>3, <1>4

\* Finalize removes the context when it is the only request in it.
LEMMA FinalizeOK ==
  ASSUME IInv, NEW t \in Tasks, Finalize(t)
  PROVE  IInv'
<1> DEFINE c == task[t].ctx
           r == [task[t] EXCEPT !.pc = "drop"]
<1>0. /\ task[t].pc = "run" /\ Transport /\ UNCHANGED <<inFlight, admission>>
      /\ task[t] \in TaskType /\ TaskOK(task[t]) /\ task' = [task EXCEPT ![t] = r]
  BY TaskFields DEF Finalize, At, Go, Transport
<1>1. c \in Contexts
  BY <1>0 DEF TaskOK, CtxPC
<1>2. CtxKept
  <2>1. CASE c \in Live /\ inFlight[c] <= 1
    <3>1. Gone(c)
      BY <2>1 DEF Finalize
    <3> QED BY <1>0, <2>1, <3>1, GoneOK
  <2>2. CASE ~(c \in Live /\ inFlight[c] <= 1)
    <3>1. UNCHANGED <<ctx, carried>>
      BY <2>2 DEF Finalize
    <3> QED BY <1>0, <3>1, CtxSame
  <2> QED BY <2>1, <2>2
<1>3. r \in TaskType /\ r.pc = "drop" /\ r.ctx = c
  <2>1. "drop" \in PC
    BY DEF PC
  <2> QED BY <1>0, <2>1 DEF TaskType
<1> HIDE DEF r
<1>4. /\ task' \in [Tasks -> TaskType] /\ task'[t] = r
      /\ \A u \in Tasks \ {t} : task'[u] = task[u]
  BY <1>0, <1>3, TaskSet
<1>5. TaskOK(task[t])'
  BY <1>1, <1>3, <1>4 DEF TaskOK, ConnPC, CtxPC, LookedPC
<1>6. /\ task[t].pc \in Counting /\ task'[t].pc \in Counting /\ task'[t].ctx = task[t].ctx
      /\ task'[t].pc \notin Admitting /\ task'[t].pc # "insert"
  BY <1>0, <1>3, <1>4 DEF Counting, Admitting
<1>7. admission' \in Tasks \cup {None} /\ inFlight' = inFlight /\ admission' = admission
  BY <1>0 DEF IInv, TypeOK
<1> QED BY <1>0, <1>2, <1>4, <1>5, <1>6, <1>7, StepKept

\* The guard of a request gives its count back.
LEMMA EndOpOK ==
  ASSUME IInv, NEW t \in Tasks, EndOp(t)
  PROVE  IInv'
<1> DEFINE c == task[t].ctx
<1>0. /\ task[t].pc \in Counting /\ Transport /\ UNCHANGED <<admission, carried>>
      /\ inFlight' = [inFlight EXCEPT ![c] = @ - 1] /\ task' = [task EXCEPT ![t] = Idle]
      /\ TaskOK(task[t])
  BY TaskFields DEF EndOp, At, Finish, Transport, Counting
<1>1. c \in Contexts
  BY <1>0 DEF TaskOK, CtxPC, Counting
<1>2. PICK sess \in BOOLEAN :
        ctx' = IF c \in Live THEN [ctx EXCEPT ![c].lease = "held", ![c].sess = sess] ELSE ctx
  BY DEF EndOp
<1> HIDE DEF c
<1>3. CtxKept
  <2>1. CASE c \in Live
    <3> DEFINE r == [ctx[c] EXCEPT !.lease = "held", !.sess = sess]
    <3>1. ctx \in [Contexts -> CtxType] /\ ctx[c] \in CtxType
      BY <1>1 DEF IInv, TypeOK
    <3>2. ctx' = [ctx EXCEPT ![c] = r]
      BY <1>1, <1>2, <2>1, <3>1
    <3>3. "held" \in Lease
      BY DEF Lease
    <3>4. /\ r \in CtxType /\ r.st = ctx[c].st /\ r.who = ctx[c].who
          /\ r.bound = ctx[c].bound /\ r.gs = ctx[c].gs
      BY <3>1, <3>3 DEF CtxType
    <3> HIDE DEF r
    <3>5. ctx' \in [Contexts -> CtxType] /\ ctx'[c] = r /\ \A d \in Contexts \ {c} : ctx'[d] = ctx[d]
      BY <1>1, <3>1, <3>2, <3>4
    <3> QED BY <1>0, <3>4, <3>5, CtxSoft
  <2>2. CASE c \notin Live
    BY <1>0, <1>2, <2>2, CtxSame
  <2> QED BY <2>1, <2>2
<1>4. /\ task' \in [Tasks -> TaskType] /\ task'[t] = Idle /\ Idle.pc = "idle"
      /\ \A u \in Tasks \ {t} : task'[u] = task[u]
  BY <1>0, TaskFields, IdleOK, TaskSet
<1>5. IsFiniteSet(Busy(c)) /\ inFlight[c] = Cardinality(Busy(c)) /\ t \in Busy(c)
  BY <1>0, <1>1 DEF IInv, BusyOK, Busy, Counting, c
<1>6. Cardinality(Busy(c)) > 0
  BY <1>5, Count
<1>7. /\ inFlight'[c] = inFlight[c] - 1 /\ \A d \in Contexts \ {c} : inFlight'[d] = inFlight[d]
      /\ inFlight' \in [Contexts -> 0 .. MaxInFlight]
  <2>1. inFlight \in [Contexts -> 0 .. MaxInFlight] /\ MaxInFlight \in Nat
    BY LeaseAssumption DEF IInv, TypeOK
  <2>2. inFlight[c] - 1 \in 0 .. MaxInFlight
    BY <1>1, <1>5, <1>6, <2>1
  <2> QED BY <1>0, <1>1, <2>1, <2>2
<1>8. TypeOK'
  BY <1>0, <1>3, <1>4, <1>7, TypeKept DEF IInv, TypeOK, CtxKept
<1>9. TasksOK'
  <2>1. TaskOK(task[t])'
    BY <1>4 DEF TaskOK, ConnPC, CtxPC, LookedPC
  <2> QED BY <1>0, <1>3, <1>4, <2>1, TasksKept DEF CtxKept
<1>10. AdmissionOK'
  <2>1. task'[t].pc \notin Admitting /\ task'[t].pc # "insert"
    BY <1>4 DEF Admitting
  <2> QED BY <1>0, <1>3, <1>4, <2>1, AdmissionKept DEF CtxKept
<1>11. BusyOK'
  <2> SUFFICES ASSUME NEW d \in Contexts
               PROVE  IsFiniteSet(Busy(d)') /\ inFlight'[d] = Cardinality(Busy(d)')
    BY DEF BusyOK
  <2>0. IsFiniteSet(Busy(d)) /\ inFlight[d] = Cardinality(Busy(d))
    BY DEF IInv, BusyOK
  <2>1. CASE d = c
    <3>1. Busy(d)' = Busy(d) \ {t}
      BY <1>4, <2>1 DEF Busy
    <3> QED BY <1>5, <1>7, <2>0, <2>1, <3>1, Count
  <2>2. CASE d # c
    <3>1. Busy(d)' = Busy(d)
      BY <1>4, <2>2 DEF Busy, c
    <3> QED BY <1>7, <2>0, <2>2, <3>1
  <2> QED BY <2>1, <2>2
<1> QED BY <1>0, <1>3, <1>8, <1>9, <1>10, <1>11, TransportKept DEF IInv, CtxKept

\* Steps that move no handler.
LEMMA QuietOK ==
  ASSUME IInv, Transport, CtxKept, UNCHANGED <<inFlight, admission, task>>
  PROVE  IInv'
<1>1. TypeOK'
  BY TypeKept DEF IInv, TypeOK, CtxKept
<1>2. TasksOK'
  BY TasksKept DEF CtxKept
<1>3. AdmissionOK'
  BY AdmissionKept DEF CtxKept
<1>4. BusyOK'
  BY BusyKept
<1> QED BY <1>1, <1>2, <1>3, <1>4, TransportKept DEF IInv, CtxKept

\* A lease runs out.
LEMMA LeaseExpiresOK ==
  ASSUME IInv, NEW c \in Contexts, LeaseExpires(c)
  PROVE  IInv'
<1> DEFINE l == IF ctx[c].lease = "held" THEN "idle" ELSE "aged"
           r == [ctx[c] EXCEPT !.lease = l]
<1>0. Transport /\ UNCHANGED <<inFlight, admission, task, carried>>
  BY DEF LeaseExpires, Transport
<1>1. ctx \in [Contexts -> CtxType] /\ ctx[c] \in CtxType
  BY DEF IInv, TypeOK
<1>2. ctx' = [ctx EXCEPT ![c] = r]
  BY <1>1 DEF LeaseExpires
<1>3. l \in Lease
  BY DEF Lease
<1> HIDE DEF l
<1>4. /\ r \in CtxType /\ r.st = ctx[c].st /\ r.who = ctx[c].who
      /\ r.bound = ctx[c].bound /\ r.gs = ctx[c].gs
  BY <1>1, <1>3 DEF CtxType
<1> HIDE DEF r
<1>5. ctx' \in [Contexts -> CtxType] /\ ctx'[c] = r /\ \A d \in Contexts \ {c} : ctx'[d] = ctx[d]
  BY <1>1, <1>2, <1>4
<1>6. CtxKept
  BY <1>0, <1>4, <1>5, CtxSoft
<1> QED BY <1>0, <1>6, QuietOK

\* The reaper takes a context.
LEMMA ReapOK ==
  ASSUME IInv, NEW c \in Contexts, Reap(c)
  PROVE  IInv'
<1>0. Transport /\ UNCHANGED <<inFlight, admission, task>> /\ Gone(c) /\ c \in Live
  BY DEF Reap, Transport, Reapable, Live
<1>1. CtxKept
  BY <1>0, GoneOK
<1> QED BY <1>0, <1>1, QuietOK

-----------------------------------------------------------------------------
(* The invariant is inductive *)

\* Nothing is connected, nobody is served.
LEMMA InitOK ==
  Init => IInv
<1> SUFFICES ASSUME Init PROVE IInv
  OBVIOUS
<1>1. groups = <<>> /\ Len(groups) = 0 /\ GroupIds = {} /\ 0 .. Len(groups) = {0}
  BY DEF Init, GroupIds
<1>2. Idle \in TaskType /\ Idle.pc = "idle"
  BY <1>1, IdleOK
<1>3. Absent \in CtxType /\ Absent.st = "unused"
  BY <1>1 DEF Absent, CtxType, Lease
<1>4. 0 \in 0 .. MaxInFlight
  BY LeaseAssumption
<1>5. groups \in Seq(GroupType)
  BY <1>1
<1>a. /\ \A c \in Contexts : ctx[c] = Absent /\ carried[c] = {} /\ inFlight[c] = 0
      /\ \A t \in Tasks : task[t] = Idle
  BY DEF Init
<1>6. TypeOK
  <2>1. ctx \in [Contexts -> CtxType]
    BY <1>3 DEF Init
  <2>2. task \in [Tasks -> TaskType]
    BY <1>2 DEF Init
  <2> QED BY <1>1, <1>4, <1>5, <2>1, <2>2 DEF Init, TypeOK
<1>7. GroupOK
  BY DEF Init, GroupOK
<1>8. CountOK
  BY <1>1 DEF CountOK
<1>9. TasksOK
  BY <1>2, <1>a DEF TasksOK, TaskOK, ConnPC, CtxPC, LookedPC
<1>10. ContextsOK
  BY <1>3, <1>a DEF ContextsOK, CtxOK
<1>11. AdmissionOK
  <2>1. Live = {}
    BY <1>3, <1>a DEF Live
  <2>2. Cardinality(Live) <= MaxContexts
    BY <2>1, FS_EmptySet, LeaseAssumption
  <2> QED BY <1>2, <1>a, <2>2 DEF AdmissionOK, CapHolds
<1>12. BusyOK
  <2>1. \A c \in Contexts : Busy(c) = {}
    BY <1>2, <1>a DEF Busy
  <2> QED BY <1>a, <2>1, FS_EmptySet DEF BusyOK
<1> QED BY <1>6, <1>7, <1>8, <1>9, <1>10, <1>11, <1>12 DEF IInv

\* Every step preserves the invariant.
LEMMA NextOK ==
  IInv /\ [Next]_vars => IInv'
<1> SUFFICES ASSUME IInv, [Next]_vars PROVE IInv'
  OBVIOUS
<1>1. ASSUME NEW k \in Conns, Accept(k) \/ Leave(k) \/ RemoveGroup(k)
      PROVE  IInv'
  BY <1>1, AcceptOK, LeaveOK, RemoveGroupOK
<1>2. ASSUME NEW t \in Tasks, NEW k \in Conns, ArriveInit(t, k)
      PROVE  IInv'
  BY <1>2, ArriveOK DEF ArriveInit
<1>3. ASSUME NEW t \in Tasks, NEW k \in Conns, NEW c \in Contexts,
             NEW kind \in {"op", "finalize"}, ArriveOp(t, k, c, kind)
      PROVE  IInv'
  BY <1>3, ArriveOK DEF ArriveOp
<1>4. ASSUME NEW t \in Tasks, TaskStep(t)
      PROVE  IInv'
  BY <1>4, InitLookupOK, InitLockOK, InitEvictOK, InitRecheckOK, InitReplaceOK, InitDecideOK,
     InitInsertOK, BindOK, BeginOK, FinalizeOK, EndOpOK DEF TaskStep
<1>5. ASSUME NEW c \in Contexts, LeaseExpires(c) \/ Reap(c)
      PROVE  IInv'
  BY <1>5, LeaseExpiresOK, ReapOK
<1>6. CASE UNCHANGED vars
  <2>1. Transport /\ UNCHANGED <<ctx, carried, inFlight, admission, task>>
    BY <1>6 DEF vars, Transport
  <2> QED BY <2>1, CtxSame, QuietOK
<1> QED BY <1>1, <1>2, <1>3, <1>4, <1>5, <1>6 DEF Next

-----------------------------------------------------------------------------
(* Who removes a context *)

\* Idle and orphaned or over its lease.
ByLease(c) == inFlight[c] = 0 /\ (TransportDead(c) \/ LeaseOver(c))

\* As a candidate of an Initialize at the cap.
ByInitialize(c) ==
  \E t \in Tasks :
    task[t].pc = "replace" /\ c \in task[t].cands /\ Replaceable(t, c) /\ task'[t] # task[t]

\* By a Finalize that is alone in it.
ByFinalize(c) ==
  \E t \in Tasks :
    /\ task[t].pc = "run" /\ task[t].kind = "finalize" /\ task[t].ctx = c
    /\ inFlight[c] <= 1 /\ task'[t] # task[t]

\* There is no other way for a context to go.
LEMMA Removal ==
  ASSUME IInv, Next, NEW c \in Contexts, ctx[c].st = "live", ctx'[c].st # "live"
  PROVE  ByLease(c) \/ ByInitialize(c) \/ ByFinalize(c)
<1>0. ctx \in [Contexts -> CtxType] /\ ctx[c] \in CtxType /\ task \in [Tasks -> TaskType]
  BY DEF IInv, TypeOK
<1>1. ctx' # ctx
  OBVIOUS
<1>2. ASSUME NEW d, Gone(d) PROVE d = c
  <2> SUFFICES ASSUME d # c PROVE FALSE
    OBVIOUS
  <2> QED BY <1>0, <1>2 DEF Gone
<1>3. ASSUME NEW k \in Conns, Accept(k) \/ Leave(k) \/ RemoveGroup(k)
      PROVE  FALSE
  BY <1>1, <1>3 DEF Accept, Leave, RemoveGroup
<1>4. ASSUME NEW t \in Tasks, NEW k \in Conns, NEW d, NEW kind, Arrive(t, k, kind, d)
      PROVE  FALSE
  BY <1>1, <1>4 DEF Arrive
<1>5. ASSUME NEW d \in Contexts, LeaseExpires(d)
      PROVE  FALSE
  <2>1. ctx'[c].st = ctx[c].st
    BY <1>0, <1>5 DEF LeaseExpires, CtxType
  <2> QED BY <2>1
<1>6. ASSUME NEW d \in Contexts, Reap(d)
      PROVE  ByLease(c)
  BY <1>2, <1>6 DEF Reap, Reapable, ByLease
<1>7. ASSUME NEW t \in Tasks, TaskStep(t)
      PROVE  ByLease(c) \/ ByInitialize(c) \/ ByFinalize(c)
  <2>0. task[t] \in TaskType /\ TaskOK(task[t])
    BY TaskFields
  <2>1. CASE InitLookup(t) \/ InitLock(t) \/ InitRecheck(t) \/ InitDecide(t) \/ Begin(t)
    BY <1>1, <2>1 DEF InitLookup, InitLock, InitRecheck, InitDecide, Begin
  <2>2. CASE InitEvict(t)
    <3>1. PICK d \in task[t].cands :
            IF Reapable(d) /\ ~ctx[d].sess THEN Gone(d) ELSE UNCHANGED <<ctx, carried>>
      BY <2>2 DEF InitEvict
    <3>2. Reapable(d) /\ Gone(d)
      BY <1>1, <3>1
    <3> QED BY <1>2, <3>2 DEF Reapable, ByLease
  <2>3. CASE InitReplace(t)
    <3>1. PICK d \in task[t].cands :
            IF Replaceable(t, d)
            THEN Gone(d) /\ task' = [task EXCEPT ![t].pc = "insert", ![t].cands = {}]
            ELSE UNCHANGED <<ctx, carried>> /\ task' = [task EXCEPT ![t].cands = @ \ {d}]
      BY <2>3 DEF InitReplace
    <3>2. /\ Replaceable(t, d) /\ Gone(d)
          /\ task' = [task EXCEPT ![t].pc = "insert", ![t].cands = {}]
      BY <1>1, <3>1
    <3>3. task'[t].pc = "insert" /\ task[t].pc = "replace"
      BY <1>0, <2>0, <2>3, <3>2 DEF InitReplace, At, TaskType
    <3> QED BY <1>2, <3>1, <3>2, <3>3 DEF ByInitialize
  <2>4. CASE InitInsert(t)
    <3>1. PICK d \in Contexts : Insert(t, d, task[t].g)
      BY <2>4 DEF InitInsert
    <3>2. d # c
      BY <3>1 DEF Insert
    <3>3. ctx'[c] = ctx[c]
      BY <1>0, <3>1, <3>2 DEF Insert
    <3> QED BY <3>3
  <2>5. CASE Bind(t)
    <3>1. ctx'[c].st = ctx[c].st
      BY <1>0, <2>5 DEF Bind, CtxType
    <3> QED BY <3>1
  <2>6. CASE Finalize(t)
    <3>1. task[t].ctx \in Live /\ inFlight[task[t].ctx] <= 1 /\ Gone(task[t].ctx)
      BY <1>1, <2>6 DEF Finalize
    <3>2. task'[t].pc = "drop" /\ task[t].pc = "run" /\ task[t].kind = "finalize"
      BY <1>0, <2>0, <2>6 DEF Finalize, At, Go, TaskType
    <3> QED BY <1>2, <3>1, <3>2 DEF ByFinalize
  <2>7. CASE EndOp(t)
    <3>1. PICK sess \in BOOLEAN :
            ctx' = IF task[t].ctx \in Live
                   THEN [ctx EXCEPT ![task[t].ctx].lease = "held", ![task[t].ctx].sess = sess]
                   ELSE ctx
      BY <2>7 DEF EndOp
    <3>2. ctx'[c].st = ctx[c].st
      BY <1>0, <3>1 DEF CtxType
    <3> QED BY <3>2
  <2> QED BY <1>7, <2>1, <2>2, <2>3, <2>4, <2>5, <2>6, <2>7 DEF TaskStep
<1> QED BY <1>3, <1>4, <1>5, <1>6, <1>7 DEF Next, ArriveInit, ArriveOp

\* A context that an open connection carried is not an orphan, and an
\* Initialize finds it on its own connection only from a peer that carried it.
LEMMA CarriedFacts ==
  ASSUME IInv, NEW c \in Contexts, ctx[c].st = "live",
         NEW k \in carried[c], conn[k] = "open"
  PROVE  /\ ~TransportDead(c)
         /\ \A t \in Tasks : task[t].pc = "replace" /\ SameConnection(c, task[t].g) =>
              \E j \in carried[c] : Peer[j] = Peer[task[t].conn]
<1>0. k \in Conns /\ carried[c] \subseteq Conns
  BY DEF IInv, TypeOK
<1>1. CtxOK(c) /\ groupOf[k] \in ctx[c].gs /\ ctx[c].bound /\ ~groups[groupOf[k]].closed
  BY <1>0, OpenNotClosed DEF IInv, ContextsOK, CtxOK, OpenConnectionRegistered
<1>2. ~TransportDead(c)
  BY <1>1 DEF TransportDead, LiveGroups
<1>3. ASSUME NEW t \in Tasks, task[t].pc = "replace", SameConnection(c, task[t].g)
      PROVE  \E j \in carried[c] : Peer[j] = Peer[task[t].conn]
  <2> DEFINE g == task[t].g
  <2>1. g # 0 /\ ~groups[g].closed /\ g \in ctx[c].gs
    BY <1>1, <1>3 DEF SameConnection, LiveGroups
  <2>2. PICK j \in carried[c] : byPeer[Peer[j]] = g
    BY <1>1, <2>1 DEF CtxOK
  <2>3. TaskOK(task[t]) /\ task[t].conn \in Conns /\ byPeer[Peer[task[t].conn]] = g
    BY <1>3, <2>1, TaskFields DEF TaskOK, ConnPC, LookedPC
  <2>4. Peer[j] \in Peers /\ Peer[task[t].conn] \in Peers
    BY <1>0, <2>3, GroupElements DEF IInv
  <2> QED BY <2>1, <2>2, <2>3, <2>4 DEF IInv, GroupOK
<1> QED BY <1>2, <1>3

\* No removal takes a context from under another counted request.
LEMMA BusySpared ==
  ASSUME IInv, Next, NEW c \in Contexts, ctx[c].st = "live", ctx'[c].st # "live",
         NEW t \in Tasks, task[t].ctx = c, task[t].pc \in {"run", "drop"}
  PROVE  task'[t] # task[t]
<1>1. IsFiniteSet(Busy(c)) /\ inFlight[c] = Cardinality(Busy(c)) /\ t \in Busy(c)
  BY DEF IInv, BusyOK, Busy
<1>2. inFlight[c] \in Nat /\ inFlight[c] > 0 /\ Cardinality(Busy(c) \ {t}) = inFlight[c] - 1
  BY <1>1, Count
<1>3. PICK u \in Tasks : u \in Busy(c) /\ inFlight[c] <= 1 /\ task'[u] # task[u]
  BY <1>2, Removal DEF ByLease, ByInitialize, ByFinalize, Replaceable, Busy
<1>4. IsFiniteSet(Busy(c) \ {t}) /\ Cardinality(Busy(c) \ {t}) = 0
  BY <1>1, <1>2, <1>3, Count
<1>5. Busy(c) \ {t} = {}
  BY <1>4, FS_EmptySet
<1> QED BY <1>3, <1>5

\* No removal takes a context that its client still holds by an open connection.
LEMMA LiveSpared ==
  ASSUME IInv, Next, NEW c \in Contexts, ctx[c].st = "live", ctx'[c].st # "live",
         ~LeaseOver(c), NEW k \in carried[c], conn[k] = "open"
  PROVE  \E t \in Tasks :
           /\ task'[t] # task[t]
           /\ \/ task[t].kind = "finalize" /\ task[t].ctx = c
              \/ /\ task[t].pc = "replace"
                 /\ Identity[Peer[task[t].conn]] = ctx[c].who
                 /\ \E j \in carried[c] : Peer[j] = Peer[task[t].conn]
<1>0. ~TransportDead(c)
  BY CarriedFacts
<1>1. CASE ByLease(c)
  BY <1>0, <1>1 DEF ByLease
<1>2. CASE ByFinalize(c)
  BY <1>2 DEF ByFinalize
<1>3. CASE ByInitialize(c)
  <2>1. PICK t \in Tasks :
          task[t].pc = "replace" /\ c \in task[t].cands /\ Replaceable(t, c) /\ task'[t] # task[t]
    BY <1>3 DEF ByInitialize
  <2>2. ctx[c].who = Identity[Peer[task[t].conn]]
    BY <2>1, TaskFields DEF TaskOK
  <2>3. SameConnection(c, task[t].g)
    BY <1>0, <2>1 DEF Replaceable
  <2>4. \E j \in carried[c] : Peer[j] = Peer[task[t].conn]
    BY <2>1, <2>3, CarriedFacts
  <2> QED BY <2>1, <2>2, <2>4
<1> QED BY <1>1, <1>2, <1>3, Removal

\* A context whose peers have no connection left has only closed groups.
LEMMA OrphanFacts ==
  ASSUME IInv
  PROVE  OrphansSeen
<1> SUFFICES ASSUME NEW c \in Live, ctx[c].bound, Deserted(c), NEW g \in ctx[c].gs
             PROVE  groups[g].closed
  BY DEF OrphansSeen, TransportDead, LiveGroups
<1>0. c \in Contexts /\ CtxOK(c) /\ ctx[c].st = "live" /\ carried[c] \subseteq Conns /\ TypeOK
  BY DEF Live, IInv, ContextsOK, TypeOK
<1>1. g # 0
  BY <1>0 DEF TypeOK, CtxType, GroupIds
<1> SUFFICES ASSUME NEW j \in carried[c], byPeer[Peer[j]] = g PROVE FALSE
  BY <1>0 DEF CtxOK
<1>2. Peer[j] \in Peers
  BY <1>0, GroupElements
<1>3. PICK k \in Conns : groupOf[k] = g /\ conn[k] \in {"open", "last"}
  BY <1>1, <1>2 DEF IInv, GroupOK
<1>4. Peer[k] = Peer[j]
  BY <1>1, <1>2, <1>3 DEF IInv, GroupOK
<1> QED BY <1>3, <1>4 DEF Deserted

-----------------------------------------------------------------------------
(* Theorems *)

\* Every table of the context manager and of the connection registry keeps its
\* type; in particular no in-flight counter underflows or passes
\* per_context_max_in_flight.
THEOREM TypeCorrect == Spec => []TypeOK
<1>1. IInv => TypeOK
  BY DEF IInv
<1> QED BY <1>1, InitOK, NextOK, PTL DEF Spec

\* The admission mutex of create_context_replacing_idle_same_identity_on_connection
\* keeps the table within max_contexts whatever evictions and Finalize do meanwhile.
THEOREM CapNeverExceeded == Spec => []CapHolds
<1>1. IInv => CapHolds
  BY DEF IInv, AdmissionOK
<1> QED BY <1>1, InitOK, NextOK, PTL DEF Spec

\* An open stream's group is the one that ConnectionRegistry has for its peer
\* and is not closed.
THEOREM OpenIsRegistered == Spec => []OpenConnectionRegistered
<1>1. IInv => OpenConnectionRegistered
  BY OpenNotClosed
<1> QED BY <1>1, InitOK, NextOK, PTL DEF Spec

\* A context all of whose peers have disconnected is dead to is_transport_dead.
THEOREM OrphansAreSeen == Spec => []OrphansSeen
<1>1. IInv => OrphansSeen
  BY OrphanFacts
<1> QED BY <1>1, InitOK, NextOK, PTL DEF Spec

\* No reaper, admission or Finalize removes a context that another request is in.
THEOREM BusyIsSpared == Spec => BusyNeverRemoved
<1> DEFINE A == \A c \in Contexts : ctx[c].st = "live" /\ ctx'[c].st # "live" =>
                  \A t \in Tasks : task[t].ctx = c /\ task[t].pc \in {"run", "drop"}
                                     => task'[t] # task[t]
<1>1. IInv /\ [Next]_vars => [A]_vars
  BY BusySpared
<1> HIDE DEF A
<1>2. Spec => [][A]_vars
  BY <1>1, InitOK, NextOK, PTL DEF Spec
<1> QED BY <1>2 DEF BusyNeverRemoved, A

\* A context in use over an open connection goes only by its owner's Finalize
\* or by an Initialize of its identity from a peer that carried it.
THEOREM LiveClientIsSpared == Spec => LiveClientSpared
<1> DEFINE A == \A c \in Contexts :
                  (/\ ctx[c].st = "live" /\ ctx'[c].st # "live"
                   /\ ~LeaseOver(c) /\ \E k \in carried[c] : conn[k] = "open")
                  => \E t \in Tasks :
                       /\ task'[t] # task[t]
                       /\ \/ task[t].kind = "finalize" /\ task[t].ctx = c
                          \/ /\ task[t].pc = "replace"
                             /\ Identity[Peer[task[t].conn]] = ctx[c].who
                             /\ \E k \in carried[c] : Peer[k] = Peer[task[t].conn]
<1>1. IInv /\ [Next]_vars => [A]_vars
  <2> SUFFICES ASSUME IInv, Next PROVE A
    OBVIOUS
  <2> QED BY LiveSpared
<1> HIDE DEF A
<1>2. Spec => [][A]_vars
  BY <1>1, InitOK, NextOK, PTL DEF Spec
<1> QED BY <1>2 DEF LiveClientSpared, A

===============================================================================
