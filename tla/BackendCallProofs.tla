-------------------------- MODULE BackendCallProofs --------------------------
(***************************************************************************)
(* The counters of BackendCall are exact and its peer table drains, for    *)
(* any calls, peers and limits.                                            *)
(***************************************************************************)
EXTENDS BackendCall, FiniteSetTheorems, TLAPS

-----------------------------------------------------------------------------
(* The inductive invariant *)

TimedOut == {c \in Calls : account[c] = "timed_out"}

Admitted(k) == {c \in Calls : arc[c] = k /\ pc[c] \in PeerSlotPC}

\* A call is accounted while its provider call runs, and it has cloned a peer
\* counter from try_admit_peer on, when it has a peer.
PathOK ==
  \A c \in Calls :
    /\ account[c] \in {"running", "timed_out"} <=> pc[c] \in {"run", "complete"}
    /\ pc[c] \in {"new", "cas", "peer_entry"} => arc[c] = 0
    /\ pc[c] \in {"peer_load", "peer_cas", "peer_sub", "peer_remove"} => arc[c] # 0
    /\ arc[c] # 0 => Peer[c] # NoPeer

\* A peer counter serves the calls of one peer and is in the table for no
\* other.
OwnOK ==
  /\ \A c, e \in Calls : arc[c] # 0 /\ arc[c] = arc[e] => Peer[c] = Peer[e]
  /\ \A c \in Calls, p \in Peers : arc[c] # 0 /\ arc[c] = entry[p] => Peer[c] = p
  /\ \A p, q \in Peers : entry[p] # 0 /\ entry[p] = entry[q] => p = q

\* Somebody will either count on c's counter again or remove it from the table.
Attends(c, k) ==
  /\ arc[c] = k
  /\ \/ pc[c] \in {"peer_load", "peer_remove"}
     \/ pc[c] = "peer_cas" /\ seen[c] < PeerMax

DrainOK ==
  \A p \in Peers :
    entry[p] # 0 /\ counts[entry[p]] = 0 => \E c \in Calls : Attends(c, entry[p])

IInv ==
  /\ TypeOK /\ PathOK /\ OwnOK /\ DrainOK
  /\ InFlightExact /\ StuckExact /\ PeerCountExact

-----------------------------------------------------------------------------
(* Counting *)

\* A set of calls has a size, which one more call raises and one call less
\* lowers by one.
LEMMA Count ==
  ASSUME NEW S \in SUBSET Calls
  PROVE  /\ Cardinality(S) \in Nat
         /\ \A c \in Calls \ S : Cardinality(S \cup {c}) = Cardinality(S) + 1
         /\ \A c \in S : Cardinality(S \ {c}) = Cardinality(S) - 1 /\ Cardinality(S) > 0
         /\ \A T \in SUBSET S : Cardinality(T) \in Nat /\ Cardinality(T) <= Cardinality(S)
<1>1. IsFiniteSet(S)
  BY CallAssumption, FS_Subset
<1>2. Cardinality(S) \in Nat
  BY <1>1, FS_CardinalityType
<1>3. \A c \in Calls \ S : Cardinality(S \cup {c}) = Cardinality(S) + 1
  BY <1>1, FS_AddElement
<1>4. ASSUME NEW c \in S
      PROVE  Cardinality(S \ {c}) = Cardinality(S) - 1 /\ Cardinality(S) > 0
  <2>1. Cardinality(S \ {c}) = Cardinality(S) - 1
    BY <1>1, FS_RemoveElement
  <2>2. IsFiniteSet(S \ {c})
    BY <1>1, FS_Subset
  <2>3. Cardinality(S \ {c}) \in Nat
    BY <2>2, FS_CardinalityType
  <2> QED BY <1>2, <2>1, <2>3
<1>5. ASSUME NEW T \in SUBSET S
      PROVE  Cardinality(T) \in Nat /\ Cardinality(T) <= Cardinality(S)
  <2>1. IsFiniteSet(T) /\ Cardinality(T) <= Cardinality(S)
    BY <1>1, FS_Subset
  <2> QED BY <2>1, FS_CardinalityType
<1> QED BY <1>2, <1>3, <1>4, <1>5

\* A counter that is in the table or cloned by a call is a counter that was
\* made, and counts no more than PeerMax.
LEMMA Counters ==
  ASSUME TypeOK
  PROVE  /\ \A c \in Calls : arc[c] # 0 => arc[c] \in 1 .. Len(counts)
         /\ \A p \in Peers : entry[p] # 0 => entry[p] \in 1 .. Len(counts)
         /\ \A k \in 1 .. Len(counts) : counts[k] \in 0 .. PeerMax
         /\ Len(counts) \in Nat
<1>1. counts \in Seq(0 .. PeerMax) /\ Len(counts) \in Nat
  BY DEF TypeOK
<1>2. \A k \in 1 .. Len(counts) : counts[k] \in 0 .. PeerMax
  <2> DEFINE S == 0 .. PeerMax
  <2>1. counts \in Seq(S)
    BY <1>1
  <2> HIDE DEF S
  <2>2. \A k \in 1 .. Len(counts) : counts[k] \in S
    BY <2>1
  <2> QED BY <2>2 DEF S
<1>3. \A c \in Calls : arc[c] # 0 => arc[c] \in 1 .. Len(counts)
  BY <1>1 DEF TypeOK
<1>4. \A p \in Peers : entry[p] # 0 => entry[p] \in 1 .. Len(counts)
  BY <1>1 DEF TypeOK
<1> QED BY <1>1, <1>2, <1>3, <1>4

\* The peer of a call is a key of the table.
LEMMA PeerKey ==
  ASSUME NEW c \in Calls, Peer[c] # NoPeer
  PROVE  Peer[c] \in Peers
BY DEF Peers

\* A call that moves without taking or returning a breaker slot.
LEMMA SlotsKept ==
  ASSUME TypeOK, InFlightExact, NEW c \in Calls, NEW l,
         Go(c, l), l \in SlotPC <=> pc[c] \in SlotPC, UNCHANGED inFlight
  PROVE  InFlightExact'
<1>1. Slots' = Slots
  BY DEF TypeOK, Go, Slots
<1> QED BY <1>1 DEF InFlightExact

\* A call that returns its breaker slot.
LEMMA SlotsDropped ==
  ASSUME TypeOK, InFlightExact, NEW c \in Calls, NEW l,
         Go(c, l), l \notin SlotPC, pc[c] \in SlotPC, inFlight' = inFlight - 1
  PROVE  InFlightExact' /\ inFlight > 0
<1>1. Slots' = Slots \ {c} /\ c \in Slots /\ Slots \in SUBSET Calls
  BY DEF TypeOK, Go, Slots
<1>2. Cardinality(Slots \ {c}) = Cardinality(Slots) - 1 /\ Cardinality(Slots) > 0
  BY <1>1, Count
<1> QED BY <1>1, <1>2 DEF InFlightExact

\* A call that leaves the state of its accounting alone, or moves it to or from
\* a state that is not counted.
LEMMA StuckKept ==
  ASSUME TypeOK, StuckExact, NEW c \in Calls, NEW a,
         account' = [account EXCEPT ![c] = a],
         a = "timed_out" <=> account[c] = "timed_out", UNCHANGED stuck
  PROVE  StuckExact'
<1>1. TimedOut' = TimedOut
  BY DEF TypeOK, TimedOut
<1> QED BY <1>1 DEF StuckExact, TimedOut

\* A call that keeps its peer slot, or has no peer counter.
LEMMA AdmittedKept ==
  ASSUME TypeOK, PeerCountExact, NEW c \in Calls, NEW l,
         Go(c, l), UNCHANGED <<arc, counts>>,
         arc[c] = 0 \/ (l \in PeerSlotPC <=> pc[c] \in PeerSlotPC)
  PROVE  PeerCountExact'
<1>1. SUFFICES ASSUME NEW k \in 1 .. Len(counts) PROVE Admitted(k)' = Admitted(k)
  BY DEF PeerCountExact, Admitted
<1> QED BY DEF TypeOK, Go, Admitted

-----------------------------------------------------------------------------
(* try_acquire_backend_call *)

\* Init satisfies the invariant.
LEMMA InitOK == Init => IInv
<1> SUFFICES ASSUME Init PROVE IInv
  OBVIOUS
<1>1. TypeOK
  BY CallAssumption DEF Init, TypeOK, SlotPC, TaskPC
<1>2. PathOK /\ OwnOK /\ DrainOK /\ PeerCountExact
  BY DEF Init, PathOK, OwnOK, DrainOK, PeerCountExact
<1>3. Slots = {} /\ TimedOut = {}
  BY DEF Init, Slots, SlotPC, TaskPC, TimedOut
<1>4. InFlightExact /\ StuckExact
  BY <1>3, FS_EmptySet DEF Init, InFlightExact, StuckExact, TimedOut
<1> QED BY <1>1, <1>2, <1>4 DEF IInv

\* The first load of IN_FLIGHT.
LEMMA LoadOK ==
  ASSUME IInv, NEW c \in Calls, Load(c)
  PROVE  IInv'
<1> USE DEF Load, At
<1>1. TypeOK'
  BY CallAssumption DEF IInv, TypeOK, Go
<1>2. PathOK'
  BY DEF IInv, TypeOK, PathOK, Go
<1>3. OwnOK'
  BY DEF IInv, OwnOK
<1>4. DrainOK'
  BY DEF IInv, TypeOK, DrainOK, Attends, Go
<1>5. InFlightExact'
  BY SlotsKept DEF IInv, SlotPC, TaskPC
<1>6. StuckExact'
  BY DEF IInv, StuckExact
<1>7. PeerCountExact'
  BY AdmittedKept DEF IInv, PeerSlotPC
<1> QED BY <1>1, <1>2, <1>3, <1>4, <1>5, <1>6, <1>7 DEF IInv

\* A round of the CAS loop, on which the slot is taken at the value it read.
LEMMA AcquireOK ==
  ASSUME IInv, NEW c \in Calls, Acquire(c)
  PROVE  IInv'
<1> USE DEF Acquire, At
<1>1. TypeOK'
  <2>1. caller' \in [Calls -> {"waiting", "answered", "timed_out", "cancelled"}]
    BY DEF IInv, TypeOK, Answer
  <2>2. pc' \in [Calls -> SlotPC \cup {"new", "cas", "done"}]
    BY DEF IInv, TypeOK, Go, SlotPC
  <2>3. inFlight \in Nat /\ Max \in Nat /\ seen[c] \in Nat /\ inFlight <= Max
    BY CallAssumption DEF IInv, TypeOK
  <2>4. inFlight' \in 0 .. Max
    BY <2>3
  <2>5. seen' \in [Calls -> Nat]
    BY <2>3 DEF IInv, TypeOK
  <2> QED BY <2>1, <2>2, <2>4, <2>5 DEF IInv, TypeOK
<1>2. PathOK'
  BY DEF IInv, TypeOK, PathOK, Go
<1>3. OwnOK'
  BY DEF IInv, OwnOK
<1>4. DrainOK'
  <2>1. \A e \in Calls \ {c} : pc'[e] = pc[e] /\ seen'[e] = seen[e]
    BY DEF IInv, TypeOK, Go
  <2>2. \A k : ~ Attends(c, k)
    BY DEF Attends
  <2>3. \A e \in Calls : \A k : Attends(e, k) => Attends(e, k)'
    BY <2>1, <2>2 DEF Attends
  <2> QED BY <2>3 DEF IInv, DrainOK
<1>5. InFlightExact'
  <2>1. CASE seen[c] >= Max /\ Go(c, "done") /\ UNCHANGED inFlight
    BY <2>1, SlotsKept DEF IInv, SlotPC, TaskPC
  <2>2. CASE inFlight' = inFlight + 1 /\ Go(c, "peer_entry")
    <3>1. Slots' = Slots \cup {c} /\ c \notin Slots /\ Slots \in SUBSET Calls
      BY <2>2 DEF IInv, TypeOK, Go, Slots, SlotPC, TaskPC
    <3>2. Cardinality(Slots') = Cardinality(Slots) + 1
      BY <3>1, Count
    <3> QED BY <2>2, <3>2 DEF IInv, InFlightExact
  <2>3. CASE UNCHANGED <<pc, inFlight>>
    BY <2>3 DEF IInv, InFlightExact, Slots
  <2> QED BY <2>1, <2>2, <2>3
<1>6. StuckExact'
  BY DEF IInv, StuckExact
<1>7. PeerCountExact'
  <2>1. CASE UNCHANGED pc
    BY <2>1 DEF IInv, PeerCountExact
  <2>2. CASE Go(c, "done") \/ Go(c, "peer_entry")
    BY <2>2, AdmittedKept DEF IInv, PeerSlotPC
  <2> QED BY <2>1, <2>2
<1> QED BY <1>1, <1>2, <1>3, <1>4, <1>5, <1>6, <1>7 DEF IInv

-----------------------------------------------------------------------------
(* try_admit_peer *)

\* Without a peer, the call runs on its breaker slot alone.
LEMMA NoPeerAdmitOK ==
  ASSUME IInv, NEW c \in Calls, NoPeerAdmit(c)
  PROVE  IInv'
<1> USE DEF NoPeerAdmit, At
<1>1. TypeOK'
  BY CallAssumption DEF IInv, TypeOK, Go, SlotPC, TaskPC
<1>2. PathOK'
  BY DEF IInv, TypeOK, PathOK, Go
<1>3. OwnOK'
  BY DEF IInv, OwnOK
<1>4. DrainOK'
  BY DEF IInv, TypeOK, DrainOK, Attends, Go
<1>5. InFlightExact'
  BY SlotsKept DEF IInv, SlotPC, TaskPC
<1>6. StuckExact'
  <2>1. account[c] # "timed_out"
    BY DEF IInv, PathOK
  <2> QED BY <2>1, StuckKept DEF IInv
<1>7. PeerCountExact'
  <2>1. arc[c] = 0
    BY DEF IInv, PathOK
  <2> QED BY <2>1, AdmittedKept DEF IInv
<1> QED BY <1>1, <1>2, <1>3, <1>4, <1>5, <1>6, <1>7 DEF IInv

\* The counter of the peer is cloned, and made when the table has none.
LEMMA PeerEntryOK ==
  ASSUME IInv, NEW c \in Calls, PeerEntry(c)
  PROVE  IInv'
<1> USE DEF PeerEntry, At
<1>0. Peer[c] \in Peers /\ arc[c] = 0 /\ Len(counts) \in Nat
  BY PeerKey, Counters DEF IInv, PathOK
<1>5. InFlightExact'
  BY SlotsKept DEF IInv, SlotPC, TaskPC
<1>6. StuckExact'
  BY DEF IInv, StuckExact
<1>7. CASE entry[Peer[c]] # 0
  <2>0. /\ arc' = [arc EXCEPT ![c] = entry[Peer[c]]] /\ UNCHANGED <<counts, entry>>
        /\ entry[Peer[c]] \in 1 .. Len(counts)
    BY <1>0, <1>7, Counters DEF IInv
  <2>1. TypeOK'
    BY <1>0, <2>0 DEF IInv, TypeOK, Go, SlotPC
  <2>2. PathOK'
    BY <1>0, <1>7, <2>0 DEF IInv, TypeOK, PathOK, Go
  <2>3. OwnOK'
    BY <1>0, <2>0 DEF IInv, TypeOK, OwnOK
  <2>4. DrainOK'
    BY <1>0, <2>0 DEF IInv, TypeOK, DrainOK, Attends, Go
  <2>5. PeerCountExact'
    <3>1. SUFFICES ASSUME NEW k \in 1 .. Len(counts) PROVE Admitted(k)' = Admitted(k)
      BY <2>0 DEF IInv, PeerCountExact, Admitted
    <3> QED BY <1>0, <2>0 DEF IInv, TypeOK, Go, Admitted, PeerSlotPC
  <2> QED BY <1>5, <1>6, <2>1, <2>2, <2>3, <2>4, <2>5 DEF IInv
<1>8. CASE entry[Peer[c]] = 0
  <2> DEFINE n == Len(counts) + 1
  <2>0. /\ counts' = Append(counts, 0) /\ Len(counts') = n /\ n \in Nat \ {0}
        /\ entry' = [entry EXCEPT ![Peer[c]] = n]
        /\ arc' = [arc EXCEPT ![c] = n]
    BY <1>0, <1>8 DEF IInv, TypeOK
  <2>a. /\ \A k \in 1 .. Len(counts) : counts'[k] = counts[k]
        /\ counts'[n] = 0 /\ counts' \in Seq(0 .. PeerMax)
    BY <1>0, <2>0, CallAssumption DEF IInv, TypeOK
  <2>b. /\ \A e \in Calls : arc[e] \in 0 .. Len(counts) /\ arc[e] # n
        /\ \A p \in Peers : entry[p] \in 0 .. Len(counts) /\ entry[p] # n
    BY <1>0 DEF IInv, TypeOK
  <2>c. /\ arc'[c] = n /\ \A e \in Calls \ {c} : arc'[e] = arc[e]
        /\ entry'[Peer[c]] = n /\ \A p \in Peers \ {Peer[c]} : entry'[p] = entry[p]
    BY <1>0, <2>0 DEF IInv, TypeOK
  <2>d. pc'[c] = "peer_load" /\ \A e \in Calls \ {c} : pc'[e] = pc[e]
    BY DEF Go, IInv, TypeOK
  <2>1. TypeOK'
    BY <1>0, <2>0, <2>a, <2>b DEF IInv, TypeOK, Go, SlotPC
  <2> HIDE DEF n
  <2>2. PathOK'
    BY <2>0, <2>c, <2>d DEF IInv, PathOK
  <2>3. OwnOK'
    BY <1>0, <2>0, <2>b, <2>c DEF IInv, OwnOK
  <2>4. DrainOK'
    <3> SUFFICES ASSUME NEW p \in Peers, entry'[p] # 0, counts'[entry'[p]] = 0
                 PROVE  \E e \in Calls : Attends(e, entry[p])'
      BY DEF DrainOK
    <3>1. CASE p = Peer[c]
      BY <3>1, <2>c, <2>d DEF Attends
    <3>2. CASE p # Peer[c]
      <4>1. entry'[p] = entry[p] /\ entry[p] \in 1 .. Len(counts)
        BY <2>c, <3>2, Counters DEF IInv
      <4>2. PICK e \in Calls : Attends(e, entry[p])
        BY <4>1, <2>a DEF IInv, DrainOK
      <4>3. e # c
        BY <4>2 DEF Attends
      <4> QED BY <4>1, <4>2, <4>3, <2>c, <2>d DEF Attends
    <3> QED BY <3>1, <3>2
  <2>5. PeerCountExact'
    <3> SUFFICES ASSUME NEW k \in 1 .. Len(counts')
                 PROVE  counts'[k] = Cardinality(Admitted(k)')
      BY DEF PeerCountExact, Admitted
    <3>1. CASE k = n
      <4>1. Admitted(k)' = {}
        BY <3>1, <2>b, <2>c, <2>d DEF Admitted, PeerSlotPC
      <4> QED BY <3>1, <4>1, <2>a, FS_EmptySet
    <3>2. CASE k # n
      <4>1. k \in 1 .. Len(counts)
        BY <1>0, <2>0, <3>2 DEF n
      <4>2. Admitted(k)' = Admitted(k)
        BY <3>2, <1>0, <2>c, <2>d DEF Admitted, PeerSlotPC
      <4> QED BY <4>1, <4>2, <2>a DEF IInv, PeerCountExact, Admitted
    <3> QED BY <3>1, <3>2
  <2> QED BY <1>5, <1>6, <2>1, <2>2, <2>3, <2>4, <2>5 DEF IInv
<1> QED BY <1>7, <1>8

\* A call that moves on without touching a counter or the table keeps every
\* counter attended when it attends one itself or did not attend one before.
LEMMA DrainKept ==
  ASSUME TypeOK, DrainOK, NEW c \in Calls,
         UNCHANGED <<arc, counts, entry>>,
         \A e \in Calls \ {c} : pc'[e] = pc[e] /\ seen'[e] = seen[e],
         arc[c] # 0 /\ counts[arc[c]] = 0 /\ Attends(c, arc[c]) => Attends(c, arc[c])'
  PROVE  DrainOK'
<1> SUFFICES ASSUME NEW p \in Peers, entry[p] # 0, counts[entry[p]] = 0
             PROVE  \E e \in Calls : Attends(e, entry[p])'
  BY DEF DrainOK
<1>1. PICK e \in Calls : Attends(e, entry[p])
  BY DEF DrainOK
<1>2. CASE e = c
  BY <1>1, <1>2 DEF Attends
<1>3. CASE e # c
  BY <1>1, <1>3 DEF Attends
<1> QED BY <1>2, <1>3

\* The first load of the peer counter.
LEMMA PeerLoadOK ==
  ASSUME IInv, NEW c \in Calls, PeerLoad(c)
  PROVE  IInv'
<1> USE DEF PeerLoad, At
<1>0. /\ arc[c] \in 1 .. Len(counts) /\ counts[arc[c]] \in Nat
      /\ pc'[c] = "peer_cas" /\ seen'[c] = counts[arc[c]]
      /\ \A e \in Calls \ {c} : pc'[e] = pc[e] /\ seen'[e] = seen[e]
  <2>1. arc[c] \in 1 .. Len(counts)
    BY Counters DEF IInv, PathOK
  <2>2. counts[arc[c]] \in Nat
    BY <2>1, Counters DEF IInv
  <2> QED BY <2>1, <2>2 DEF IInv, TypeOK, Go
<1>1. TypeOK'
  BY <1>0 DEF IInv, TypeOK, Go, SlotPC
<1>2. PathOK'
  BY <1>0 DEF IInv, PathOK
<1>3. OwnOK'
  BY DEF IInv, OwnOK
<1>4. DrainOK'
  <2>1. counts[arc[c]] = 0 => Attends(c, arc[c])'
    BY <1>0, CallAssumption DEF Attends
  <2> QED BY <1>0, <2>1, DrainKept DEF IInv
<1>5. InFlightExact'
  BY SlotsKept DEF IInv, SlotPC, TaskPC
<1>6. StuckExact'
  BY DEF IInv, StuckExact
<1>7. PeerCountExact'
  BY AdmittedKept DEF IInv, PeerSlotPC
<1> QED BY <1>1, <1>2, <1>3, <1>4, <1>5, <1>6, <1>7 DEF IInv

\* A counter that a call steps to v while moving from a place where it attends
\* or holds it to another one: what the rest of the table sees of it.
LEMMA CounterStep ==
  ASSUME IInv, NEW c \in Calls, arc[c] # 0, NEW v \in 0 .. PeerMax,
         counts' = [counts EXCEPT ![arc[c]] = v], UNCHANGED <<arc, entry>>
  PROVE  /\ counts' \in Seq(0 .. PeerMax) /\ Len(counts') = Len(counts)
         /\ counts'[arc[c]] = v
         /\ \A k \in 1 .. Len(counts) : k # arc[c] => counts'[k] = counts[k]
         /\ arc[c] \in 1 .. Len(counts)
<1>1. arc[c] \in 1 .. Len(counts)
  BY Counters DEF IInv
<1> DEFINE S == 0 .. PeerMax
<1>2. counts \in Seq(S) /\ v \in S
  BY DEF IInv, TypeOK
<1> HIDE DEF S
<1>3. counts' \in Seq(S) /\ Len(counts') = Len(counts)
  BY <1>1, <1>2
<1>4. counts'[arc[c]] = v /\ \A k \in 1 .. Len(counts) : k # arc[c] => counts'[k] = counts[k]
  BY <1>1, <1>2
<1> QED BY <1>1, <1>3, <1>4 DEF S

\* A round of the CAS loop on the peer counter.
LEMMA PeerAdmitOK ==
  ASSUME IInv, NEW c \in Calls, PeerAdmit(c)
  PROVE  IInv'
<1> USE DEF PeerAdmit, At
<1>0. /\ arc[c] # 0 /\ arc[c] \in 1 .. Len(counts) /\ counts[arc[c]] \in 0 .. PeerMax
      /\ seen[c] \in Nat /\ account[c] \notin {"running", "timed_out"}
  <2>1. arc[c] # 0 /\ account[c] \notin {"running", "timed_out"} /\ seen[c] \in Nat
    BY DEF IInv, PathOK, TypeOK
  <2>2. arc[c] \in 1 .. Len(counts)
    BY <2>1, Counters DEF IInv
  <2> QED BY <2>1, <2>2, Counters DEF IInv
<1>3. OwnOK'
  BY DEF IInv, OwnOK
<1>7. CASE seen[c] >= PeerMax
  <2>0. Go(c, "refuse") /\ UNCHANGED <<seen, counts, account>>
    BY <1>0, <1>7, CallAssumption
  <2>1. TypeOK'
    BY <2>0 DEF IInv, TypeOK, Go, SlotPC
  <2>2. PathOK'
    BY <2>0 DEF IInv, TypeOK, PathOK, Go
  <2>3. DrainOK'
    <3>1. ~ Attends(c, arc[c])
      BY <1>0, <1>7, CallAssumption DEF Attends
    <3>2. \A e \in Calls \ {c} : pc'[e] = pc[e] /\ seen'[e] = seen[e]
      BY <2>0 DEF IInv, TypeOK, Go
    <3> QED BY <2>0, <3>1, <3>2, DrainKept DEF IInv
  <2>4. InFlightExact'
    BY <2>0, SlotsKept DEF IInv, SlotPC, TaskPC
  <2>5. StuckExact'
    BY <2>0 DEF IInv, StuckExact
  <2>6. PeerCountExact'
    BY <2>0, AdmittedKept DEF IInv, PeerSlotPC
  <2> QED BY <1>3, <2>1, <2>2, <2>3, <2>4, <2>5, <2>6 DEF IInv
<1>8. CASE seen[c] < PeerMax /\ seen[c] = counts[arc[c]]
  <2> DEFINE v == counts[arc[c]] + 1
  <2>0. /\ counts' = [counts EXCEPT ![arc[c]] = v] /\ v \in 0 .. PeerMax /\ v > 0
        /\ account' = [account EXCEPT ![c] = "running"] /\ Go(c, "run") /\ UNCHANGED seen
    BY <1>0, <1>8, CallAssumption
  <2> HIDE DEF v
  <2>a. /\ counts' \in Seq(0 .. PeerMax) /\ Len(counts') = Len(counts)
        /\ counts'[arc[c]] = v
        /\ \A k \in 1 .. Len(counts) : k # arc[c] => counts'[k] = counts[k]
    BY <1>0, <2>0, CounterStep
  <2>b. pc'[c] = "run" /\ \A e \in Calls \ {c} : pc'[e] = pc[e]
    BY <2>0 DEF IInv, TypeOK, Go
  <2>1. TypeOK'
    BY <2>0, <2>a DEF IInv, TypeOK, Go, SlotPC, TaskPC
  <2>2. PathOK'
    BY <2>0 DEF IInv, TypeOK, PathOK, Go
  <2>3. DrainOK'
    <3> SUFFICES ASSUME NEW p \in Peers, entry[p] # 0, counts'[entry[p]] = 0
                 PROVE  \E e \in Calls : Attends(e, entry[p])'
      BY DEF DrainOK
    <3>1. entry[p] # arc[c] /\ entry[p] \in 1 .. Len(counts)
      BY <2>0, <2>a, Counters DEF IInv
    <3>2. PICK e \in Calls : Attends(e, entry[p])
      BY <3>1, <2>a DEF IInv, DrainOK
    <3>3. e # c
      BY <3>1, <3>2 DEF Attends
    <3> QED BY <2>0, <2>b, <3>2, <3>3 DEF Attends
  <2>4. InFlightExact'
    BY <2>0, SlotsKept DEF IInv, SlotPC, TaskPC
  <2>5. StuckExact'
    BY <1>0, <2>0, StuckKept DEF IInv
  <2>6. PeerCountExact'
    <3> SUFFICES ASSUME NEW k \in 1 .. Len(counts)
                 PROVE  counts'[k] = Cardinality(Admitted(k)')
      BY <2>a DEF PeerCountExact, Admitted
    <3>0. counts[k] = Cardinality(Admitted(k)) /\ Admitted(k) \in SUBSET Calls
      BY DEF IInv, PeerCountExact, Admitted
    <3>1. CASE k = arc[c]
      <4>1. Admitted(k)' = Admitted(k) \cup {c} /\ c \notin Admitted(k)
        BY <2>b, <3>1 DEF Admitted, PeerSlotPC
      <4>2. Cardinality(Admitted(k)') = Cardinality(Admitted(k)) + 1
        BY <3>0, <4>1, Count
      <4> QED BY <2>a, <3>0, <3>1, <4>2 DEF v
    <3>2. CASE k # arc[c]
      <4>1. Admitted(k)' = Admitted(k)
        BY <2>b, <3>2 DEF Admitted
      <4> QED BY <2>a, <3>0, <3>2, <4>1
    <3> QED BY <3>1, <3>2
  <2> QED BY <1>3, <2>1, <2>2, <2>3, <2>4, <2>5, <2>6 DEF IInv
<1>9. CASE seen[c] < PeerMax /\ seen[c] # counts[arc[c]]
  <2>0. seen' = [seen EXCEPT ![c] = counts[arc[c]]] /\ UNCHANGED <<pc, counts, account>>
    BY <1>0, <1>9, CallAssumption
  <2>1. TypeOK'
    BY <1>0, <2>0 DEF IInv, TypeOK
  <2>2. PathOK' /\ StuckExact' /\ PeerCountExact'
    BY <2>0 DEF IInv, PathOK, StuckExact, PeerCountExact
  <2>3. DrainOK'
    <3>1. counts[arc[c]] = 0 => Attends(c, arc[c])'
      BY <2>0, CallAssumption DEF Attends, IInv, TypeOK
    <3>2. \A e \in Calls \ {c} : pc'[e] = pc[e] /\ seen'[e] = seen[e]
      BY <2>0 DEF IInv, TypeOK
    <3> QED BY <2>0, <3>1, <3>2, DrainKept DEF IInv
  <2>4. InFlightExact'
    BY <2>0 DEF IInv, InFlightExact, Slots
  <2> QED BY <1>3, <2>1, <2>2, <2>3, <2>4 DEF IInv
<1> QED BY <1>7, <1>8, <1>9

\* A call that gives its breaker slot back and ends, refused or served.
LEMMA ReleaseOK ==
  ASSUME IInv, NEW c \in Calls, Refuse(c) \/ ReleaseSlot(c)
  PROVE  IInv'
<1>0. /\ pc[c] \in {"refuse", "release"} /\ inFlight' = inFlight - 1
      /\ Go(c, "done") /\ Answer(c)
      /\ UNCHANGED <<seen, arc, account, stuck, counts, entry>>
  BY DEF Refuse, ReleaseSlot, At
<1>1. InFlightExact' /\ inFlight > 0
  BY <1>0, SlotsDropped DEF IInv, SlotPC, TaskPC
<1>2. TypeOK'
  <2>1. caller' \in [Calls -> {"waiting", "answered", "timed_out", "cancelled"}]
    BY <1>0 DEF IInv, TypeOK, Answer
  <2>2. inFlight' \in 0 .. Max
    BY <1>0, <1>1, CallAssumption DEF IInv, TypeOK
  <2> QED BY <1>0, <2>1, <2>2 DEF IInv, TypeOK, Go
<1>3. PathOK'
  BY <1>0 DEF IInv, TypeOK, PathOK, Go
<1>4. OwnOK' /\ StuckExact'
  BY <1>0 DEF IInv, OwnOK, StuckExact
<1>5. DrainOK'
  <2>1. ~ Attends(c, arc[c])
    BY <1>0 DEF Attends
  <2>2. \A e \in Calls \ {c} : pc'[e] = pc[e] /\ seen'[e] = seen[e]
    BY <1>0 DEF IInv, TypeOK, Go
  <2> QED BY <1>0, <2>1, <2>2, DrainKept DEF IInv
<1>6. PeerCountExact'
  BY <1>0, AdmittedKept DEF IInv, PeerSlotPC
<1> QED BY <1>1, <1>2, <1>3, <1>4, <1>5, <1>6 DEF IInv

-----------------------------------------------------------------------------
(* The caller and the blocking task *)

\* Every timed-out call still runs, so the gauge stays within the breaker.
LEMMA StuckBound ==
  ASSUME NEW S \in SUBSET Calls, NEW T \in SUBSET S, NEW n \in 0 .. Max,
         n = Cardinality(S)
  PROVE  Cardinality(T) \in 0 .. Max
<1>1. Cardinality(T) \in Nat /\ Cardinality(T) <= Cardinality(S)
  BY Count
<1> QED BY <1>1, CallAssumption

\* A timeout moves the gauge once, and only for a call that still runs.
LEMMA TimeoutOK ==
  ASSUME IInv, NEW c \in Calls, Timeout(c)
  PROVE  IInv'
<1> USE DEF Timeout
<1>1. PathOK'
  BY DEF IInv, TypeOK, PathOK
<1>2. OwnOK' /\ PeerCountExact'
  BY DEF IInv, OwnOK, PeerCountExact
<1>3. DrainOK'
  BY DEF IInv, DrainOK, Attends
<1>4. InFlightExact'
  BY DEF IInv, InFlightExact, Slots
<1>5. StuckExact'
  <2>1. CASE account[c] = "running"
    <3>1. TimedOut' = TimedOut \cup {c} /\ c \notin TimedOut /\ TimedOut \in SUBSET Calls
      BY <2>1 DEF IInv, TypeOK, TimedOut
    <3>2. Cardinality(TimedOut') = Cardinality(TimedOut) + 1
      BY <3>1, Count
    <3> QED BY <2>1, <3>2 DEF IInv, StuckExact, TimedOut
  <2>2. CASE account[c] # "running"
    BY <2>2 DEF IInv, StuckExact
  <2> QED BY <2>1, <2>2
<1>6. stuck' \in 0 .. Max
  <2>1. TimedOut' \in SUBSET Slots' /\ Slots' \in SUBSET Calls
    BY <1>1 DEF TimedOut, Slots, PathOK, SlotPC, TaskPC
  <2>2. inFlight' \in 0 .. Max /\ inFlight' = Cardinality(Slots')
    BY <1>4 DEF IInv, TypeOK, InFlightExact
  <2>3. Cardinality(TimedOut') \in 0 .. Max
    BY <2>1, <2>2, StuckBound
  <2> QED BY <1>5, <2>3 DEF StuckExact, TimedOut
<1>7. TypeOK'
  BY <1>6 DEF IInv, TypeOK
<1> QED BY <1>1, <1>2, <1>3, <1>4, <1>5, <1>7 DEF IInv

\* A caller that goes away leaves every counter to the blocking task.
LEMMA CancelOK ==
  ASSUME IInv, NEW c \in Calls, Cancel(c)
  PROVE  IInv'
<1> USE DEF Cancel
<1>1. TypeOK'
  BY DEF IInv, TypeOK
<1>2. PathOK' /\ OwnOK' /\ PeerCountExact' /\ StuckExact'
  BY DEF IInv, PathOK, OwnOK, PeerCountExact, StuckExact
<1>3. DrainOK'
  BY DEF IInv, DrainOK, Attends
<1>4. InFlightExact'
  BY DEF IInv, InFlightExact, Slots
<1> QED BY <1>1, <1>2, <1>3, <1>4 DEF IInv

\* The provider call returns; no guard is dropped yet.
LEMMA ProviderReturnsOK ==
  ASSUME IInv, NEW c \in Calls, ProviderReturns(c)
  PROVE  IInv'
<1> USE DEF ProviderReturns, At
<1>1. TypeOK'
  BY DEF IInv, TypeOK, Go, SlotPC, TaskPC
<1>2. PathOK'
  BY DEF IInv, TypeOK, PathOK, Go
<1>3. OwnOK' /\ StuckExact'
  BY DEF IInv, OwnOK, StuckExact
<1>4. DrainOK'
  <2>1. ~ Attends(c, arc[c])
    BY DEF Attends
  <2>2. \A e \in Calls \ {c} : pc'[e] = pc[e] /\ seen'[e] = seen[e]
    BY DEF IInv, TypeOK, Go
  <2> QED BY <2>1, <2>2, DrainKept DEF IInv
<1>5. InFlightExact'
  BY SlotsKept DEF IInv, SlotPC, TaskPC
<1>6. PeerCountExact'
  BY AdmittedKept DEF IInv, PeerSlotPC
<1> QED BY <1>1, <1>2, <1>3, <1>4, <1>5, <1>6 DEF IInv

\* The accounting completes, and takes a timed-out call off the gauge.
LEMMA CompleteOK ==
  ASSUME IInv, NEW c \in Calls, Complete(c)
  PROVE  IInv'
<1> USE DEF At
<1> DEFINE l == IF arc[c] = 0 THEN "release" ELSE "peer_sub"
<1>0. /\ pc[c] = "complete" /\ Go(c, l) /\ l \in {"release", "peer_sub"}
      /\ account' = [account EXCEPT ![c] = "completed"]
      /\ stuck' = IF account[c] = "timed_out" THEN stuck - 1 ELSE stuck
      /\ UNCHANGED <<seen, arc, caller, inFlight, counts, entry>>
      /\ arc[c] = 0 \/ l = "peer_sub"
  BY DEF Complete
<1> HIDE DEF l
<1>1. PathOK'
  <2>1. pc'[c] = l /\ \A e \in Calls \ {c} : pc'[e] = pc[e]
    BY <1>0 DEF IInv, TypeOK, Go
  <2>2. account'[c] = "completed" /\ \A e \in Calls \ {c} : account'[e] = account[e]
    BY <1>0 DEF IInv, TypeOK
  <2>3. l = "peer_sub" => arc[c] # 0
    BY DEF l
  <2> QED BY <1>0, <2>1, <2>2, <2>3 DEF IInv, PathOK
<1>2. OwnOK'
  BY <1>0 DEF IInv, OwnOK
<1>3. DrainOK'
  <2>1. ~ Attends(c, arc[c])
    BY <1>0 DEF Attends
  <2>2. \A e \in Calls \ {c} : pc'[e] = pc[e] /\ seen'[e] = seen[e]
    BY <1>0 DEF IInv, TypeOK, Go
  <2> QED BY <1>0, <2>1, <2>2, DrainKept DEF IInv
<1>4. InFlightExact'
  BY <1>0, SlotsKept DEF IInv, SlotPC, TaskPC
<1>5. PeerCountExact'
  BY <1>0, AdmittedKept DEF IInv, PeerSlotPC
<1>6. StuckExact'
  <2>1. CASE account[c] = "timed_out"
    <3>1. TimedOut' = TimedOut \ {c} /\ c \in TimedOut /\ TimedOut \in SUBSET Calls
      BY <1>0, <2>1 DEF IInv, TypeOK, TimedOut
    <3>2. Cardinality(TimedOut') = Cardinality(TimedOut) - 1
      BY <3>1, Count
    <3> QED BY <1>0, <2>1, <3>2 DEF IInv, StuckExact, TimedOut
  <2>2. CASE account[c] # "timed_out"
    BY <1>0, <2>2, StuckKept DEF IInv
  <2> QED BY <2>1, <2>2
<1>7. stuck' \in 0 .. Max
  <2>1. TimedOut' \in SUBSET Slots' /\ Slots' \in SUBSET Calls
    BY <1>1 DEF TimedOut, Slots, PathOK, SlotPC, TaskPC
  <2>2. inFlight' \in 0 .. Max /\ inFlight' = Cardinality(Slots')
    BY <1>0, <1>4 DEF IInv, TypeOK, InFlightExact
  <2>3. Cardinality(TimedOut') \in 0 .. Max
    BY <2>1, <2>2, StuckBound
  <2> QED BY <1>6, <2>3 DEF StuckExact, TimedOut
<1>8. TypeOK'
  BY <1>0, <1>7 DEF IInv, TypeOK, Go, SlotPC, TaskPC
<1> QED BY <1>1, <1>2, <1>3, <1>4, <1>5, <1>6, <1>8 DEF IInv

\* The peer counter goes down; whoever brings it to zero will remove it.
LEMMA PeerSubOK ==
  ASSUME IInv, NEW c \in Calls, PeerSub(c)
  PROVE  IInv'
<1> USE DEF At
<1> DEFINE l == IF counts[arc[c]] = 1 THEN "peer_remove" ELSE "release"
           v == counts[arc[c]] - 1
<1>0. /\ pc[c] = "peer_sub" /\ Go(c, l) /\ l \in {"release", "peer_remove"}
      /\ counts' = [counts EXCEPT ![arc[c]] = v]
      /\ UNCHANGED <<seen, arc, caller, account, inFlight, stuck, entry>>
      /\ arc[c] # 0
  BY DEF PeerSub, IInv, PathOK
<1>a. arc[c] \in 1 .. Len(counts) /\ counts[arc[c]] \in 0 .. PeerMax
  BY <1>0, Counters DEF IInv
<1>b. counts[arc[c]] = Cardinality(Admitted(arc[c])) /\ counts[arc[c]] > 0
  <2>1. c \in Admitted(arc[c]) /\ Admitted(arc[c]) \in SUBSET Calls
    BY <1>0 DEF Admitted, PeerSlotPC
  <2>2. counts[arc[c]] = Cardinality(Admitted(arc[c]))
    BY <1>a DEF IInv, PeerCountExact, Admitted
  <2>3. Cardinality(Admitted(arc[c])) > 0
    BY <2>1, Count
  <2> QED BY <2>2, <2>3
<1>c. v \in 0 .. PeerMax /\ (v = 0 => l = "peer_remove")
  BY <1>a, <1>b, CallAssumption
<1> HIDE DEF l, v
<1>d. /\ counts' \in Seq(0 .. PeerMax) /\ Len(counts') = Len(counts)
      /\ counts'[arc[c]] = v
      /\ \A k \in 1 .. Len(counts) : k # arc[c] => counts'[k] = counts[k]
  BY <1>0, <1>c, CounterStep
<1>e. pc'[c] = l /\ \A e \in Calls \ {c} : pc'[e] = pc[e]
  BY <1>0 DEF IInv, TypeOK, Go
<1>1. TypeOK'
  BY <1>0, <1>d DEF IInv, TypeOK, Go, SlotPC, TaskPC
<1>2. PathOK'
  BY <1>0, <1>e DEF IInv, PathOK
<1>3. OwnOK' /\ StuckExact'
  BY <1>0 DEF IInv, OwnOK, StuckExact
<1>4. DrainOK'
  <2> SUFFICES ASSUME NEW p \in Peers, entry[p] # 0, counts'[entry[p]] = 0
               PROVE  \E e \in Calls : Attends(e, entry[p])'
    BY <1>0 DEF DrainOK
  <2>1. CASE entry[p] = arc[c]
    BY <1>0, <1>c, <1>d, <1>e, <2>1 DEF Attends
  <2>2. CASE entry[p] # arc[c]
    <3>1. entry[p] \in 1 .. Len(counts)
      BY Counters DEF IInv
    <3>2. PICK e \in Calls : Attends(e, entry[p])
      BY <1>d, <2>2, <3>1 DEF IInv, DrainOK
    <3>3. e # c
      BY <2>2, <3>2 DEF Attends
    <3> QED BY <1>0, <1>e, <3>2, <3>3 DEF Attends
  <2> QED BY <2>1, <2>2
<1>5. InFlightExact'
  BY <1>0, SlotsKept DEF IInv, SlotPC, TaskPC
<1>6. PeerCountExact'
  <2> SUFFICES ASSUME NEW k \in 1 .. Len(counts)
               PROVE  counts'[k] = Cardinality(Admitted(k)')
    BY <1>d DEF PeerCountExact, Admitted
  <2>0. counts[k] = Cardinality(Admitted(k)) /\ Admitted(k) \in SUBSET Calls
    BY DEF IInv, PeerCountExact, Admitted
  <2>1. CASE k = arc[c]
    <3>1. Admitted(k)' = Admitted(k) \ {c} /\ c \in Admitted(k)
      BY <1>0, <1>e, <2>1 DEF Admitted, PeerSlotPC
    <3>2. Cardinality(Admitted(k)') = Cardinality(Admitted(k)) - 1
      BY <2>0, <3>1, Count
    <3> QED BY <1>d, <2>0, <2>1, <3>2 DEF v
  <2>2. CASE k # arc[c]
    <3>1. Admitted(k)' = Admitted(k)
      BY <1>0, <1>e, <2>2 DEF Admitted
    <3> QED BY <1>d, <2>0, <2>2, <3>1
  <2> QED BY <2>1, <2>2
<1> QED BY <1>1, <1>2, <1>3, <1>4, <1>5, <1>6 DEF IInv

\* remove_if takes the call's own counter off the table, at zero only.
LEMMA PeerRemoveOK ==
  ASSUME IInv, NEW c \in Calls, PeerRemove(c)
  PROVE  IInv'
<1> USE DEF At
<1>0. /\ pc[c] = "peer_remove" /\ Go(c, "release")
      /\ UNCHANGED <<seen, arc, caller, account, inFlight, stuck, counts>>
      /\ arc[c] # 0 /\ Peer[c] \in Peers
  BY PeerKey DEF PeerRemove, IInv, PathOK
<1>a. /\ \A p \in Peers : entry'[p] = entry[p]
                            \/ (entry'[p] = 0 /\ entry[p] = arc[c])
      /\ entry[Peer[c]] = arc[c] /\ counts[arc[c]] = 0 => entry'[Peer[c]] = 0
      /\ entry' \in [Peers -> 0 .. Len(counts)]
  BY <1>0, Counters DEF PeerRemove, IInv, TypeOK
<1>e. pc'[c] = "release" /\ \A e \in Calls \ {c} : pc'[e] = pc[e]
  BY <1>0 DEF IInv, TypeOK, Go
<1>1. TypeOK'
  BY <1>0, <1>a DEF IInv, TypeOK, Go, SlotPC, TaskPC
<1>2. PathOK'
  BY <1>0, <1>e DEF IInv, PathOK
<1>3. OwnOK'
  BY <1>0, <1>a DEF IInv, OwnOK
<1>4. DrainOK'
  <2> SUFFICES ASSUME NEW p \in Peers, entry'[p] # 0, counts[entry'[p]] = 0
               PROVE  \E e \in Calls : Attends(e, entry[p])'
    BY <1>0 DEF DrainOK
  <2>1. entry'[p] = entry[p]
    BY <1>a
  <2>2. PICK e \in Calls : Attends(e, entry[p])
    BY <2>1 DEF IInv, DrainOK
  <2>3. e # c
    <3>1. SUFFICES ASSUME e = c PROVE FALSE
      OBVIOUS
    <3>2. arc[c] = entry[p] /\ Peer[c] = p
      BY <1>0, <2>1, <2>2, <3>1 DEF Attends, IInv, OwnOK
    <3> QED BY <1>a, <2>1, <3>2
  <2> QED BY <1>0, <1>e, <2>1, <2>2, <2>3 DEF Attends
<1>5. InFlightExact'
  BY <1>0, SlotsKept DEF IInv, SlotPC, TaskPC
<1>6. StuckExact'
  BY <1>0 DEF IInv, StuckExact
<1>7. PeerCountExact'
  BY <1>0, AdmittedKept DEF IInv, PeerSlotPC
<1> QED BY <1>1, <1>2, <1>3, <1>4, <1>5, <1>6, <1>7 DEF IInv

\* Every step of every call preserves the invariant.
LEMMA NextOK == IInv /\ [Next]_vars => IInv'
<1> SUFFICES ASSUME IInv, [Next]_vars PROVE IInv'
  OBVIOUS
<1>1. CASE UNCHANGED vars
  BY <1>1 DEF vars, IInv, TypeOK, PathOK, OwnOK, DrainOK, Attends,
              InFlightExact, Slots, StuckExact, PeerCountExact
<1>2. CASE Next
  <2>1. PICK c \in Calls : Load(c) \/ Step(c) \/ Timeout(c) \/ Cancel(c)
    BY <1>2 DEF Next
  <2> QED BY <2>1, LoadOK, AcquireOK, NoPeerAdmitOK, PeerEntryOK, PeerLoadOK, PeerAdmitOK,
             ReleaseOK, TimeoutOK, CancelOK, ProviderReturnsOK, CompleteOK, PeerSubOK,
             PeerRemoveOK DEF Step
<1> QED BY <1>1, <1>2

-----------------------------------------------------------------------------
(* Theorems *)

\* A peer whose calls have all ended is in the table no more: the counter would
\* either count one of them or be attended by one.
LEMMA Drained == IInv => PeerTableDrains
<1> SUFFICES ASSUME IInv, NEW p \in Peers, entry[p] # 0,
                    \A c \in Calls : Peer[c] = p => pc[c] \in {"new", "cas", "done"}
             PROVE  FALSE
  BY DEF PeerTableDrains
<1>0. entry[p] \in 1 .. Len(counts) /\ counts[entry[p]] \in Nat
  BY Counters DEF IInv
<1>1. CASE counts[entry[p]] = 0
  <2>1. PICK c \in Calls : Attends(c, entry[p])
    BY <1>1 DEF IInv, DrainOK
  <2>2. Peer[c] = p
    BY <2>1 DEF Attends, IInv, OwnOK
  <2> QED BY <2>1, <2>2 DEF Attends
<1>2. CASE counts[entry[p]] # 0
  <2>1. Cardinality(Admitted(entry[p])) # 0
    BY <1>0, <1>2 DEF IInv, PeerCountExact, Admitted
  <2>2. PICK c \in Calls : arc[c] = entry[p] /\ pc[c] \in PeerSlotPC
    BY <2>1, FS_EmptySet DEF Admitted
  <2>3. Peer[c] = p
    BY <2>2 DEF IInv, OwnOK
  <2> QED BY <2>2, <2>3 DEF PeerSlotPC
<1> QED BY <1>1, <1>2

\* The variables of spawn_backend keep their types: in particular the breaker
\* and the stuck gauge stay within max_concurrent_backend_calls and every peer
\* counter within per_connection_max_in_flight, and none underflows.
THEOREM TypeCorrect == Spec => []TypeOK
<1>1. IInv => TypeOK
  BY DEF IInv
<1> QED BY <1>1, InitOK, NextOK, PTL DEF Spec

\* Every breaker slot is held by exactly one call and returned once, whatever
\* timeouts, cancellations and refusals happen (InFlightGuard).
THEOREM BreakerExact == Spec => []InFlightExact
<1>1. IInv => InFlightExact
  BY DEF IInv
<1> QED BY <1>1, InitOK, NextOK, PTL DEF Spec

\* The stuck gauge is the number of timed-out calls whose provider has not
\* returned (StuckCallAccounting).
THEOREM GaugeExact == Spec => []StuckExact
<1>1. IInv => StuckExact
  BY DEF IInv
<1> QED BY <1>1, InitOK, NextOK, PTL DEF Spec

\* Every peer counter is the number of its admitted calls, in the table or not
\* (try_admit_peer, PeerAdmissionGuard::drop).
THEOREM PeersExact == Spec => []PeerCountExact
<1>1. IInv => PeerCountExact
  BY DEF IInv
<1> QED BY <1>1, InitOK, NextOK, PTL DEF Spec

\* A peer without calls has no entry in PEER_IN_FLIGHT, although a clone of its
\* counter may be counted on between the decrement and the removal.
THEOREM TableDrains == Spec => []PeerTableDrains
<1> QED BY Drained, InitOK, NextOK, PTL DEF Spec

=============================================================================
