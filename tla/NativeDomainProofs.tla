-------------------------- MODULE NativeDomainProofs --------------------------
(***************************************************************************)
(* NativeDomain implements ModuleUse and never serves a dead binding, for  *)
(* any threads and any limits of the epoch and of the generation.          *)
(***************************************************************************)
EXTENDS NativeDomain, TLAPS

-----------------------------------------------------------------------------
(* The inductive invariant *)

PC == LockPC \cup BarePC \cup FreePC

\* Where a control call holds an InitTicket, and where a FinalizeTicket.
InitPC == {"attempt", "c_initialize", "returned", "count", "load", "apply", "changed",
           "publish_open", "abandon_native", "abandon_refused"}
FinPC == {"enter_finalizing", "seal_count", "c_finalize", "publish_fin", "abandon_fin"}

CtlType == [pc : PC, waiting : BOOLEAN, prior : Stable \cup Transient, epoch : Nat,
            gen : Nat, mark : BOOLEAN, seal : Nat]

TrkType == [attempted : BOOLEAN, since : BOOLEAN, initialized : BOOLEAN,
            finalized_ok : BOOLEAN, failed : BOOLEAN, gen : Nat, completions : Nat]

DomType == [state : Stable \cup Transient, epoch : 0 .. MaxEpoch]

Types ==
  /\ dom \in DomType
  /\ trk \in TrkType
  /\ ctl \in [Controls -> CtlType]
  /\ ord \in [Ops -> {"idle", "passed", "native", "probe"}]
  /\ slot \in {"Active", "Retiring", "Poisoned"}
  /\ up \in BOOLEAN

\* No two tickets are from the same epoch, none is from the future, and one of
\* the current epoch determines the state of the domain.  A FinalizeTicket is
\* always current: begin_initialize is denied while there is one.
TicketOK ==
  /\ \A c \in Controls :
       /\ ctl[c].pc \in InitPC \cup FinPC => ctl[c].epoch <= dom.epoch
       /\ ctl[c].pc \in InitPC /\ ctl[c].epoch = dom.epoch => dom.state = "Initializing"
       /\ ctl[c].pc \in FinPC =>
            /\ ctl[c].epoch = dom.epoch /\ ctl[c].prior = "Open"
            /\ dom.state = IF ctl[c].pc = "enter_finalizing" THEN "Draining" ELSE "Finalizing"
  /\ \A c, d \in Controls :
       c # d /\ ctl[c].pc \in InitPC \cup FinPC /\ ctl[d].pc \in InitPC \cup FinPC
         => ctl[c].epoch # ctl[d].epoch

\* Calls borrow the backend, and ordinary ones are inside the module only while
\* the domain is open.
BorrowOK ==
  /\ \A c \in Controls : ctl[c].pc # "idle" => slot = "Active"
  /\ \A o \in Ops : ord[o] # "idle" => slot = "Active"
  /\ \A o \in Ops : ord[o] = "native" => dom.state = "Open"

\* C_Initialize has succeeded in this control call.
SucceededPC == {"returned", "count", "load", "apply", "changed", "publish_open",
                "abandon_refused"}

\* The module is live, and the tracker has an attempt that no Finalize has
\* taken back, while the domain is open, being closed, or about to be reopened.
LiveOK ==
  /\ dom.state \in {"Open", "Draining"} => up
  /\ dom.state \in {"Open", "Draining", "Finalizing"} => trk.since
  /\ \A c \in Controls :
       /\ ctl[c].pc \in {"seal_count", "c_finalize", "abandon_fin"} => up
       /\ ctl[c].pc \in InitPC /\ ctl[c].epoch = dom.epoch =>
            /\ ctl[c].prior = "Open" \/ ctl[c].pc \in SucceededPC => up
            /\ ctl[c].prior = "Open" \/ ctl[c].pc # "attempt" => trk.since

\* A C_Initialize that has returned and is not counted yet, and one of which
\* the tracker will still take note.
Uncounted(c) == ctl[c].pc \in {"returned", "count", "abandon_native"}
Pending(c) ==
  \/ ctl[c].pc \in {"returned", "count", "load", "abandon_native", "abandon_refused"}
  \/ ctl[c].pc = "apply" /\ ctl[c].mark

\* What the tracker knows of a live module: it was attempted; a Finalize that
\* would cancel the attempt finds the completions moved, or the completion is
\* still to be counted; and a finalized tracker is corrected before the control
\* calls are over.
TrackOK ==
  /\ up => trk.attempted
  /\ \A c \in Controls :
       /\ ctl[c].pc = "c_initialize" => trk.attempted
       /\ ctl[c].pc \in {"c_finalize", "publish_fin"} => ctl[c].seal <= trk.completions
       /\ ctl[c].pc = "publish_fin" /\ up /\ ctl[c].seal = trk.completions
            => \E d \in Controls : Uncounted(d)
  /\ up /\ trk.finalized_ok /\ ~trk.since => \E c \in Controls : Pending(c)

\* The library is unloaded only when the module is down.
UnloadOK == slot = "Retiring" => ~up

\* Bindings are of the live incarnation, unless a Finalize is about to purge
\* them or the domain has run out of epochs and never opens again.
BindOK ==
  \/ binds = {} \/ (up /\ binds = {inc})
  \/ \E c \in Controls : ctl[c].pc = "publish_fin"
  \/ dom = [state |-> "Uncertain", epoch |-> MaxEpoch]

IInv ==
  /\ Types /\ TicketOK /\ BorrowOK /\ LiveOK
  /\ TrackOK /\ UnloadOK /\ BindOK

-----------------------------------------------------------------------------
(* What a step does to the control calls *)

Kept(c) == \A d \in Controls \ {c} : ctl'[d] = ctl[d]

SameTicket(c) ==
  /\ ctl'[c].epoch = ctl[c].epoch /\ ctl'[c].prior = ctl[c].prior
  /\ ctl'[c].seal = ctl[c].seal /\ ctl'[c].mark = ctl[c].mark

\* The record of one control call is replaced.
LEMMA RecordFacts ==
  ASSUME Types, NEW c \in Controls, NEW r \in CtlType, ctl' = [ctl EXCEPT ![c] = r]
  PROVE  Kept(c) /\ ctl'[c] = r /\ ctl' \in [Controls -> CtlType]
BY DEF Types, Kept

\* A control call that only moves keeps its ticket.
LEMMA GoFacts ==
  ASSUME Types, NEW c \in Controls, NEW l \in PC, Go(c, l)
  PROVE  Kept(c) /\ SameTicket(c) /\ ctl'[c].pc = l /\ ctl' \in [Controls -> CtlType]
<1> DEFINE r == [ctl[c] EXCEPT !.pc = l, !.waiting = FALSE]
<1>1. ctl[c] \in CtlType
  BY DEF Types
<1>2. r \in CtlType
  BY <1>1 DEF CtlType
<1>3. /\ r.pc = l /\ r.epoch = ctl[c].epoch /\ r.prior = ctl[c].prior
      /\ r.seal = ctl[c].seal /\ r.mark = ctl[c].mark
  BY <1>1 DEF CtlType
<1>4. ctl' = [ctl EXCEPT ![c] = r]
  BY DEF Go
<1> HIDE DEF r
<1> QED BY <1>2, <1>3, <1>4 DEF Types, Kept, SameTicket

\* A control call that returns gives its ticket up.
LEMMA ReturnFacts ==
  ASSUME Types, NEW c \in Controls, Return(c)
  PROVE  Kept(c) /\ ctl'[c].pc = "idle" /\ ctl' \in [Controls -> CtlType]
<1>1. idle \in CtlType /\ idle.pc = "idle"
  BY DEF idle, CtlType, PC, FreePC, Stable
<1> QED BY <1>1 DEF Return, Types, Kept

\* The tickets, when a control call moves without touching the domain.
LEMMA TicketKept ==
  ASSUME TicketOK, NEW c \in Controls, Kept(c), UNCHANGED dom,
         ctl'[c].pc \in InitPC => ctl[c].pc \in InitPC,
         ctl'[c].pc \in FinPC =>
           ctl[c].pc \in FinPC
             /\ (ctl'[c].pc = "enter_finalizing" <=> ctl[c].pc = "enter_finalizing"),
         ctl'[c].pc \in InitPC \cup FinPC =>
           ctl'[c].epoch = ctl[c].epoch /\ ctl'[c].prior = ctl[c].prior
  PROVE  TicketOK'
<1>1. \A d \in Controls :
        /\ ctl'[d].pc \in InitPC \cup FinPC => ctl'[d].epoch <= dom.epoch
        /\ ctl'[d].pc \in InitPC /\ ctl'[d].epoch = dom.epoch => dom.state = "Initializing"
        /\ ctl'[d].pc \in FinPC =>
             /\ ctl'[d].epoch = dom.epoch /\ ctl'[d].prior = "Open"
             /\ dom.state = IF ctl'[d].pc = "enter_finalizing" THEN "Draining" ELSE "Finalizing"
  BY DEF TicketOK, Kept
<1>2. \A d \in Controls : ctl'[d].pc \in InitPC \cup FinPC =>
        ctl[d].pc \in InitPC \cup FinPC /\ ctl'[d].epoch = ctl[d].epoch
  BY DEF Kept
<1>3. \A d, e \in Controls :
        d # e /\ ctl'[d].pc \in InitPC \cup FinPC /\ ctl'[e].pc \in InitPC \cup FinPC
          => ctl'[d].epoch # ctl'[e].epoch
  BY <1>2 DEF TicketOK
<1> QED BY <1>1, <1>3 DEF TicketOK

\* Control calls borrow the backend, and readers keep the domain open.
LEMMA BorrowKept ==
  ASSUME BorrowOK, NEW c \in Controls, Kept(c), slot = "Active", UNCHANGED <<ord, slot>>,
         UNCHANGED dom \/ Readers = {}
  PROVE  BorrowOK'
BY DEF BorrowOK, Kept, Readers

\* A FinalizeTicket is the only current ticket.
LEMMA FinAlone ==
  ASSUME TicketOK, NEW c \in Controls, ctl[c].pc \in FinPC
  PROVE  /\ \A d \in Controls \ {c} : ctl[d].pc \notin FinPC
         /\ \A d \in Controls : ctl[d].pc \in InitPC => ctl[d].epoch # dom.epoch
         /\ dom.state \in {"Draining", "Finalizing"}
BY DEF TicketOK, InitPC, FinPC

-----------------------------------------------------------------------------
(* Ordinary calls, the drop of the backend and its reload *)

\* The initial states satisfy the invariant.
LEMMA InitOK == Init => IInv
<1> SUFFICES ASSUME Init PROVE IInv
  OBVIOUS
<1>1. idle \in CtlType /\ idle.pc = "idle"
  BY DEF idle, CtlType, PC, FreePC, Stable
<1>2. \A c \in Controls : ctl[c].pc = "idle"
  BY <1>1 DEF Init
<1>3. Types
  <2>1. dom \in DomType
    BY DomainAssumption DEF Init, DomType, Stable
  <2>2. trk \in TrkType
    BY DEF Init, TrkType, freshTracker
  <2> QED BY <1>1, <2>1, <2>2 DEF Init, Types
<1>4. TicketOK
  BY <1>2 DEF TicketOK, InitPC, FinPC
<1>5. BorrowOK /\ UnloadOK /\ BindOK
  BY <1>2 DEF Init, BorrowOK, UnloadOK, BindOK
<1>6. LiveOK
  BY <1>2 DEF Init, LiveOK, InitPC
<1>7. TrackOK
  BY <1>2 DEF Init, TrackOK
<1> QED BY <1>3, <1>4, <1>5, <1>6, <1>7 DEF IInv

OrdinaryStep(o) ==
  AdmitSpin(o) \/ AdmitRead(o) \/ OrdReturn(o) \/ Probe(o) \/ ProbeReturn(o)

\* An ordinary call passes the spin, enters or leaves; a probe enters or
\* leaves.
LEMMA OrdinaryOK ==
  ASSUME IInv, NEW o \in Ops, OrdinaryStep(o)
  PROVE  IInv'
<1>0. /\ UNCHANGED <<dom, trk, ctl, slot, up, inc>>
      /\ ord' \in [Ops -> {"idle", "passed", "native", "probe"}]
      /\ \A q \in Ops : ord'[q] # "idle" => slot = "Active"
      /\ \A q \in Ops : ord'[q] = "native" => dom.state = "Open"
      /\ binds' \in {binds, binds \cup {inc}}
  BY DEF OrdinaryStep, AdmitSpin, AdmitRead, OrdReturn, Probe, ProbeReturn, IInv, Types, BorrowOK
<1>a. binds' # binds => dom.state = "Open"
  BY DEF OrdinaryStep, AdmitSpin, AdmitRead, OrdReturn, Probe, ProbeReturn, IInv, BorrowOK
<1>1. Types'
  BY <1>0 DEF IInv, Types
<1>2. TicketOK'
  BY <1>0 DEF IInv, TicketOK
<1>3. BorrowOK'
  BY <1>0 DEF IInv, BorrowOK
<1>4. LiveOK'
  BY <1>0 DEF IInv, LiveOK
<1>5. TrackOK' /\ UnloadOK'
  BY <1>0 DEF IInv, TrackOK, UnloadOK, Uncounted, Pending
<1>6. BindOK'
  <2>1. CASE binds' = binds
    BY <1>0, <2>1 DEF IInv, BindOK
  <2>2. CASE dom.state = "Open"
    BY <1>0, <2>2 DEF IInv, BindOK, LiveOK, TicketOK, FinPC
  <2> QED BY <1>a, <2>1, <2>2
<1> QED BY <1>1, <1>2, <1>3, <1>4, <1>5, <1>6 DEF IInv

\* The drop of the backend unloads a module that is down, or stops the process.
LEMMA DropBackendOK ==
  ASSUME IInv, DropBackend
  PROVE  IInv'
<1> USE DEF DropBackend
<1>1. Types' /\ TicketOK' /\ LiveOK' /\ BindOK'
  BY DEF IInv, Types, TicketOK, LiveOK, BindOK
<1>2. BorrowOK'
  BY DEF IInv, BorrowOK
<1>3. TrackOK'
  BY DEF IInv, TrackOK, Uncounted, Pending
<1>4. UnloadOK'
  BY DEF IInv, TrackOK, Pending, Release, UnloadOK
<1> QED BY <1>1, <1>2, <1>3, <1>4 DEF IInv

\* A backend that is loaded again starts from a fresh domain.
LEMMA ReloadOK ==
  ASSUME IInv, Reload
  PROVE  IInv'
<1> USE DEF Reload
<1>0. ~up /\ \A c \in Controls : ctl[c].pc = "idle"
  BY DEF IInv, UnloadOK, BorrowOK
<1>a. /\ dom' \in DomType /\ dom'.state = "LoadedUninitialized"
      /\ trk' \in TrkType
  BY DomainAssumption DEF DomType, Stable, TrkType, freshTracker
<1>1. Types'
  BY <1>a DEF IInv, Types
<1>2. TicketOK'
  BY <1>0 DEF TicketOK, InitPC, FinPC
<1>3. BorrowOK' /\ UnloadOK' /\ BindOK'
  BY <1>0 DEF IInv, BorrowOK, UnloadOK, BindOK
<1>4. LiveOK'
  BY <1>0, <1>a DEF LiveOK, InitPC
<1>5. TrackOK'
  BY <1>0 DEF TrackOK
<1> QED BY <1>1, <1>2, <1>3, <1>4, <1>5 DEF IInv

-----------------------------------------------------------------------------
(* Control calls: steps that leave the domain and the module alone *)

\* A control call that moves on, where its move claims nothing new.
LEMMA MoveOK ==
  ASSUME IInv, NEW c \in Controls, Kept(c), ctl' \in [Controls -> CtlType],
         slot = "Active", UNCHANGED <<dom, trk, ord, slot, up, inc, binds>>,
         ctl'[c].pc \in InitPC => ctl[c].pc \in InitPC,
         ctl'[c].pc \in FinPC =>
           ctl[c].pc \in FinPC
             /\ (ctl'[c].pc = "enter_finalizing" <=> ctl[c].pc = "enter_finalizing"),
         ctl'[c].pc \in InitPC \cup FinPC =>
           ctl'[c].epoch = ctl[c].epoch /\ ctl'[c].prior = ctl[c].prior,
         ctl'[c].pc \in {"seal_count", "c_finalize", "abandon_fin"} =>
           ctl[c].pc \in {"seal_count", "c_finalize", "abandon_fin"},
         ctl'[c].pc \in SucceededPC => ctl[c].pc \in SucceededPC,
         ctl'[c].pc \in InitPC /\ ctl[c].pc = "attempt" => ctl'[c].pc = "attempt",
         ctl'[c].pc = "c_initialize" => ctl[c].pc = "c_initialize",
         ctl'[c].pc = "c_finalize" =>
           ctl'[c].seal = trk.completions
             \/ (ctl[c].pc = "c_finalize" /\ ctl'[c].seal = ctl[c].seal),
         ctl'[c].pc = "publish_fin" <=> ctl[c].pc = "publish_fin",
         ctl'[c].pc = "publish_fin" => ctl'[c].seal = ctl[c].seal,
         Uncounted(c) => Uncounted(c)',
         trk.finalized_ok /\ Pending(c) => Pending(c)'
  PROVE  IInv'
<1>1. Types'
  BY DEF IInv, Types
<1>2. TicketOK'
  BY TicketKept DEF IInv
<1>3. BorrowOK' /\ UnloadOK'
  BY BorrowKept DEF IInv, UnloadOK
<1>4. LiveOK'
  BY DEF IInv, LiveOK, Kept
<1>5. TrackOK'
  <2>1. \A d \in Controls : Uncounted(d) => Uncounted(d)'
    BY DEF Kept, Uncounted
  <2>2. \A d \in Controls : trk.finalized_ok /\ Pending(d) => Pending(d)'
    BY DEF Kept, Pending
  <2>3. trk.completions <= trk.completions
    BY DEF IInv, Types, TrkType
  <2> QED BY <2>1, <2>2, <2>3 DEF IInv, TrackOK, Kept
<1>6. BindOK'
  BY DEF IInv, BindOK, Kept
<1> QED BY <1>1, <1>2, <1>3, <1>4, <1>5, <1>6 DEF IInv

\* A control call that is not idle borrows the backend.
LEMMA Borrowed ==
  ASSUME IInv, NEW c \in Controls, ctl[c].pc # "idle"
  PROVE  slot = "Active"
BY DEF IInv, BorrowOK

\* The place names that the moves below use.
LEMMA Places ==
  /\ {"begin_init", "begin_fin", "c_initialize", "returned", "abandon_native", "load",
      "abandon_refused", "changed", "seal_count", "publish_fin", "abandon_fin",
      "count", "apply", "publish_open", "c_finalize", "attempt", "enter_finalizing"} \subseteq PC
  /\ LockPC \subseteq PC
BY DEF PC, LockPC, BarePC, FreePC

\* The control call is counted as waiting.
LEMMA RaiseWaitingOK ==
  ASSUME IInv, NEW c \in Controls, RaiseWaiting(c)
  PROVE  IInv'
<1> DEFINE r == [ctl[c] EXCEPT !.waiting = TRUE]
<1>1. ctl[c] \in CtlType /\ ctl[c].pc \in LockPC
  BY DEF IInv, Types, RaiseWaiting
<1>2. r \in CtlType
  BY <1>1 DEF CtlType
<1>3. /\ r.pc = ctl[c].pc /\ r.epoch = ctl[c].epoch /\ r.prior = ctl[c].prior
      /\ r.seal = ctl[c].seal /\ r.mark = ctl[c].mark
  BY <1>1 DEF CtlType
<1>4. ctl' = [ctl EXCEPT ![c] = r]
  BY DEF RaiseWaiting
<1> HIDE DEF r
<1>5. /\ Kept(c) /\ SameTicket(c) /\ ctl'[c].pc = ctl[c].pc /\ ctl'[c].pc \in LockPC
      /\ ctl' \in [Controls -> CtlType]
  BY <1>1, <1>2, <1>3, <1>4 DEF IInv, Types, Kept, SameTicket
<1>6. slot = "Active" /\ UNCHANGED <<dom, trk, ord, slot, up, inc, binds>>
  BY <1>1, Borrowed DEF RaiseWaiting, LockPC
<1>7. (Uncounted(c) => Uncounted(c)') /\ (Pending(c) => Pending(c)')
  BY <1>5 DEF SameTicket, Uncounted, Pending
<1>8. ctl'[c].pc # "c_finalize"
  BY <1>5 DEF LockPC
<1> QED BY <1>5, <1>6, <1>7, <1>8, MoveOK DEF SameTicket

\* initialize() and finalize() are called.
LEMMA CalledOK ==
  ASSUME IInv, NEW c \in Controls, CheckReinitialize(c) \/ FinalizeCalled(c)
  PROVE  IInv'
<1>1. PICK l \in {"begin_init", "begin_fin"} : Go(c, l)
  BY DEF CheckReinitialize, FinalizeCalled
<1>2. /\ ctl[c].pc = "idle" /\ slot = "Active"
      /\ UNCHANGED <<dom, trk, ord, slot, up, inc, binds>>
  BY DEF CheckReinitialize, FinalizeCalled
<1>3. Kept(c) /\ ctl'[c].pc = l /\ ctl' \in [Controls -> CtlType]
  BY <1>1, Places, GoFacts DEF IInv
<1>4. ctl'[c].pc \notin InitPC \cup FinPC \cup SucceededPC
  BY <1>3 DEF InitPC, FinPC, SucceededPC
<1>5. ~ Uncounted(c) /\ ~ Pending(c)
  BY <1>2 DEF Uncounted, Pending
<1> QED BY <1>2, <1>3, <1>4, <1>5, MoveOK DEF InitPC, FinPC

\* The completed Initialize reads the generation.
LEMMA ReadGenerationOK ==
  ASSUME IInv, NEW c \in Controls, ReadGeneration(c)
  PROVE  IInv'
<1>0. ctl[c].pc = "returned" /\ slot = "Active"
  BY Borrowed DEF ReadGeneration
<1>1. ctl' = [ctl EXCEPT ![c].pc = "count", ![c].gen = trk.gen]
  BY DEF ReadGeneration
<1> DEFINE r == [ctl[c] EXCEPT !.pc = "count", !.gen = trk.gen]
<1>2. ctl[c] \in CtlType /\ trk.gen \in Nat
  BY DEF IInv, Types, TrkType
<1>3. r \in CtlType
  BY <1>2, Places DEF CtlType
<1>4. r.pc = "count" /\ r.epoch = ctl[c].epoch /\ r.prior = ctl[c].prior
  BY <1>2 DEF CtlType
<1>5. ctl' = [ctl EXCEPT ![c] = r]
  BY <1>1
<1> HIDE DEF r
<1>6. /\ Kept(c) /\ ctl' \in [Controls -> CtlType] /\ ctl'[c].pc = "count"
      /\ ctl'[c].epoch = ctl[c].epoch /\ ctl'[c].prior = ctl[c].prior
  BY <1>3, <1>4, <1>5 DEF IInv, Types, Kept
<1>7. Uncounted(c)' /\ Pending(c)'
  BY <1>6 DEF Uncounted, Pending
<1>8. UNCHANGED <<dom, trk, ord, slot, up, inc, binds>>
  BY DEF ReadGeneration
<1> QED BY <1>0, <1>6, <1>7, <1>8, MoveOK DEF InitPC, FinPC, SucceededPC

\* note_initialized looks at the tracker before it opens a cycle.
LEMMA LoadCycleOK ==
  ASSUME IInv, NEW c \in Controls, LoadCycle(c)
  PROVE  IInv'
<1> DEFINE m == ~trk.initialized \/ trk.finalized_ok
           r == [ctl[c] EXCEPT !.pc = "apply", !.mark = m]
<1>0. /\ ctl[c].pc = "load" /\ slot = "Active"
      /\ UNCHANGED <<dom, trk, ord, slot, up, inc, binds>>
  BY Borrowed DEF LoadCycle
<1>1. ctl[c] \in CtlType /\ m \in BOOLEAN
  BY DEF IInv, Types
<1>2. trk.finalized_ok => m
  OBVIOUS
<1>3. Go(c, "abandon_refused") \/ ctl' = [ctl EXCEPT ![c] = r]
  BY DEF LoadCycle
<1> HIDE DEF m
<1>4. r \in CtlType
  BY <1>1, Places DEF CtlType
<1>5. r.pc = "apply" /\ r.mark = m /\ r.epoch = ctl[c].epoch /\ r.prior = ctl[c].prior
  BY <1>1 DEF CtlType
<1> HIDE DEF r
<1>6. /\ Kept(c) /\ ctl' \in [Controls -> CtlType]
      /\ ctl'[c].epoch = ctl[c].epoch /\ ctl'[c].prior = ctl[c].prior
      /\ \/ ctl'[c].pc = "abandon_refused"
         \/ ctl'[c].pc = "apply" /\ ctl'[c].mark = m
  <2>1. CASE Go(c, "abandon_refused")
    BY <2>1, Places, GoFacts DEF IInv, SameTicket
  <2>2. CASE ctl' = [ctl EXCEPT ![c] = r]
    BY <1>4, <1>5, <2>2, RecordFacts DEF IInv
  <2> QED BY <1>3, <2>1, <2>2
<1>7. ~ Uncounted(c) /\ (trk.finalized_ok => Pending(c)')
  BY <1>0, <1>2, <1>6 DEF Uncounted, Pending
<1> QED BY <1>0, <1>6, <1>7, MoveOK DEF InitPC, FinPC, SucceededPC

\* The generation is compared before the publication.
LEMMA CompareGenerationOK ==
  ASSUME IInv, NEW c \in Controls, CompareGeneration(c)
  PROVE  IInv'
<1> DEFINE m == trk.gen # ctl[c].gen
           r == [ctl[c] EXCEPT !.pc = "publish_open", !.mark = m]
<1>0. /\ ctl[c].pc = "changed" /\ slot = "Active" /\ ctl' = [ctl EXCEPT ![c] = r]
      /\ UNCHANGED <<dom, trk, ord, slot, up, inc, binds>>
  BY Borrowed DEF CompareGeneration
<1>1. ctl[c] \in CtlType /\ m \in BOOLEAN
  BY DEF IInv, Types
<1> HIDE DEF m
<1>2. r \in CtlType
  BY <1>1, Places DEF CtlType
<1>3. r.pc = "publish_open" /\ r.epoch = ctl[c].epoch /\ r.prior = ctl[c].prior
  BY <1>1 DEF CtlType
<1> HIDE DEF r
<1>4. Kept(c) /\ ctl' \in [Controls -> CtlType] /\ ctl'[c] = r
  BY <1>0, <1>2, RecordFacts DEF IInv
<1>5. ~ Uncounted(c) /\ ~ Pending(c)
  BY <1>0 DEF Uncounted, Pending
<1> QED BY <1>0, <1>3, <1>4, <1>5, MoveOK DEF InitPC, FinPC, SucceededPC

\* Finalize reads the completions, and C_Finalize is entered.
LEMMA SnapshotCompletionsOK ==
  ASSUME IInv, NEW c \in Controls, SnapshotCompletions(c)
  PROVE  IInv'
<1> DEFINE r == [ctl[c] EXCEPT !.pc = "c_finalize", !.seal = trk.completions]
<1>0. /\ ctl[c].pc = "seal_count" /\ slot = "Active" /\ ctl' = [ctl EXCEPT ![c] = r]
      /\ UNCHANGED <<dom, trk, ord, slot, up, inc, binds>>
  BY Borrowed DEF SnapshotCompletions
<1>1. ctl[c] \in CtlType /\ trk.completions \in Nat
  BY DEF IInv, Types, TrkType
<1>2. r \in CtlType
  BY <1>1, Places DEF CtlType
<1>3. /\ r.pc = "c_finalize" /\ r.epoch = ctl[c].epoch /\ r.prior = ctl[c].prior
      /\ r.seal = trk.completions
  BY <1>1 DEF CtlType
<1> HIDE DEF r
<1>4. Kept(c) /\ ctl' \in [Controls -> CtlType] /\ ctl'[c] = r
  BY <1>0, <1>2, RecordFacts DEF IInv
<1>5. ~ Uncounted(c) /\ ~ Pending(c)
  BY <1>0 DEF Uncounted, Pending
<1> QED BY <1>0, <1>3, <1>4, <1>5, MoveOK DEF InitPC, FinPC, SucceededPC

\* A control call whose begin is denied, or whose ticket is superseded, returns.
LEMMA ReturnOK ==
  ASSUME IInv, NEW c \in Controls, Return(c),
         UNCHANGED <<dom, trk, ord, slot, up, inc, binds>>,
         ctl[c].pc \in {"begin_init", "begin_fin", "publish_open"}
  PROVE  IInv'
<1>1. slot = "Active"
  BY Borrowed
<1>2. Kept(c) /\ ctl'[c].pc = "idle" /\ ctl' \in [Controls -> CtlType]
  BY ReturnFacts DEF IInv
<1>3. ~ Uncounted(c) /\ ~ Pending(c)
  BY DEF Uncounted, Pending
<1> QED BY <1>1, <1>2, <1>3, MoveOK DEF InitPC, FinPC, SucceededPC

-----------------------------------------------------------------------------
(* Control calls: the tracker and the module *)

\* note_init_attempted
LEMMA AttemptedFacts ==
  ASSUME NEW t \in TrkType
  PROVE  /\ Attempted(t) \in TrkType /\ Attempted(t).attempted /\ Attempted(t).since
         /\ Attempted(t).completions = t.completions
         /\ Attempted(t).finalized_ok = t.finalized_ok
BY DEF Attempted, TrkType

\* The attempt is noted before C_Initialize is entered.
LEMMA EnterInitializeOK ==
  ASSUME IInv, NEW c \in Controls, EnterInitialize(c)
  PROVE  IInv'
<1>0. /\ ctl[c].pc = "attempt" /\ slot = "Active" /\ trk' = Attempted(trk)
      /\ Go(c, "c_initialize") /\ UNCHANGED <<dom, ord, slot, up, inc, binds>>
  BY Borrowed DEF EnterInitialize
<1>1. /\ Kept(c) /\ SameTicket(c) /\ ctl'[c].pc = "c_initialize"
      /\ ctl' \in [Controls -> CtlType]
  BY <1>0, Places, GoFacts DEF IInv
<1>2. /\ trk' \in TrkType /\ trk'.attempted /\ trk'.since
      /\ trk'.completions = trk.completions
  BY <1>0, AttemptedFacts DEF IInv, Types
<1>3. Types'
  BY <1>0, <1>1, <1>2 DEF IInv, Types
<1>4. TicketOK'
  BY <1>0, <1>1, TicketKept DEF IInv, SameTicket, InitPC, FinPC
<1>5. BorrowOK' /\ UnloadOK'
  BY <1>0, <1>1, BorrowKept DEF IInv, UnloadOK
<1>6. LiveOK'
  BY <1>0, <1>1, <1>2 DEF IInv, LiveOK, Kept, SameTicket, InitPC, SucceededPC
<1>7. TrackOK'
  <2>1. \A d \in Controls : Uncounted(d) => Uncounted(d)'
    BY <1>0, <1>1 DEF Kept, Uncounted
  <2> QED BY <1>0, <1>1, <1>2, <2>1 DEF IInv, TrackOK, Kept
<1>8. BindOK'
  BY <1>0, <1>1 DEF IInv, BindOK, Kept
<1> QED BY <1>3, <1>4, <1>5, <1>6, <1>7, <1>8 DEF IInv

\* C_Initialize returns: the module may be live, and the tracker will hear of it.
LEMMA InitializeReturnsOK ==
  ASSUME IInv, NEW c \in Controls, InitializeReturns(c)
  PROVE  IInv'
<1>0. /\ ctl[c].pc = "c_initialize" /\ slot = "Active"
      /\ UNCHANGED <<dom, trk, ord, slot, binds>>
  BY Borrowed DEF InitializeReturns
<1>1. PICK l \in {"returned", "abandon_native"} :
        /\ Go(c, l)
        /\ (up' = TRUE /\ (up => inc' = inc)) \/ (UNCHANGED <<up, inc>> /\ l = "abandon_native")
  BY DEF InitializeReturns, ComesUp
<1>2. /\ Kept(c) /\ SameTicket(c) /\ ctl'[c].pc = l /\ ctl' \in [Controls -> CtlType]
  BY <1>1, Places, GoFacts DEF IInv
<1>a. (up => up') /\ up' \in BOOLEAN /\ (l = "returned" => up') /\ (up => inc' = inc)
  <2>1. CASE up' = TRUE /\ (up => inc' = inc)
    BY <2>1, Zenon
  <2>2. CASE UNCHANGED <<up, inc>> /\ l = "abandon_native"
    BY <2>2 DEF IInv, Types
  <2> QED BY <1>1, <2>1, <2>2
<1>3. Types'
  BY <1>0, <1>2, <1>a DEF IInv, Types
<1>4. TicketOK'
  BY <1>0, <1>2, TicketKept DEF IInv, SameTicket, InitPC, FinPC
<1>5. BorrowOK' /\ UnloadOK'
  BY <1>0, <1>2, BorrowKept DEF IInv, UnloadOK
<1>6. LiveOK'
  BY <1>0, <1>2, <1>a DEF IInv, LiveOK, Kept, SameTicket, InitPC, SucceededPC
<1>7. TrackOK'
  <2>1. Uncounted(c)' /\ Pending(c)'
    BY <1>2 DEF Uncounted, Pending
  <2>2. up' => trk'.attempted
    BY <1>0 DEF IInv, TrackOK
  <2> QED BY <1>0, <1>2, <2>1, <2>2 DEF IInv, TrackOK, Kept
<1>8. BindOK'
  BY <1>0, <1>2, <1>a DEF IInv, BindOK, Kept
<1> QED BY <1>3, <1>4, <1>5, <1>6, <1>7, <1>8 DEF IInv

\* note_initialized counts the completion.
LEMMA CountCompletionOK ==
  ASSUME IInv, NEW c \in Controls, CountCompletion(c)
  PROVE  IInv'
<1>0. /\ ctl[c].pc = "count" /\ slot = "Active" /\ trk' = [trk EXCEPT !.completions = @ + 1]
      /\ Go(c, "load") /\ UNCHANGED <<dom, ord, slot, up, inc, binds>>
  BY Borrowed DEF CountCompletion
<1>1. Kept(c) /\ SameTicket(c) /\ ctl'[c].pc = "load" /\ ctl' \in [Controls -> CtlType]
  BY <1>0, Places, GoFacts DEF IInv
<1>2. /\ trk' \in TrkType /\ trk'.attempted = trk.attempted /\ trk'.since = trk.since
      /\ trk'.completions = trk.completions + 1 /\ trk'.finalized_ok = trk.finalized_ok
      /\ trk.completions \in Nat
  BY <1>0 DEF IInv, Types, TrkType
<1>3. Types'
  BY <1>0, <1>1, <1>2 DEF IInv, Types
<1>4. TicketOK'
  BY <1>0, <1>1, TicketKept DEF IInv, SameTicket, InitPC, FinPC
<1>5. BorrowOK' /\ UnloadOK'
  BY <1>0, <1>1, BorrowKept DEF IInv, UnloadOK
<1>6. LiveOK'
  BY <1>0, <1>1, <1>2 DEF IInv, LiveOK, Kept, SameTicket, InitPC, SucceededPC
<1>7. TrackOK'
  <2>1. Pending(c)'
    BY <1>1 DEF Pending
  <2>2. \A d \in Controls : ctl'[d].pc \in {"c_finalize", "publish_fin"} =>
          ctl'[d].seal <= trk'.completions /\ ctl'[d].seal # trk'.completions
    <3> SUFFICES ASSUME NEW d \in Controls, ctl'[d].pc \in {"c_finalize", "publish_fin"}
                 PROVE  ctl'[d].seal <= trk'.completions /\ ctl'[d].seal # trk'.completions
      OBVIOUS
    <3>1. ctl'[d] = ctl[d] /\ ctl[d].seal \in Nat
      BY <1>1 DEF Kept, IInv, Types, CtlType
    <3>2. ctl[d].seal <= trk.completions
      BY <3>1 DEF IInv, TrackOK
    <3> QED BY <1>2, <3>1, <3>2
  <2> QED BY <1>0, <1>1, <1>2, <2>1, <2>2 DEF IInv, TrackOK, Kept
<1>8. BindOK'
  BY <1>0, <1>1 DEF IInv, BindOK, Kept
<1> QED BY <1>3, <1>4, <1>5, <1>6, <1>7, <1>8 DEF IInv

\* note_initialized opens the cycle, or refuses it.
LEMMA ApplyCycleOK ==
  ASSUME IInv, NEW c \in Controls, ApplyCycle(c)
  PROVE  IInv'
<1>0. /\ ctl[c].pc = "apply" /\ slot = "Active"
      /\ UNCHANGED <<dom, ord, slot, up, inc, binds>>
  BY Borrowed DEF ApplyCycle
<1>1. CASE Go(c, "abandon_refused") /\ UNCHANGED trk
  <2>1. /\ Kept(c) /\ SameTicket(c) /\ ctl'[c].pc = "abandon_refused"
        /\ ctl' \in [Controls -> CtlType]
    BY <1>1, Places, GoFacts DEF IInv
  <2>2. ~ Uncounted(c) /\ Pending(c)'
    BY <1>0, <2>1 DEF Uncounted, Pending
  <2> QED BY <1>0, <1>1, <2>1, <2>2, MoveOK DEF SameTicket, InitPC, FinPC, SucceededPC
<1>2. CASE /\ Go(c, "changed")
           /\ trk' = IF ctl[c].mark
                     THEN [trk EXCEPT !.gen = @ + 1, !.initialized = TRUE,
                                      !.finalized_ok = FALSE]
                     ELSE trk
  <2>1. /\ Kept(c) /\ SameTicket(c) /\ ctl'[c].pc = "changed"
        /\ ctl' \in [Controls -> CtlType]
    BY <1>2, Places, GoFacts DEF IInv
  <2>2. /\ trk' \in TrkType /\ trk'.attempted = trk.attempted /\ trk'.since = trk.since
        /\ trk'.completions = trk.completions
        /\ ctl[c].mark => trk'.finalized_ok = FALSE
        /\ ~ ctl[c].mark => trk'.finalized_ok = trk.finalized_ok
    <3>1. trk \in TrkType
      BY DEF IInv, Types
    <3>2. CASE ctl[c].mark
      <4>1. trk' = [trk EXCEPT !.gen = @ + 1, !.initialized = TRUE, !.finalized_ok = FALSE]
        BY <1>2, <3>2
      <4>2. trk.gen + 1 \in Nat
        BY <3>1 DEF TrkType
      <4>3. trk' \in TrkType
        BY <3>1, <4>1, <4>2 DEF TrkType
      <4>4. trk'.attempted = trk.attempted /\ trk'.since = trk.since
        BY <3>1, <4>1 DEF TrkType
      <4>5. trk'.completions = trk.completions /\ trk'.finalized_ok = FALSE
        BY <3>1, <4>1 DEF TrkType
      <4> QED BY <3>2, <4>3, <4>4, <4>5
    <3>3. CASE ~ ctl[c].mark
      BY <1>2, <3>1, <3>3
    <3> QED BY <3>2, <3>3
  <2>3. Types'
    BY <1>0, <2>1, <2>2 DEF IInv, Types
  <2>4. TicketOK'
    BY <1>0, <2>1, TicketKept DEF IInv, SameTicket, InitPC, FinPC
  <2>5. BorrowOK' /\ UnloadOK'
    BY <1>0, <2>1, BorrowKept DEF IInv, UnloadOK
  <2>6. LiveOK'
    BY <1>0, <2>1, <2>2 DEF IInv, LiveOK, Kept, SameTicket, InitPC, SucceededPC
  <2>7. TrackOK'
    <3>1. \A d \in Controls : Uncounted(d) => Uncounted(d)'
      BY <1>0, <2>1 DEF Kept, Uncounted
    <3>2. \A d \in Controls : d # c \/ ~ ctl[c].mark => (Pending(d) => Pending(d)')
      BY <1>0, <2>1 DEF Kept, Pending
    <3>3. up' /\ trk'.finalized_ok /\ ~trk'.since => \E d \in Controls : Pending(d)'
      BY <1>0, <2>2, <3>2 DEF IInv, TrackOK
    <3> QED BY <1>0, <2>1, <2>2, <3>1, <3>3 DEF IInv, TrackOK, Kept
  <2>8. BindOK'
    BY <1>0, <2>1 DEF IInv, BindOK, Kept
  <2> QED BY <2>3, <2>4, <2>5, <2>6, <2>7, <2>8 DEF IInv
<1> QED BY <1>1, <1>2 DEF ApplyCycle

\* C_Finalize returns, and is the only one who takes the module down.
LEMMA FinalizeReturnsOK ==
  ASSUME IInv, NEW c \in Controls, FinalizeReturns(c)
  PROVE  IInv'
<1>0. /\ ctl[c].pc = "c_finalize" /\ slot = "Active"
      /\ UNCHANGED <<dom, trk, ord, slot, inc, binds>>
  BY Borrowed DEF FinalizeReturns
<1>1. PICK l \in {"publish_fin", "abandon_fin"} :
        Go(c, l) /\ IF l = "publish_fin" THEN up' = FALSE ELSE UNCHANGED up
  BY DEF FinalizeReturns
<1>2. Kept(c) /\ SameTicket(c) /\ ctl'[c].pc = l /\ ctl' \in [Controls -> CtlType]
  BY <1>1, Places, GoFacts DEF IInv
<1>a. (up' => up) /\ up' \in BOOLEAN /\ (l = "publish_fin" => ~up') /\ (l = "abandon_fin" => up')
  <2>1. up \in BOOLEAN /\ up
    BY <1>0 DEF IInv, Types, LiveOK
  <2>2. CASE l = "publish_fin"
    BY <1>1, <2>2, Zenon
  <2>3. CASE l = "abandon_fin"
    BY <1>1, <2>1, <2>3
  <2> QED BY <2>2, <2>3
<1>b. /\ \A d \in Controls \ {c} : ctl[d].pc \notin FinPC
      /\ \A d \in Controls : ctl[d].pc \in InitPC => ctl[d].epoch # dom.epoch
      /\ dom.state = "Finalizing"
  BY <1>0, FinAlone DEF IInv, FinPC, TicketOK
<1>3. Types'
  BY <1>0, <1>2, <1>a DEF IInv, Types
<1>4. TicketOK'
  BY <1>0, <1>2, TicketKept DEF IInv, SameTicket, InitPC, FinPC
<1>5. BorrowOK' /\ UnloadOK'
  BY <1>0, <1>2, <1>a, BorrowKept DEF IInv, UnloadOK
<1>6. LiveOK'
  BY <1>0, <1>2, <1>a, <1>b DEF IInv, LiveOK, Kept, InitPC, FinPC
<1>7. TrackOK'
  <2>1. \A d \in Controls : Pending(d) => Pending(d)'
    BY <1>0, <1>2 DEF Kept, Pending
  <2>2. \A d \in Controls \ {c} : ctl'[d].pc \notin {"c_finalize", "publish_fin"}
    BY <1>2, <1>b DEF Kept, FinPC
  <2> QED BY <1>0, <1>2, <1>a, <2>1, <2>2 DEF IInv, TrackOK, Kept, SameTicket
<1>8. BindOK'
  <2>1. CASE l = "publish_fin"
    BY <1>2, <2>1 DEF BindOK
  <2>2. CASE l = "abandon_fin"
    <3>1. up' = up
      BY <1>1, <2>2
    <3> QED BY <1>0, <1>2, <1>b, <3>1 DEF IInv, BindOK, Kept, FinPC
  <2> QED BY <2>1, <2>2
<1> QED BY <1>3, <1>4, <1>5, <1>6, <1>7, <1>8 DEF IInv

-----------------------------------------------------------------------------
(* Control calls: the domain *)

\* A ticket is drawn: it is the only current one.
LEMMA TicketBegun ==
  ASSUME Types, TicketOK, NEW c \in Controls, Kept(c),
         dom.state \notin {"Draining", "Finalizing"},
         ctl[c].pc \notin InitPC \cup FinPC,
         dom'.epoch = dom.epoch + 1, ctl'[c].epoch = dom'.epoch,
         \/ ctl'[c].pc = "attempt" /\ dom'.state = "Initializing"
         \/ ctl'[c].pc = "enter_finalizing" /\ dom'.state = "Draining" /\ ctl'[c].prior = "Open"
  PROVE  /\ TicketOK'
         /\ \A d \in Controls \ {c} :
              ctl[d].pc \notin FinPC /\ (ctl[d].pc \in InitPC => ctl[d].epoch # dom'.epoch)
<1>1. \A d \in Controls : ctl[d].pc \notin FinPC
  BY DEF TicketOK
<1>2. dom.epoch \in Nat /\ \A d \in Controls : ctl[d].epoch \in Nat
  BY DEF Types, DomType, CtlType
<1>3. \A d \in Controls : ctl[d].pc \in InitPC => ctl[d].epoch <= dom.epoch
  BY DEF TicketOK
<1>4. \A d \in Controls : ctl[d].pc \in InitPC =>
        ctl[d].epoch <= dom'.epoch /\ ctl[d].epoch # dom'.epoch
  BY <1>2, <1>3
<1>5. dom'.epoch <= dom'.epoch
  BY <1>2
<1>6. ctl'[c].pc \in InitPC \cup FinPC /\ (ctl'[c].pc \in FinPC => ctl'[c].pc = "enter_finalizing")
  BY DEF InitPC, FinPC
<1>7. \A d \in Controls :
        /\ ctl'[d].pc \in InitPC \cup FinPC => ctl'[d].epoch <= dom'.epoch
        /\ ctl'[d].pc \in InitPC /\ ctl'[d].epoch = dom'.epoch => dom'.state = "Initializing"
        /\ ctl'[d].pc \in FinPC =>
             /\ ctl'[d].epoch = dom'.epoch /\ ctl'[d].prior = "Open"
             /\ dom'.state = IF ctl'[d].pc = "enter_finalizing" THEN "Draining" ELSE "Finalizing"
  <2> SUFFICES ASSUME NEW d \in Controls
               PROVE  /\ ctl'[d].pc \in InitPC \cup FinPC => ctl'[d].epoch <= dom'.epoch
                      /\ ctl'[d].pc \in InitPC /\ ctl'[d].epoch = dom'.epoch
                           => dom'.state = "Initializing"
                      /\ ctl'[d].pc \in FinPC =>
                           /\ ctl'[d].epoch = dom'.epoch /\ ctl'[d].prior = "Open"
                           /\ dom'.state = IF ctl'[d].pc = "enter_finalizing"
                                           THEN "Draining" ELSE "Finalizing"
    OBVIOUS
  <2>1. CASE d = c
    BY <1>5, <2>1 DEF InitPC, FinPC
  <2>2. CASE d # c
    BY <1>1, <1>4, <2>2 DEF Kept
  <2> QED BY <2>1, <2>2
<1>8. \A d, e \in Controls :
        d # e /\ ctl'[d].pc \in InitPC \cup FinPC /\ ctl'[e].pc \in InitPC \cup FinPC
          => ctl'[d].epoch # ctl'[e].epoch
  BY <1>1, <1>4 DEF TicketOK, Kept
<1> QED BY <1>1, <1>4, <1>7, <1>8 DEF TicketOK

\* The current ticket is settled: no ticket is current any more.
LEMMA TicketSettled ==
  ASSUME Types, TicketOK, NEW c \in Controls, Kept(c), ctl'[c].pc = "idle",
         ctl[c].pc \in InitPC \cup FinPC, ctl[c].epoch = dom.epoch,
         dom'.epoch \in {dom.epoch, dom.epoch + 1}
  PROVE  /\ TicketOK'
         /\ \A d \in Controls :
              ctl'[d].pc \notin FinPC /\ (ctl'[d].pc \in InitPC => ctl'[d].epoch # dom'.epoch)
<1>1. dom.epoch \in Nat /\ \A d \in Controls : ctl[d].epoch \in Nat
  BY DEF Types, DomType, CtlType
<1>2. \A d \in Controls \ {c} : ctl[d].pc \notin FinPC
  BY DEF TicketOK
<1>3. \A d \in Controls \ {c} : ctl[d].pc \in InitPC =>
        ctl[d].epoch <= dom.epoch /\ ctl[d].epoch # dom.epoch
  BY DEF TicketOK
<1>4. \A d \in Controls \ {c} : ctl[d].pc \in InitPC =>
        ctl[d].epoch <= dom'.epoch /\ ctl[d].epoch # dom'.epoch
  BY <1>1, <1>3
<1>5. "idle" \notin InitPC \cup FinPC
  BY DEF InitPC, FinPC
<1>6. \A d \in Controls :
        /\ ctl'[d].pc \notin FinPC
        /\ ctl'[d].pc \in InitPC => ctl'[d].epoch <= dom'.epoch /\ ctl'[d].epoch # dom'.epoch
  BY <1>2, <1>4, <1>5 DEF Kept
<1>7. \A d, e \in Controls :
        d # e /\ ctl'[d].pc \in InitPC /\ ctl'[e].pc \in InitPC
          => ctl'[d].epoch # ctl'[e].epoch
  BY <1>5 DEF TicketOK, Kept
<1> QED BY <1>6, <1>7 DEF TicketOK

\* A new InitTicket supersedes every other, and is denied during a Finalize.
LEMMA BeginInitializeOK ==
  ASSUME IInv, NEW c \in Controls, BeginInitialize(c)
  PROVE  IInv'
<1>0. /\ ctl[c].pc = "begin_init" /\ slot = "Active" /\ Readers = {}
      /\ UNCHANGED <<trk, ord, slot, up, inc, binds>>
  BY Borrowed DEF BeginInitialize, Acquire
<1>1. CASE Return(c) /\ UNCHANGED dom
  BY <1>0, <1>1, ReturnOK
<1>2. CASE /\ ~ (dom.state \in {"Draining", "Finalizing"} \/ dom.epoch = MaxEpoch)
           /\ dom' = [state |-> "Initializing", epoch |-> dom.epoch + 1]
           /\ ctl' = [ctl EXCEPT ![c] = [idle EXCEPT !.pc = "attempt",
                       !.prior = dom.state, !.epoch = dom.epoch + 1]]
  <2> DEFINE r == [idle EXCEPT !.pc = "attempt", !.prior = dom.state, !.epoch = dom.epoch + 1]
  <2>a. dom.state \in Stable \cup Transient /\ dom.epoch \in Nat /\ dom.epoch + 1 \in 0 .. MaxEpoch
    BY <1>2, DomainAssumption DEF IInv, Types, DomType
  <2>b. r \in CtlType
    <3>1. idle \in CtlType
      BY DEF idle, CtlType, PC, FreePC, Stable
    <3>2. dom.epoch + 1 \in Nat
      BY <2>a
    <3> QED BY <2>a, <3>1, <3>2, Places DEF CtlType
  <2>c. r.pc = "attempt" /\ r.prior = dom.state /\ r.epoch = dom.epoch + 1
    BY DEF idle
  <2>d. ctl' = [ctl EXCEPT ![c] = r]
    BY <1>2
  <2> HIDE DEF r
  <2>e. Kept(c) /\ ctl' \in [Controls -> CtlType] /\ ctl'[c] = r
    BY <2>b, <2>d, RecordFacts DEF IInv
  <2>f. /\ dom' \in DomType /\ dom'.state = "Initializing" /\ dom'.epoch = dom.epoch + 1
    BY <1>2, <2>a DEF DomType, Transient
  <2>1. Types'
    BY <1>0, <2>e, <2>f DEF IInv, Types
  <2>2. /\ TicketOK'
        /\ \A d \in Controls \ {c} :
             ctl[d].pc \notin FinPC /\ (ctl[d].pc \in InitPC => ctl[d].epoch # dom'.epoch)
    <3>1. ctl[c].pc \notin InitPC \cup FinPC
      BY <1>0 DEF InitPC, FinPC
    <3> QED BY <1>2, <2>c, <2>e, <2>f, <3>1, TicketBegun DEF IInv
  <2>3. BorrowOK' /\ UnloadOK'
    BY <1>0, <2>e, BorrowKept DEF IInv, UnloadOK
  <2>4. LiveOK'
    <3>1. dom.state = "Open" => up /\ trk.since
      BY DEF IInv, LiveOK
    <3> QED BY <1>0, <2>2, <2>c, <2>e, <2>f, <3>1 DEF LiveOK, Kept, SucceededPC, FinPC
  <2>5. TrackOK'
    <3>1. \A d \in Controls : (Uncounted(d) => Uncounted(d)') /\ (Pending(d) => Pending(d)')
      BY <1>0, <2>e DEF Kept, Uncounted, Pending
    <3> QED BY <1>0, <2>c, <2>e, <3>1 DEF IInv, TrackOK, Kept
  <2>6. BindOK'
    <3>1. dom # [state |-> "Uncertain", epoch |-> MaxEpoch]
      BY <1>2
    <3> QED BY <1>0, <2>e, <3>1 DEF IInv, BindOK, Kept
  <2> QED BY <2>1, <2>2, <2>3, <2>4, <2>5, <2>6 DEF IInv
<1> QED BY <1>1, <1>2 DEF BeginInitialize

\* The seal: no reader is inside, and the domain leaves Open.
LEMMA BeginFinalizeOK ==
  ASSUME IInv, NEW c \in Controls, BeginFinalize(c)
  PROVE  IInv'
<1>0. /\ ctl[c].pc = "begin_fin" /\ slot = "Active" /\ Readers = {}
      /\ UNCHANGED <<trk, ord, slot, up, inc, binds>>
  BY Borrowed DEF BeginFinalize
<1>1. CASE Return(c) /\ UNCHANGED dom
  BY <1>0, <1>1, ReturnOK
<1>2. CASE /\ ~ (dom.state # "Open" \/ dom.epoch = MaxEpoch)
           /\ dom' = [state |-> "Draining", epoch |-> dom.epoch + 1]
           /\ ctl' = [ctl EXCEPT ![c] = [idle EXCEPT !.pc = "enter_finalizing",
                       !.prior = dom.state, !.epoch = dom.epoch + 1]]
  <2> DEFINE r == [idle EXCEPT !.pc = "enter_finalizing", !.prior = dom.state,
                               !.epoch = dom.epoch + 1]
  <2>a. dom.state \in Stable \cup Transient /\ dom.epoch \in Nat /\ dom.epoch + 1 \in 0 .. MaxEpoch
    BY <1>2, DomainAssumption DEF IInv, Types, DomType
  <2>b. r \in CtlType
    <3>1. idle \in CtlType
      BY DEF idle, CtlType, PC, FreePC, Stable
    <3>2. dom.epoch + 1 \in Nat
      BY <2>a
    <3> QED BY <2>a, <3>1, <3>2, Places DEF CtlType
  <2>c. r.pc = "enter_finalizing" /\ r.prior = dom.state /\ r.epoch = dom.epoch + 1
    BY DEF idle
  <2>d. ctl' = [ctl EXCEPT ![c] = r]
    BY <1>2
  <2> HIDE DEF r
  <2>e. Kept(c) /\ ctl' \in [Controls -> CtlType] /\ ctl'[c] = r
    BY <2>b, <2>d, RecordFacts DEF IInv
  <2>f. dom' \in DomType /\ dom'.state = "Draining" /\ dom'.epoch = dom.epoch + 1
    BY <1>2, <2>a DEF DomType, Transient
  <2>1. Types'
    BY <1>0, <2>e, <2>f DEF IInv, Types
  <2>2. /\ TicketOK'
        /\ \A d \in Controls \ {c} :
             ctl[d].pc \notin FinPC /\ (ctl[d].pc \in InitPC => ctl[d].epoch # dom'.epoch)
    <3>1. ctl[c].pc \notin InitPC \cup FinPC
      BY <1>0 DEF InitPC, FinPC
    <3> QED BY <1>2, <2>c, <2>e, <2>f, <3>1, TicketBegun DEF IInv
  <2>3. BorrowOK' /\ UnloadOK'
    BY <1>0, <2>e, BorrowKept DEF IInv, UnloadOK
  <2>4. LiveOK'
    <3>1. up /\ trk.since
      BY <1>2 DEF IInv, LiveOK
    <3> QED BY <1>0, <2>2, <2>c, <2>e, <2>f, <3>1 DEF LiveOK, Kept, InitPC
  <2>5. TrackOK'
    <3>1. \A d \in Controls : (Uncounted(d) => Uncounted(d)') /\ (Pending(d) => Pending(d)')
      BY <1>0, <2>e DEF Kept, Uncounted, Pending
    <3> QED BY <1>0, <2>c, <2>e, <3>1 DEF IInv, TrackOK, Kept
  <2>6. BindOK'
    <3>1. dom # [state |-> "Uncertain", epoch |-> MaxEpoch]
      BY <1>2
    <3> QED BY <1>0, <2>e, <3>1 DEF IInv, BindOK, Kept
  <2> QED BY <2>1, <2>2, <2>3, <2>4, <2>5, <2>6 DEF IInv
<1> QED BY <1>1, <1>2 DEF BeginFinalize

\* The drained domain enters Finalizing; the ticket is current, so this
\* cannot fail.
LEMMA EnterFinalizingOK ==
  ASSUME IInv, NEW c \in Controls, EnterFinalizing(c)
  PROVE  IInv'
<1>0. /\ ctl[c].pc = "enter_finalizing" /\ slot = "Active" /\ Readers = {}
      /\ UNCHANGED <<trk, ord, slot, up, inc, binds>>
  BY Borrowed DEF EnterFinalizing, Acquire
<1>a. dom \in DomType /\ dom.state = "Draining" /\ dom.epoch = ctl[c].epoch
  BY <1>0 DEF IInv, Types, TicketOK, FinPC
<1>b. dom = [state |-> "Draining", epoch |-> ctl[c].epoch]
  BY <1>a DEF DomType
<1>c. dom' = [dom EXCEPT !.state = "Finalizing"] /\ Go(c, "seal_count")
  BY <1>b DEF EnterFinalizing
<1>d. dom' \in DomType /\ dom'.state = "Finalizing" /\ dom'.epoch = dom.epoch
  BY <1>a, <1>c DEF DomType, Transient
<1>e. Kept(c) /\ SameTicket(c) /\ ctl'[c].pc = "seal_count" /\ ctl' \in [Controls -> CtlType]
  BY <1>c, Places, GoFacts DEF IInv
<1>f. /\ \A d \in Controls \ {c} : ctl[d].pc \notin FinPC
      /\ \A d \in Controls : ctl[d].pc \in InitPC => ctl[d].epoch # dom.epoch
  BY <1>0, FinAlone DEF IInv, FinPC
<1>1. Types'
  BY <1>0, <1>d, <1>e DEF IInv, Types
<1>2. TicketOK'
  <2>1. \A d \in Controls :
          /\ ctl'[d].pc \in InitPC \cup FinPC => ctl[d].pc \in InitPC \cup FinPC
          /\ ctl'[d].epoch = ctl[d].epoch
          /\ ctl'[d].pc \in InitPC => ctl[d].pc \in InitPC
    BY <1>0, <1>e DEF Kept, SameTicket, InitPC, FinPC
  <2>2. \A d \in Controls : ctl'[d].pc \in FinPC => d = c
    BY <1>e, <1>f DEF Kept
  <2>3. ctl[c].prior = "Open" /\ ctl'[c].prior = ctl[c].prior
    BY <1>0, <1>e DEF IInv, TicketOK, FinPC, SameTicket
  <2>4. \A d \in Controls :
          /\ ctl'[d].pc \in InitPC \cup FinPC => ctl'[d].epoch <= dom'.epoch
          /\ ctl'[d].pc \in InitPC => ctl'[d].epoch # dom'.epoch
    BY <1>d, <1>f, <2>1 DEF IInv, TicketOK
  <2>5. \A d, e \in Controls :
          d # e /\ ctl'[d].pc \in InitPC \cup FinPC /\ ctl'[e].pc \in InitPC \cup FinPC
            => ctl'[d].epoch # ctl'[e].epoch
    BY <2>1 DEF IInv, TicketOK
  <2>6. ctl'[c].epoch = dom'.epoch
    BY <1>a, <1>d, <1>e DEF SameTicket
  <2> QED BY <1>d, <1>e, <2>2, <2>3, <2>4, <2>5, <2>6 DEF TicketOK
<1>3. BorrowOK' /\ UnloadOK'
  BY <1>0, <1>e, BorrowKept DEF IInv, UnloadOK
<1>4. LiveOK'
  <2>1. up /\ trk.since
    BY <1>a DEF IInv, LiveOK
  <2> QED BY <1>0, <1>e, <2>1 DEF LiveOK
<1>5. TrackOK'
  <2>1. \A d \in Controls : (Uncounted(d) => Uncounted(d)') /\ (Pending(d) => Pending(d)')
    BY <1>0, <1>e DEF Kept, Uncounted, Pending
  <2> QED BY <1>0, <1>e, <2>1 DEF IInv, TrackOK, Kept
<1>6. BindOK'
  <2>1. dom # [state |-> "Uncertain", epoch |-> MaxEpoch]
    BY <1>a
  <2> QED BY <1>0, <1>e, <2>1 DEF IInv, BindOK, Kept
<1> QED BY <1>1, <1>2, <1>3, <1>4, <1>5, <1>6 DEF IInv

\* What a current ticket restores when it is abandoned.
LEMMA RestoredFacts ==
  ASSUME Types, NEW c \in Controls
  PROVE  /\ dom.epoch # ctl[c].epoch => Restored(c) = dom
         /\ dom.epoch = ctl[c].epoch =>
              /\ Restored(c) \in DomType
              /\ Restored(c).epoch \in {dom.epoch, dom.epoch + 1}
              /\ Restored(c).state \in Stable
              /\ Restored(c).state # "Uncertain" => Restored(c).state = ctl[c].prior
<1>1. dom.epoch \in 0 .. MaxEpoch /\ ctl[c].prior \in Stable \cup Transient
  BY DEF Types, DomType, CtlType
<1>2. SUFFICES ASSUME dom.epoch = ctl[c].epoch
               PROVE  /\ Restored(c) \in DomType
                      /\ Restored(c).epoch \in {dom.epoch, dom.epoch + 1}
                      /\ Restored(c).state \in Stable
                      /\ Restored(c).state # "Uncertain" => Restored(c).state = ctl[c].prior
  BY DEF Restored
<1> DEFINE n == IF dom.epoch = MaxEpoch THEN MaxEpoch ELSE dom.epoch + 1
           q == IF ctl[c].prior \in Transient THEN "Uncertain" ELSE ctl[c].prior
<1>3. n \in 0 .. MaxEpoch /\ n \in {dom.epoch, dom.epoch + 1}
  BY <1>1, DomainAssumption
<1>4. q \in Stable /\ (q # "Uncertain" => q = ctl[c].prior)
  BY <1>1 DEF Stable
<1>5. Restored(c) = [epoch |-> n, state |-> q]
  BY <1>2 DEF Restored
<1> HIDE DEF n, q
<1> QED BY <1>3, <1>4, <1>5 DEF DomType

\* An abandoned InitTicket: the domain is as before its begin when it is
\* current, and the tracker keeps the attempt in mind.
LEMMA AbandonInitOK ==
  ASSUME IInv, NEW c \in Controls, AbandonNativeFailed(c) \/ AbandonRefused(c)
  PROVE  IInv'
<1>0. /\ ctl[c].pc \in {"abandon_native", "abandon_refused"} /\ slot = "Active"
      /\ Readers = {} /\ dom' = Restored(c) /\ Return(c)
      /\ UNCHANGED <<ord, slot, up, inc, binds>>
  BY Borrowed DEF AbandonNativeFailed, AbandonRefused
<1>a. Kept(c) /\ ctl'[c].pc = "idle" /\ ctl' \in [Controls -> CtlType]
  BY <1>0, ReturnFacts DEF IInv
<1>b. trk \in TrkType /\ trk.completions \in Nat
  BY DEF IInv, Types, TrkType
<1>c. /\ trk' \in TrkType /\ trk'.attempted /\ trk'.since
      /\ \/ trk'.completions = trk.completions + 1
         \/ trk'.completions = trk.completions /\ ctl[c].pc = "abandon_refused"
  <2>1. CASE AbandonRefused(c)
    BY <1>b, <2>1, AttemptedFacts DEF AbandonRefused
  <2>2. CASE AbandonNativeFailed(c)
    <3> DEFINE t == [trk EXCEPT !.completions = @ + 1]
    <3>1. t \in TrkType /\ t.completions = trk.completions + 1
      BY <1>b DEF TrkType
    <3>2. trk' = Attempted(t)
      BY <2>2 DEF AbandonNativeFailed
    <3> HIDE DEF t
    <3> QED BY <3>1, <3>2, AttemptedFacts
  <2> QED BY <2>1, <2>2
<1>d. ctl[c].pc \in InitPC
  BY <1>0 DEF InitPC
<1>1. dom' \in DomType
  BY <1>0, RestoredFacts DEF IInv, Types
<1>2. Types'
  BY <1>0, <1>1, <1>a, <1>c DEF IInv, Types
<1>3. TrackOK'
  <2>1. \A d \in Controls \ {c} : Uncounted(d) => Uncounted(d)'
    BY <1>a DEF Kept, Uncounted
  <2>2. ctl[c].pc = "abandon_refused" => ~ Uncounted(c)
    BY DEF Uncounted
  <2>3. ASSUME NEW d \in Controls, ctl'[d].pc \in {"c_finalize", "publish_fin"}
        PROVE  /\ ctl'[d] = ctl[d] /\ ctl[d].seal \in Nat
               /\ ctl[d].seal <= trk.completions
    BY <1>a, <2>3 DEF Kept, IInv, Types, CtlType, TrackOK
  <2>4. ASSUME NEW d \in Controls, ctl'[d].pc \in {"c_finalize", "publish_fin"}
        PROVE  ctl'[d].seal <= trk'.completions
    BY <1>b, <1>c, <2>3, <2>4
  <2>5. ASSUME NEW d \in Controls, ctl'[d].pc = "publish_fin", up', ctl'[d].seal = trk'.completions
        PROVE  \E e \in Controls : Uncounted(e)'
    <3>1. trk'.completions = trk.completions /\ ctl[c].pc = "abandon_refused"
      BY <1>b, <1>c, <2>3, <2>5
    <3>2. \E e \in Controls : Uncounted(e)
      BY <1>0, <2>3, <2>5, <3>1 DEF IInv, TrackOK
    <3> QED BY <2>1, <2>2, <3>1, <3>2
  <2>6. \A d \in Controls : ctl'[d].pc # "c_initialize" \/ trk'.attempted
    BY <1>c
  <2> QED BY <1>c, <2>4, <2>5, <2>6 DEF TrackOK
<1>4. BorrowOK' /\ UnloadOK'
  BY <1>0, <1>a, BorrowKept DEF IInv, UnloadOK
<1>5. CASE dom.epoch # ctl[c].epoch
  <2>1. UNCHANGED dom
    BY <1>0, <1>5, RestoredFacts DEF IInv
  <2>2. TicketOK'
    BY <1>a, <2>1, TicketKept DEF IInv, InitPC, FinPC
  <2>3. LiveOK'
    BY <1>0, <1>a, <1>c, <2>1 DEF IInv, LiveOK, Kept, InitPC
  <2>4. BindOK'
    BY <1>0, <1>a, <2>1 DEF IInv, BindOK, Kept
  <2> QED BY <1>2, <1>3, <1>4, <2>2, <2>3, <2>4 DEF IInv
<1>6. CASE dom.epoch = ctl[c].epoch
  <2>1. /\ dom'.epoch \in {dom.epoch, dom.epoch + 1} /\ dom'.state \in Stable
        /\ dom'.state # "Uncertain" => dom'.state = ctl[c].prior
    BY <1>0, <1>6, RestoredFacts DEF IInv
  <2>2. /\ TicketOK'
        /\ \A d \in Controls :
             ctl'[d].pc \notin FinPC /\ (ctl'[d].pc \in InitPC => ctl'[d].epoch # dom'.epoch)
    BY <1>6, <1>a, <1>d, <2>1, TicketSettled DEF IInv
  <2>3. LiveOK'
    <3>1. ctl[c].prior = "Open" => up
      BY <1>6, <1>d DEF IInv, LiveOK
    <3>2. dom'.state \in {"Open", "Draining"} => dom'.state = "Open" /\ ctl[c].prior = "Open"
      BY <2>1 DEF Stable
    <3> QED BY <1>0, <1>c, <2>2, <3>1, <3>2 DEF LiveOK, FinPC
  <2>4. BindOK'
    <3>1. dom.state = "Initializing"
      BY <1>6, <1>d DEF IInv, TicketOK
    <3>2. dom # [state |-> "Uncertain", epoch |-> MaxEpoch]
      BY <3>1
    <3> QED BY <1>0, <1>a, <3>2 DEF IInv, BindOK, Kept
  <2> QED BY <1>2, <1>3, <1>4, <2>2, <2>3, <2>4 DEF IInv
<1> QED BY <1>5, <1>6

\* A failed C_Finalize reopens the domain over the live module.
LEMMA AbandonFinalizeOK ==
  ASSUME IInv, NEW c \in Controls, AbandonFinalize(c)
  PROVE  IInv'
<1>0. /\ ctl[c].pc = "abandon_fin" /\ slot = "Active"
      /\ Readers = {} /\ dom' = Restored(c) /\ Return(c)
      /\ UNCHANGED <<ord, slot, up, inc, binds>>
  BY Borrowed DEF AbandonFinalize
<1>a. Kept(c) /\ ctl'[c].pc = "idle" /\ ctl' \in [Controls -> CtlType]
  BY <1>0, ReturnFacts DEF IInv
<1>b. ctl[c].pc \in FinPC /\ dom.epoch = ctl[c].epoch /\ dom.state = "Finalizing"
  BY <1>0 DEF IInv, TicketOK, FinPC
<1>c. /\ trk' \in TrkType /\ trk'.attempted = trk.attempted /\ trk'.since = trk.since
      /\ trk'.completions = trk.completions /\ trk'.finalized_ok = trk.finalized_ok
  <2>1. trk' = [trk EXCEPT !.failed = TRUE] /\ trk \in TrkType
    BY <1>b DEF AbandonFinalize, IInv, Types
  <2> QED BY <2>1 DEF TrkType
<1>d. /\ dom' \in DomType /\ dom'.epoch \in {dom.epoch, dom.epoch + 1}
      /\ dom'.state \in Stable
  BY <1>0, <1>b, RestoredFacts DEF IInv
<1>1. Types'
  BY <1>0, <1>a, <1>c, <1>d DEF IInv, Types
<1>2. /\ TicketOK'
      /\ \A d \in Controls :
           ctl'[d].pc \notin FinPC /\ (ctl'[d].pc \in InitPC => ctl'[d].epoch # dom'.epoch)
  BY <1>a, <1>b, <1>d, TicketSettled DEF IInv
<1>3. BorrowOK' /\ UnloadOK'
  BY <1>0, <1>a, BorrowKept DEF IInv, UnloadOK
<1>4. LiveOK'
  <2>1. up /\ trk.since
    BY <1>0, <1>b DEF IInv, LiveOK
  <2> QED BY <1>0, <1>2, <1>c, <2>1 DEF LiveOK, FinPC
<1>5. TrackOK'
  <2>1. \A d \in Controls : (Uncounted(d) => Uncounted(d)') /\ (Pending(d) => Pending(d)')
    BY <1>0, <1>a DEF Kept, Uncounted, Pending
  <2> QED BY <1>0, <1>a, <1>c, <2>1 DEF IInv, TrackOK, Kept
<1>6. BindOK'
  <2>1. dom # [state |-> "Uncertain", epoch |-> MaxEpoch]
    BY <1>b
  <2> QED BY <1>0, <1>a, <2>1 DEF IInv, BindOK, Kept
<1> QED BY <1>1, <1>2, <1>3, <1>4, <1>5, <1>6 DEF IInv

\* Initialize publishes: a superseded ticket does nothing, the current one
\* opens the domain over the module that its C_Initialize brought up.
LEMMA PublishOpenOK ==
  ASSUME IInv, NEW c \in Controls, PublishOpen(c)
  PROVE  IInv'
<1>0. /\ ctl[c].pc = "publish_open" /\ slot = "Active" /\ Readers = {} /\ Return(c)
      /\ UNCHANGED <<trk, ord, slot, up, inc>>
  BY Borrowed DEF PublishOpen, Acquire
<1>1. CASE UNCHANGED <<dom, binds>>
  BY <1>0, <1>1, ReturnOK
<1>2. CASE /\ dom = [state |-> "Initializing", epoch |-> ctl[c].epoch]
           /\ \/ /\ dom.epoch = MaxEpoch /\ dom' = [dom EXCEPT !.state = "Uncertain"]
                 /\ UNCHANGED binds
              \/ /\ dom.epoch # MaxEpoch
                 /\ dom' = [state |-> "Open", epoch |-> dom.epoch + 1]
                 /\ binds' \in {binds, {}}
  <2>a. Kept(c) /\ ctl'[c].pc = "idle" /\ ctl' \in [Controls -> CtlType]
    BY <1>0, ReturnFacts DEF IInv
  <2>b. /\ ctl[c].pc \in InitPC \cup FinPC /\ dom.epoch = ctl[c].epoch
        /\ dom.state = "Initializing" /\ dom.epoch \in 0 .. MaxEpoch
    BY <1>0, <1>2 DEF InitPC, IInv, Types, DomType
  <2>c. dom'.state \in {"Open", "Uncertain"} /\ dom'.epoch \in {dom.epoch, dom.epoch + 1}
    BY <1>2
  <2>d. dom' \in DomType
    <3>1. CASE dom' = [dom EXCEPT !.state = "Uncertain"]
      BY <3>1 DEF IInv, Types, DomType, Stable
    <3>2. CASE dom.epoch # MaxEpoch /\ dom' = [state |-> "Open", epoch |-> dom.epoch + 1]
      BY <2>b, <3>2, DomainAssumption DEF DomType, Stable
    <3> QED BY <1>2, <3>1, <3>2
  <2>1. Types'
    BY <1>0, <2>a, <2>d DEF IInv, Types
  <2>2. /\ TicketOK'
        /\ \A d \in Controls :
             ctl'[d].pc \notin FinPC /\ (ctl'[d].pc \in InitPC => ctl'[d].epoch # dom'.epoch)
    BY <2>a, <2>b, <2>c, TicketSettled DEF IInv
  <2>3. BorrowOK' /\ UnloadOK'
    BY <1>0, <2>a, BorrowKept DEF IInv, UnloadOK
  <2>4. LiveOK'
    <3>1. up /\ trk.since
      BY <1>0, <2>b DEF IInv, LiveOK, SucceededPC, InitPC
    <3> QED BY <1>0, <2>2, <3>1 DEF LiveOK, FinPC
  <2>5. TrackOK'
    <3>1. \A d \in Controls : (Uncounted(d) => Uncounted(d)') /\ (Pending(d) => Pending(d)')
      BY <1>0, <2>a DEF Kept, Uncounted, Pending
    <3> QED BY <1>0, <2>a, <3>1 DEF IInv, TrackOK, Kept
  <2>6. BindOK'
    <3>1. dom # [state |-> "Uncertain", epoch |-> MaxEpoch]
      BY <2>b
    <3>2. binds' \in {binds, {}}
      BY <1>2
    <3> QED BY <1>0, <2>a, <3>1, <3>2 DEF IInv, BindOK, Kept
  <2> QED BY <2>1, <2>2, <2>3, <2>4, <2>5, <2>6 DEF IInv
<1> QED BY <1>1, <1>2 DEF PublishOpen, Purge

\* Finalize publishes: the tables are purged, and an Initialize that came up
\* behind its back is either counted, so that the attempt stays on record, or
\* still to be counted.
LEMMA PublishFinalizedOK ==
  ASSUME IInv, NEW c \in Controls, PublishFinalized(c)
  PROVE  IInv'
<1>0. /\ ctl[c].pc = "publish_fin" /\ slot = "Active" /\ Readers = {} /\ Return(c)
      /\ UNCHANGED <<ord, slot, up, inc>>
  BY Borrowed DEF PublishFinalized, Acquire
<1>a. Kept(c) /\ ctl'[c].pc = "idle" /\ ctl' \in [Controls -> CtlType]
  BY <1>0, ReturnFacts DEF IInv
<1>b. /\ dom \in DomType /\ dom.state = "Finalizing" /\ dom.epoch = ctl[c].epoch
      /\ ctl[c].pc \in InitPC \cup FinPC /\ dom.epoch \in 0 .. MaxEpoch
  BY <1>0 DEF IInv, Types, TicketOK, FinPC, DomType
<1>c. dom = [state |-> "Finalizing", epoch |-> ctl[c].epoch]
  BY <1>b DEF DomType
<1>d. /\ \A d \in Controls : (Uncounted(d) => Uncounted(d)') /\ (Pending(d) => Pending(d)')
      /\ \A d \in Controls : ctl'[d].pc \notin {"c_finalize", "publish_fin"}
      /\ \A d \in Controls : ctl'[d].pc = "c_initialize" => trk.attempted
  <2>1. \A d \in Controls \ {c} : ctl[d].pc \notin FinPC
    BY <1>0, FinAlone DEF IInv, FinPC
  <2> QED BY <1>0, <1>a, <2>1 DEF Kept, Uncounted, Pending, FinPC, IInv, TrackOK
<1>1. CASE dom.epoch = MaxEpoch
  <2>0. dom' = [dom EXCEPT !.state = "Uncertain"] /\ UNCHANGED <<trk, binds>>
    BY <1>1, <1>c DEF PublishFinalized
  <2>1. /\ dom' \in DomType /\ dom'.state = "Uncertain" /\ dom'.epoch = dom.epoch
        /\ dom' = [state |-> "Uncertain", epoch |-> MaxEpoch]
    BY <1>1, <1>b, <2>0 DEF DomType, Stable
  <2>2. Types'
    BY <1>0, <1>a, <2>0, <2>1 DEF IInv, Types
  <2>3. /\ TicketOK'
        /\ \A d \in Controls :
             ctl'[d].pc \notin FinPC /\ (ctl'[d].pc \in InitPC => ctl'[d].epoch # dom'.epoch)
    BY <1>a, <1>b, <2>1, TicketSettled DEF IInv
  <2>4. BorrowOK' /\ UnloadOK'
    BY <1>0, <1>a, BorrowKept DEF IInv, UnloadOK
  <2>5. LiveOK'
    BY <2>1, <2>3 DEF LiveOK, FinPC
  <2>6. TrackOK'
    BY <1>0, <1>d, <2>0 DEF IInv, TrackOK
  <2>7. BindOK'
    BY <2>1 DEF BindOK
  <2> QED BY <2>2, <2>3, <2>4, <2>5, <2>6, <2>7 DEF IInv
<1>2. CASE dom.epoch # MaxEpoch
  <2>0. /\ dom' = [state |-> "Finalized", epoch |-> dom.epoch + 1]
        /\ trk' = FinalizedBounded(trk, ctl[c].seal) /\ binds' = {}
    BY <1>2, <1>c DEF PublishFinalized, Purge
  <2>1. dom' \in DomType /\ dom'.state = "Finalized" /\ dom'.epoch = dom.epoch + 1
    BY <1>2, <1>b, <2>0, DomainAssumption DEF DomType, Stable
  <2>a. trk \in TrkType
    BY DEF IInv, Types
  <2>b. /\ trk' \in TrkType /\ trk'.attempted = trk.attempted
        /\ trk'.since = (trk.since /\ trk.completions # ctl[c].seal)
    BY <2>0, <2>a DEF FinalizedBounded, TrkType
  <2>2. Types'
    BY <1>0, <1>a, <2>1, <2>b DEF IInv, Types
  <2>3. /\ TicketOK'
        /\ \A d \in Controls :
             ctl'[d].pc \notin FinPC /\ (ctl'[d].pc \in InitPC => ctl'[d].epoch # dom'.epoch)
    BY <1>a, <1>b, <2>1, TicketSettled DEF IInv
  <2>4. BorrowOK' /\ UnloadOK'
    BY <1>0, <1>a, BorrowKept DEF IInv, UnloadOK
  <2>5. LiveOK'
    BY <2>1, <2>3 DEF LiveOK, FinPC
  <2>6. TrackOK'
    <3>1. ASSUME up, ~ trk'.since
          PROVE  \E d \in Controls : Pending(d)'
      <4>1. trk.since
        BY <1>b DEF IInv, LiveOK
      <4>2. trk.completions = ctl[c].seal
        BY <2>b, <3>1, <4>1
      <4>3. PICK d \in Controls : Uncounted(d)
        BY <1>0, <3>1, <4>2 DEF IInv, TrackOK
      <4>4. Pending(d)
        BY <4>3 DEF Uncounted, Pending
      <4> QED BY <1>d, <4>4
    <3> QED BY <1>0, <1>d, <2>b, <3>1 DEF IInv, TrackOK
  <2>7. BindOK'
    BY <2>0 DEF BindOK
  <2> QED BY <2>2, <2>3, <2>4, <2>5, <2>6, <2>7 DEF IInv
<1> QED BY <1>1, <1>2

\* Every step preserves the invariant.
LEMMA NextOK == IInv /\ [Next]_vars => IInv'
<1> SUFFICES ASSUME IInv, [Next]_vars PROVE IInv'
  OBVIOUS
<1>1. CASE UNCHANGED vars
  <2>1. Types' /\ TicketOK' /\ BorrowOK' /\ LiveOK' /\ UnloadOK' /\ BindOK'
    BY <1>1 DEF vars, IInv, Types, TicketOK, BorrowOK, LiveOK, UnloadOK, BindOK
  <2>2. TrackOK'
    BY <1>1 DEF vars, IInv, TrackOK, Uncounted, Pending
  <2> QED BY <2>1, <2>2 DEF IInv
<1>2. ASSUME NEW c \in Controls, CheckReinitialize(c) \/ FinalizeCalled(c) \/ Control(c)
      PROVE  IInv'
  BY <1>2, RaiseWaitingOK, CalledOK, BeginInitializeOK, EnterInitializeOK, InitializeReturnsOK,
     ReadGenerationOK, CountCompletionOK, LoadCycleOK, ApplyCycleOK, CompareGenerationOK,
     PublishOpenOK, AbandonInitOK, BeginFinalizeOK, EnterFinalizingOK, SnapshotCompletionsOK,
     FinalizeReturnsOK, PublishFinalizedOK, AbandonFinalizeOK DEF Control
<1>3. ASSUME NEW o \in Ops, OrdinaryStep(o)
      PROVE  IInv'
  BY <1>3, OrdinaryOK
<1> QED BY <1>1, <1>2, <1>3, DropBackendOK, ReloadOK DEF Next, OrdinaryStep

-----------------------------------------------------------------------------
(* The refinement *)

Stopping == \E c \in Controls : ctl[c].pc = "c_finalize"

\* The initial states are initial states of ModuleUse.
LEMMA InitRefines == Init => Use!Init
<1> SUFFICES ASSUME Init PROVE Use!Init
  OBVIOUS
<1>1. \A c \in Controls : ctl[c].pc = "idle"
  BY DEF Init, idle
<1> QED BY <1>1 DEF Init, Use!Init, Readers, Probes

\* A step of a control call that enters and leaves neither C_Finalize nor
\* takes the module down is a stutter, or brings it up.
LEMMA QuietRefines ==
  ASSUME NEW c \in Controls, Kept(c), slot = "Active", UNCHANGED <<ord, slot>>,
         ctl[c].pc # "c_finalize", ctl'[c].pc # "c_finalize", up' = up \/ up' = TRUE
  PROVE  Use!Start \/ UNCHANGED Use!vars
<1>1. Readers' = Readers /\ Probes' = Probes
  BY DEF Readers, Probes
<1>2. Stopping' = Stopping
  BY DEF Stopping, Kept
<1> QED BY <1>1, <1>2 DEF Use!Start, Use!vars, Stopping

\* Every step of a control call but the two ends of C_Finalize is quiet.
LEMMA ControlRefines ==
  ASSUME IInv, NEW c \in Controls, CheckReinitialize(c) \/ FinalizeCalled(c) \/ Control(c)
  PROVE  [Use!Next]_(Use!vars)
<1>0. Types /\ ctl[c] \in CtlType /\ (ctl[c].pc # "idle" => slot = "Active")
  BY Borrowed DEF IInv, Types
<1>1. ASSUME Kept(c), slot = "Active", UNCHANGED <<ord, slot>>,
             ctl[c].pc # "c_finalize", ctl'[c].pc # "c_finalize", up' = up \/ up' = TRUE
      PROVE  [Use!Next]_(Use!vars)
  BY <1>1, QuietRefines DEF Use!Next
<1>2. ASSUME NEW l \in PC, Go(c, l), l # "c_finalize", UNCHANGED <<ord, slot>>,
             slot = "Active", ctl[c].pc # "c_finalize", up' = up \/ up' = TRUE
      PROVE  [Use!Next]_(Use!vars)
  BY <1>0, <1>1, <1>2, GoFacts
<1>3. ASSUME Return(c), UNCHANGED <<ord, slot, up>>, ctl[c].pc \notin {"idle", "c_finalize"}
      PROVE  [Use!Next]_(Use!vars)
  BY <1>0, <1>1, <1>3, ReturnFacts
<1>4. ASSUME NEW r, ctl' = [ctl EXCEPT ![c] = r], r.pc # "c_finalize",
             UNCHANGED <<ord, slot, up>>, ctl[c].pc \notin {"idle", "c_finalize"}
      PROVE  [Use!Next]_(Use!vars)
  BY <1>0, <1>1, <1>4 DEF Kept, Types
<1>5. CASE CheckReinitialize(c) \/ FinalizeCalled(c)
  BY <1>2, <1>5, Places DEF CheckReinitialize, FinalizeCalled
<1>6. CASE RaiseWaiting(c)
  <2>1. ctl[c].pc \in LockPC /\ UNCHANGED <<ord, slot, up>>
    BY <1>6 DEF RaiseWaiting
  <2>2. ctl[c].pc \notin {"idle", "c_finalize"}
    BY <2>1 DEF LockPC
  <2>3. ctl' = [ctl EXCEPT ![c] = [ctl[c] EXCEPT !.waiting = TRUE]]
    BY <1>6 DEF RaiseWaiting
  <2>4. [ctl[c] EXCEPT !.waiting = TRUE].pc = ctl[c].pc
    BY <1>0 DEF CtlType
  <2> QED BY <1>4, <2>1, <2>2, <2>3, <2>4
<1>7. CASE BeginInitialize(c)
  <2>1. ctl[c].pc = "begin_init" /\ UNCHANGED <<ord, slot, up>>
    BY <1>7 DEF BeginInitialize, Acquire
  <2> DEFINE r == [idle EXCEPT !.pc = "attempt", !.prior = dom.state, !.epoch = dom.epoch + 1]
  <2>2. Return(c) \/ ctl' = [ctl EXCEPT ![c] = r]
    BY <1>7 DEF BeginInitialize
  <2>3. r.pc = "attempt"
    BY DEF idle
  <2> HIDE DEF r
  <2> QED BY <1>3, <1>4, <2>1, <2>2, <2>3
<1>8. CASE BeginFinalize(c)
  <2>1. ctl[c].pc = "begin_fin" /\ UNCHANGED <<ord, slot, up>>
    BY <1>8 DEF BeginFinalize
  <2> DEFINE r == [idle EXCEPT !.pc = "enter_finalizing", !.prior = dom.state,
                               !.epoch = dom.epoch + 1]
  <2>2. Return(c) \/ ctl' = [ctl EXCEPT ![c] = r]
    BY <1>8 DEF BeginFinalize
  <2>3. r.pc = "enter_finalizing"
    BY DEF idle
  <2> HIDE DEF r
  <2> QED BY <1>3, <1>4, <2>1, <2>2, <2>3
<1>9. CASE EnterInitialize(c) \/ CountCompletion(c) \/ ApplyCycle(c)
  BY <1>0, <1>2, <1>9, Places DEF EnterInitialize, CountCompletion, ApplyCycle
<1>10. CASE InitializeReturns(c)
  BY <1>0, <1>2, <1>10, Places DEF InitializeReturns, ComesUp
<1>11. CASE ReadGeneration(c)
  <2> DEFINE r == [ctl[c] EXCEPT !.pc = "count", !.gen = trk.gen]
  <2>1. /\ ctl[c].pc = "returned" /\ UNCHANGED <<ord, slot, up>>
        /\ ctl' = [ctl EXCEPT ![c] = r]
    BY <1>11 DEF ReadGeneration
  <2>2. r.pc = "count"
    BY <1>0 DEF CtlType
  <2> HIDE DEF r
  <2> QED BY <1>4, <2>1, <2>2
<1>12. CASE LoadCycle(c)
  <2> DEFINE r == [ctl[c] EXCEPT !.pc = "apply", !.mark = ~trk.initialized \/ trk.finalized_ok]
  <2>1. /\ ctl[c].pc = "load" /\ UNCHANGED <<ord, slot, up>>
        /\ Go(c, "abandon_refused") \/ ctl' = [ctl EXCEPT ![c] = r]
    BY <1>12 DEF LoadCycle
  <2>2. r.pc = "apply"
    BY <1>0 DEF CtlType
  <2> HIDE DEF r
  <2> QED BY <1>0, <1>2, <1>4, <2>1, <2>2, Places
<1>13. CASE CompareGeneration(c)
  <2> DEFINE r == [ctl[c] EXCEPT !.pc = "publish_open", !.mark = trk.gen # ctl[c].gen]
  <2>1. /\ ctl[c].pc = "changed" /\ UNCHANGED <<ord, slot, up>>
        /\ ctl' = [ctl EXCEPT ![c] = r]
    BY <1>13 DEF CompareGeneration
  <2>2. r.pc = "publish_open"
    BY <1>0 DEF CtlType
  <2> HIDE DEF r
  <2> QED BY <1>4, <2>1, <2>2
<1>14. CASE PublishOpen(c) \/ PublishFinalized(c)
  BY <1>3, <1>14 DEF PublishOpen, PublishFinalized, Acquire
<1>15. CASE AbandonNativeFailed(c) \/ AbandonRefused(c) \/ AbandonFinalize(c)
  BY <1>3, <1>15 DEF AbandonNativeFailed, AbandonRefused, AbandonFinalize
<1>16. CASE EnterFinalizing(c)
  BY <1>0, <1>2, <1>3, <1>16, Places DEF EnterFinalizing, Acquire
<1>17. CASE SnapshotCompletions(c)
  <2> DEFINE r == [ctl[c] EXCEPT !.pc = "c_finalize", !.seal = trk.completions]
  <2>1. /\ ctl[c].pc = "seal_count" /\ UNCHANGED <<ord, slot, up>>
        /\ ctl' = [ctl EXCEPT ![c] = r]
    BY <1>17 DEF SnapshotCompletions
  <2>2. r.pc = "c_finalize"
    BY <1>0 DEF CtlType
  <2> HIDE DEF r
  <2>3. Stopping'
    BY <2>1, <2>2 DEF Stopping, IInv, Types
  <2>4. up /\ ~ Stopping /\ Readers = {} /\ slot = "Active"
    <3>1. dom.state # "Open" /\ ~ Stopping
      BY <2>1, FinAlone DEF IInv, FinPC, Stopping
    <3>2. up
      BY <2>1 DEF IInv, LiveOK
    <3>3. Readers = {}
      BY <3>1 DEF IInv, BorrowOK, Readers
    <3> QED BY <1>0, <2>1, <3>1, <3>2, <3>3
  <2>5. Readers' = Readers /\ Probes' = Probes
    BY <2>1 DEF Readers, Probes
  <2>6. Use!BeginStop
    BY <2>1, <2>3, <2>4, <2>5 DEF Use!BeginStop, Stopping
  <2> QED BY <2>6 DEF Use!Next
<1>18. CASE FinalizeReturns(c)
  <2>1. ctl[c].pc = "c_finalize" /\ UNCHANGED <<ord, slot>>
    BY <1>18 DEF FinalizeReturns
  <2>2. PICK l \in {"publish_fin", "abandon_fin"} : Go(c, l) /\ (up' = FALSE \/ up' = up)
    BY <1>18 DEF FinalizeReturns
  <2>3. Kept(c) /\ ctl'[c].pc = l
    BY <1>0, <2>2, Places, GoFacts
  <2>4. Stopping /\ ~ Stopping'
    <3>1. \A d \in Controls \ {c} : ctl[d].pc # "c_finalize"
      BY <2>1, FinAlone DEF IInv, FinPC
    <3> QED BY <2>1, <2>3, <3>1 DEF Stopping, Kept
  <2>5. Readers' = Readers /\ Probes' = Probes
    BY <2>1 DEF Readers, Probes
  <2>6. Use!EndStop
    BY <2>1, <2>2, <2>4, <2>5 DEF Use!EndStop, Stopping
  <2> QED BY <2>6 DEF Use!Next
<1> QED BY <1>5, <1>6, <1>7, <1>8, <1>9, <1>10, <1>11, <1>12, <1>13, <1>14, <1>15, <1>16,
           <1>17, <1>18 DEF Control

\* An ordinary call enters a live module that nobody finalizes, and leaves it;
\* a probe enters a loaded one.
LEMMA OrdinaryRefines ==
  ASSUME IInv, NEW o \in Ops, OrdinaryStep(o)
  PROVE  [Use!Next]_(Use!vars)
<1>0. UNCHANGED <<ctl, slot, up>> /\ ord \in [Ops -> {"idle", "passed", "native", "probe"}]
  BY DEF OrdinaryStep, AdmitSpin, AdmitRead, OrdReturn, Probe, ProbeReturn, IInv, Types
<1>1. CASE OrdReturn(o)
  <2>1. Readers' = Readers \ {o} /\ Probes' = Probes
    BY <1>0, <1>1 DEF OrdReturn, Readers, Probes
  <2>2. Use!Leave(o)
    BY <1>0, <2>1 DEF Use!Leave
  <2> QED BY <2>2 DEF Use!Next
<1>2. CASE AdmitRead(o) /\ dom.state = "Open"
  <2>1. Readers' = Readers \cup {o} /\ Probes' = Probes
    BY <1>0, <1>2 DEF AdmitRead, Readers, Probes
  <2>2. slot = "Active" /\ up
    BY <1>2 DEF AdmitRead, IInv, BorrowOK, LiveOK
  <2>3. ~ Stopping
    BY <1>2 DEF IInv, TicketOK, FinPC, Stopping
  <2>4. Use!Enter(o)
    BY <1>0, <2>1, <2>2, <2>3 DEF Use!Enter, Stopping
  <2> QED BY <2>4 DEF Use!Next
<1>3. CASE AdmitSpin(o) \/ (AdmitRead(o) /\ dom.state # "Open")
  <2>1. Readers' = Readers /\ Probes' = Probes
    BY <1>0, <1>3 DEF AdmitSpin, AdmitRead, Readers, Probes
  <2> QED BY <1>0, <2>1 DEF Use!vars
<1>4. CASE Probe(o)
  <2>1. Readers' = Readers /\ Probes' = Probes \cup {o} /\ slot = "Active"
    BY <1>0, <1>4 DEF Probe, Readers, Probes
  <2>2. Use!EnterProbe(o)
    BY <1>0, <2>1 DEF Use!EnterProbe
  <2> QED BY <2>2 DEF Use!Next
<1>5. CASE ProbeReturn(o)
  <2>1. Readers' = Readers /\ Probes' = Probes \ {o}
    BY <1>0, <1>5 DEF ProbeReturn, Readers, Probes
  <2>2. Use!LeaveProbe(o)
    BY <1>0, <2>1 DEF Use!LeaveProbe
  <2> QED BY <2>2 DEF Use!Next
<1> QED BY <1>1, <1>2, <1>3, <1>4, <1>5 DEF OrdinaryStep

\* The drop of a backend stutters or unloads; a reload loads.
LEMMA DropRefines ==
  ASSUME IInv, DropBackend \/ Reload
  PROVE  [Use!Next]_(Use!vars)
<1>1. CASE DropBackend
  <2>1. /\ slot = "Active" /\ UNCHANGED <<ctl, ord, up>>
        /\ Readers = {} /\ Probes = {} /\ ~ Stopping
    BY <1>1 DEF DropBackend, Readers, Probes, Stopping
  <2>2. Readers' = {} /\ Probes' = {}
    BY <2>1 DEF Readers, Probes
  <2>3. CASE slot' = "Poisoned"
    BY <2>1, <2>2, <2>3 DEF Use!vars
  <2>4. CASE slot' = "Retiring"
    <3>1. ~ up
      BY <1>1, <2>1, <2>4, DropBackendOK DEF IInv, UnloadOK
    <3>2. Use!Unload
      BY <2>1, <2>2, <2>4, <3>1 DEF Use!Unload, Stopping
    <3> QED BY <3>2 DEF Use!Next
  <2> QED BY <1>1, <2>3, <2>4 DEF DropBackend
<1>2. CASE Reload
  <2>1. slot = "Retiring" /\ slot' = "Active" /\ UNCHANGED <<ctl, ord, up>>
    BY <1>2 DEF Reload
  <2>2. Readers' = Readers /\ Probes' = Probes
    BY <2>1 DEF Readers, Probes
  <2>3. Use!Load
    BY <2>1, <2>2 DEF Use!Load
  <2> QED BY <2>3 DEF Use!Next
<1> QED BY <1>1, <1>2

\* Every step is a step of ModuleUse or a stutter.
LEMMA NextRefines == IInv /\ [Next]_vars => [Use!Next]_(Use!vars)
<1> SUFFICES ASSUME IInv, [Next]_vars PROVE [Use!Next]_(Use!vars)
  OBVIOUS
<1>1. CASE UNCHANGED vars
  BY <1>1 DEF vars, Use!vars, Readers, Probes
<1>2. CASE Next
  BY <1>2, ControlRefines, OrdinaryRefines, DropRefines DEF Next, OrdinaryStep
<1> QED BY <1>1, <1>2

-----------------------------------------------------------------------------
(* Theorems *)

\* The lifecycle domain keeps what the daemon promises to a PKCS#11 module:
\* ordinary calls only in a live module that nobody finalizes, the library
\* unloaded only when the module is down and no call or probe is inside, for
\* any number of overlapping initialize() and finalize(), any probes in any
\* state, and any width of the epoch.
THEOREM RefinesModuleUse == Spec => ImplementsModuleUse
<1> QED BY InitOK, NextOK, InitRefines, NextRefines, PTL DEF Spec, ImplementsModuleUse, Use!Spec

\* No admitted call finds a binding of an earlier incarnation of the module in
\* the session tables.
THEOREM BindingsLive == Spec => []NoDeadBindings
<1>1. IInv => NoDeadBindings
  <2> SUFFICES ASSUME IInv, Readers # {} PROVE binds \subseteq {inc}
    BY DEF NoDeadBindings
  <2>1. dom.state = "Open"
    BY DEF IInv, BorrowOK, Readers
  <2>2. \A c \in Controls : ctl[c].pc # "publish_fin"
    BY <2>1 DEF IInv, TicketOK, FinPC
  <2>3. dom # [state |-> "Uncertain", epoch |-> MaxEpoch]
    BY <2>1
  <2> QED BY <2>2, <2>3 DEF IInv, BindOK
<1> QED BY <1>1, InitOK, NextOK, PTL DEF Spec

===============================================================================
