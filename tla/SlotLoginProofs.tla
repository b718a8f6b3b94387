--------------------------- MODULE SlotLoginProofs ---------------------------
(***************************************************************************)
(* SlotLogin for any number of clients, sessions, tasks and late calls.    *)
(***************************************************************************)
EXTENDS SlotLogin, TLAPS

\* Where a task is when the slot lock is its own.
Holding == {"login_call", "login_answer", "login_mint",
            "logout_call", "logout_answer", "last_call"}

\* Where a task serves one session of a live client.
Serving == {"login_lock", "login_call", "login_answer", "login_mint",
            "reconcile_call", "reconcile_lock",
            "logout_lock", "logout_call", "logout_answer",
            "close_lock", "close_call", "close_settle", "batch_settle"}

\* A task in state t, while the clients in L are live, has its arguments.
ShapeOf(t, L) ==
  /\ t.ctx \in L \cup {None}
  /\ t.pc \in Serving => t.ctx \in L /\ t.s \in Sessions
  /\ t.pc = "batch_call" => t.ctx \in L
  /\ t.pc = "last_call" => t.s \in Sessions

ShapeOK == \A p \in Tasks : ShapeOf(task[p], live)

\* Program counters and the lock agree on who owns it.
LockOK ==
  /\ \A p \in Tasks : task[p].pc \in Holding <=> lock = p
  /\ carrier # "none" <=> lock = Carrier

\* Who else may hold the slot while a logout is on its way to the provider.
LoginOK ==
  /\ carrier # "none" => holders = {}
  /\ \A p \in Tasks : task[p].pc = "logout_call" => Others(task[p].ctx) = {}
  /\ \A p \in Tasks : task[p].pc = "last_call" => holders = {}
  /\ "timeouts" \notin load => late = {}

IInv == TypeOK /\ ShapeOK /\ LockOK /\ LoginOK

\* Only task p changes, within its type.
Moved(p) == /\ task' \in [Tasks -> TaskType]
            /\ \A q \in Tasks \ {p} : task'[q] = task[q]

-----------------------------------------------------------------------------
\* Idle is a task state, and a harmless one.
LEMMA IdleType == Idle \in TaskType /\ Idle.pc = "idle" /\ Idle.ctx = None
  BY DEF Idle, TaskType, PC

\* Finish leaves the task idle.
LEMMA FinishFacts ==
  ASSUME task \in [Tasks -> TaskType], NEW p \in Tasks, Finish(p)
  PROVE  Moved(p) /\ task'[p] = Idle /\ task'[p].pc = "idle" /\ task'[p].ctx = None
  BY IdleType DEF Finish, Moved

\* Go moves the program counter only.
LEMMA GoFacts ==
  ASSUME task \in [Tasks -> TaskType], NEW p \in Tasks, NEW pc \in PC, Go(p, pc)
  PROVE  /\ Moved(p)
         /\ task'[p].pc = pc /\ task'[p].ctx = task[p].ctx /\ task'[p].s = task[p].s
  BY DEF Go, Moved, TaskType

\* An answer of the provider moves the program counter and is noted.
LEMMA AnswerFacts ==
  ASSUME task \in [Tasks -> TaskType], NEW p \in Tasks, NEW pc \in PC,
         NEW rv \in {"ok", "already", "fail", "ambiguous"},
         task' = [task EXCEPT ![p].pc = pc, ![p].rv = rv]
  PROVE  /\ Moved(p)
         /\ task'[p].pc = pc /\ task'[p].ctx = task[p].ctx /\ task'[p].s = task[p].s
<1> DEFINE r == [task[p] EXCEPT !.pc = pc, !.rv = rv]
<1>1. r \in TaskType /\ r.pc = pc /\ r.ctx = task[p].ctx /\ r.s = task[p].s
  BY DEF TaskType
<1>2. task' = [task EXCEPT ![p] = r]
  OBVIOUS
<1> HIDE DEF r
<1> QED BY <1>1, <1>2 DEF Moved

\* After the last-holder helper the task is idle or goes on to its closes.
LEMMA AfterLogoutFacts ==
  ASSUME task \in [Tasks -> TaskType], NEW p \in Tasks, AfterLogout(p)
  PROVE  /\ Moved(p)
         /\ task'[p].pc \in {"idle", "reap"}
         /\ task'[p].ctx \in {task[p].ctx, None}
<1>1. CASE task[p].batch = {}
  BY <1>1, FinishFacts DEF AfterLogout
<1>2. CASE task[p].batch # {}
  BY <1>2 DEF AfterLogout, Moved, TaskType, PC
<1> QED BY <1>1, <1>2

-----------------------------------------------------------------------------
(* The four kinds of steps a task takes, by what they do to the slot lock. *)

\* A step that leaves the lock alone, by a task that does not own it: logins
\* may only go.
LEMMA QuietStep ==
  ASSUME IInv, UNCHANGED load, NEW p \in Tasks, Moved(p), ShapeOf(task'[p], live'), live' = live,
         task[p].pc \notin Holding, task'[p].pc \notin Holding,
         lock' = lock, carrier' = carrier, holders' \subseteq holders,
         "timeouts" \notin load => late' = {}
  PROVE  ShapeOK' /\ LockOK' /\ LoginOK'
<1>1. ShapeOK'
  BY DEF IInv, ShapeOK, Moved
<1>2. LockOK'
  BY DEF IInv, LockOK, Moved
<1>3. LoginOK'
  BY DEF IInv, LoginOK, Moved, Others, Holding
<1> QED BY <1>1, <1>2, <1>3

\* The owner gives the lock back: nobody else was on the way to a logout, so
\* any login may be minted.
LEMMA ReleaseStep ==
  ASSUME IInv, UNCHANGED load, NEW p \in Tasks, Moved(p), ShapeOf(task'[p], live'), live' = live,
         task[p].pc \in Holding, task'[p].pc \notin Holding,
         lock' = Free, carrier' = carrier, "timeouts" \notin load => late' = {}
  PROVE  ShapeOK' /\ LockOK' /\ LoginOK'
<1>1. ShapeOK'
  BY DEF IInv, ShapeOK, Moved
<1>2. lock = p /\ p # Carrier /\ p # Free /\ carrier = "none"
  BY SlotAssumption DEF IInv, LockOK
<1>3. \A q \in Tasks : q # Free /\ task'[q].pc \notin Holding
  BY <1>2, SlotAssumption DEF IInv, LockOK, Moved
<1>4. LockOK'
  BY <1>2, <1>3 DEF LockOK, Free, Carrier
<1>5. LoginOK'
  BY <1>2, <1>3 DEF LoginOK, Holding
<1> QED BY <1>1, <1>4, <1>5

\* The lock is taken, with what the taker has checked under it.
LEMMA AcquireStep ==
  ASSUME IInv, UNCHANGED load, NEW p \in Tasks, Moved(p), ShapeOf(task'[p], live'), live' = live,
         lock = Free, task'[p].pc \in Holding,
         lock' = p, carrier' = carrier, holders' = holders, late' = late,
         task'[p].pc = "logout_call" => Others(task'[p].ctx) = {},
         task'[p].pc = "last_call" => holders = {}
  PROVE  ShapeOK' /\ LockOK' /\ LoginOK'
<1>1. ShapeOK'
  BY DEF IInv, ShapeOK, Moved
<1>2. p # Carrier /\ p # Free /\ carrier = "none"
  BY SlotAssumption DEF IInv, LockOK, Free, Carrier
<1>3. \A q \in Tasks \ {p} : task'[q].pc \notin Holding
  BY SlotAssumption DEF IInv, LockOK, Moved
<1>4. LockOK'
  BY <1>2, <1>3 DEF LockOK
<1>5. LoginOK'
  BY <1>2, <1>3 DEF IInv, LoginOK, Holding, Others
<1> QED BY <1>1, <1>4, <1>5

\* The owner goes on under the lock.
LEMMA HoldStep ==
  ASSUME IInv, UNCHANGED load, NEW p \in Tasks, Moved(p), ShapeOf(task'[p], live'), live' = live,
         task[p].pc \in Holding, task'[p].pc \in Holding \ {"logout_call"},
         task'[p].pc = "last_call" => task[p].pc = "last_call",
         lock' = lock, carrier' = carrier, holders' = holders, late' = late
  PROVE  ShapeOK' /\ LockOK' /\ LoginOK'
<1>1. ShapeOK'
  BY DEF IInv, ShapeOK, Moved
<1>2. LockOK'
  BY DEF IInv, LockOK, Moved
<1>3. LoginOK'
  BY DEF IInv, LoginOK, Moved, Others
<1> QED BY <1>1, <1>2, <1>3

-----------------------------------------------------------------------------
(* One lemma per action of a task. *)

\* Taking on a request.
LEMMA StartOK ==
  ASSUME IInv, UNCHANGED load, NEW p \in Tasks, NEW s \in Sessions,
         StartLogin(p, s) \/ StartLogout(p, s) \/ StartClose(p, s)
  PROVE  IInv'
<1>1. PICK pc \in {"login_lock", "logout_lock", "close_lock"} : Start(p, s, pc)
  BY DEF StartLogin, StartLogout, StartClose
<1> DEFINE r == [Idle EXCEPT !.pc = pc, !.ctx = Owner[s], !.s = s]
<1>2. r \in TaskType /\ r.pc = pc /\ r.ctx = Owner[s] /\ r.s = s
  BY SlotAssumption DEF Idle, TaskType, PC
<1>3. task' = [task EXCEPT ![p] = r] /\ task[p].pc = "idle" /\ Owner[s] \in live
  BY <1>1 DEF Start, At
<1> HIDE DEF r
<1>4. Moved(p) /\ task'[p] = r
  BY <1>2, <1>3 DEF IInv, TypeOK, Moved
<1>5. TypeOK'
  BY <1>1, <1>4 DEF IInv, TypeOK, Start, Moved
<1>6. ShapeOf(task'[p], live') /\ task[p].pc \notin Holding /\ task'[p].pc \notin Holding
  BY <1>1, <1>2, <1>3, <1>4 DEF ShapeOf, Holding, Start
<1>7. ShapeOK' /\ LockOK' /\ LoginOK'
  BY <1>1, <1>4, <1>6, QuietStep DEF Start, IInv, LoginOK
<1> QED BY <1>5, <1>7 DEF IInv

\* The refusal of a request that cannot have the lock.
LEMMA LockTimeoutOK ==
  ASSUME IInv, UNCHANGED load, NEW p \in Tasks, LockTimeout(p)
  PROVE  IInv'
<1>1. Moved(p) /\ task'[p].pc = "idle" /\ task'[p].ctx = None
  BY FinishFacts DEF LockTimeout, IInv, TypeOK
<1>2. TypeOK'
  BY <1>1 DEF LockTimeout, IInv, TypeOK, Moved
<1>3. ShapeOf(task'[p], live') /\ task[p].pc \notin Holding /\ task'[p].pc \notin Holding
  BY <1>1 DEF ShapeOf, Serving, Holding, LockTimeout
<1>4. ShapeOK' /\ LockOK' /\ LoginOK'
  BY <1>1, <1>3, QuietStep DEF LockTimeout, IInv, LoginOK
<1> QED BY <1>2, <1>4 DEF IInv

\* The lock is taken for a session that still resolves, and left otherwise.
LEMMA LoginLockOK ==
  ASSUME IInv, UNCHANGED load, NEW p \in Tasks, LoginLock(p)
  PROVE  IInv'
<1> USE DEF LoginLock
<1>1. CASE sess[task[p].s] = "active"
  <2>1. Acquire(p) /\ Go(p, "login_call")
    BY <1>1
  <2>2. /\ Moved(p) /\ task'[p].pc = "login_call"
        /\ task'[p].ctx = task[p].ctx /\ task'[p].s = task[p].s
    BY <2>1, GoFacts DEF IInv, TypeOK, PC
  <2>3. TypeOK'
    BY <2>1, <2>2 DEF IInv, TypeOK, Moved, Acquire
  <2>4. ShapeOf(task'[p], live')
    BY <2>2 DEF IInv, ShapeOK, ShapeOf, Serving
  <2>5. ShapeOK' /\ LockOK' /\ LoginOK'
    BY <2>1, <2>2, <2>4, AcquireStep DEF Holding, Acquire
  <2> QED BY <2>3, <2>5 DEF IInv
<1>2. CASE sess[task[p].s] # "active"
  <2>1. UNCHANGED lock /\ Moved(p) /\ task'[p].pc = "idle" /\ task'[p].ctx = None
    BY <1>2, FinishFacts DEF IInv, TypeOK
  <2>2. TypeOK'
    BY <2>1 DEF IInv, TypeOK, Moved
  <2>3. ShapeOf(task'[p], live') /\ task[p].pc \notin Holding /\ task'[p].pc \notin Holding
    BY <2>1 DEF ShapeOf, Serving, Holding
  <2>4. ShapeOK' /\ LockOK' /\ LoginOK'
    BY <2>1, <2>3, QuietStep DEF IInv, LoginOK
  <2> QED BY <2>2, <2>4 DEF IInv
<1> QED BY <1>1, <1>2

\* The provider's answer to a login or a logout is noted under the lock.
LEMMA NativeCallOK ==
  ASSUME IInv, UNCHANGED load, NEW p \in Tasks, LoginCall(p) \/ LogoutCall(p)
  PROVE  IInv'
<1>1. PICK pc \in {"login_answer", "logout_answer"}, rv \in {"ok", "already", "fail"} :
        task' = [task EXCEPT ![p].pc = pc, ![p].rv = rv]
  BY DEF LoginCall, LogoutCall
<1>2. /\ Moved(p) /\ task'[p].pc = pc
      /\ task'[p].ctx = task[p].ctx /\ task'[p].s = task[p].s
  BY <1>1, AnswerFacts, {"login_answer", "logout_answer"} \subseteq PC
  DEF IInv, TypeOK, PC
<1>3. token' \in BOOLEAN
  BY DEF LoginCall, LogoutCall, NativeLogin, NativeLogout, IInv, TypeOK
<1>4. task[p].pc \in {"login_call", "logout_call"}
  BY DEF LoginCall, LogoutCall, At
<1>5. UNCHANGED <<live, sess, native, holders, contended, lock, late, carrier>>
  BY DEF LoginCall, LogoutCall
<1>6. TypeOK'
  BY <1>2, <1>3, <1>5 DEF IInv, TypeOK, Moved
<1>7. ShapeOf(task'[p], live')
  BY <1>2, <1>4, <1>5 DEF IInv, ShapeOK, ShapeOf, Serving
<1>8. ShapeOK' /\ LockOK' /\ LoginOK'
  BY <1>2, <1>4, <1>5, <1>7, HoldStep DEF Holding
<1> QED BY <1>6, <1>8 DEF IInv

\* The answer to a login keeps the lock for the mint, or gives it back.
LEMMA LoginAnswerOK ==
  ASSUME IInv, UNCHANGED load, NEW p \in Tasks, LoginAnswer(p)
  PROVE  IInv'
<1> USE DEF LoginAnswer, At, Release
<1>0. task[p].pc = "login_answer" /\ task[p].ctx \in live /\ task[p].s \in Sessions
  BY DEF IInv, ShapeOK, ShapeOf, Serving
<1>1. CASE Reconciles(p)
  <2>1. /\ Moved(p) /\ task'[p].pc = "reconcile_call"
        /\ task'[p].ctx = task[p].ctx /\ task'[p].s = task[p].s
    BY <1>1 DEF IInv, TypeOK, Moved, TaskType, PC
  <2>2. TypeOK'
    BY <1>1, <2>1 DEF IInv, TypeOK, Moved
  <2>3. ShapeOf(task'[p], live')
    BY <1>0, <2>1 DEF ShapeOf
  <2>4. ShapeOK' /\ LockOK' /\ LoginOK'
    BY <1>0, <1>1, <2>1, <2>3, ReleaseStep DEF Holding, IInv, LoginOK
  <2> QED BY <2>2, <2>4 DEF IInv
<1>2. CASE ~Reconciles(p) /\ task[p].rv = "ok" /\ sess[task[p].s] = "active"
  <2>1. /\ Moved(p) /\ task'[p].pc = "login_mint"
        /\ task'[p].ctx = task[p].ctx /\ task'[p].s = task[p].s
    BY <1>2, GoFacts DEF IInv, TypeOK, PC
  <2>2. TypeOK'
    BY <1>2, <2>1 DEF IInv, TypeOK, Moved
  <2>3. ShapeOf(task'[p], live')
    BY <1>0, <2>1 DEF ShapeOf
  <2>4. ShapeOK' /\ LockOK' /\ LoginOK'
    BY <1>0, <1>2, <2>1, <2>3, HoldStep DEF Holding
  <2> QED BY <2>2, <2>4 DEF IInv
<1>3. CASE ~Reconciles(p) /\ ~(task[p].rv = "ok" /\ sess[task[p].s] = "active")
  <2>1. Moved(p) /\ task'[p].pc = "idle" /\ task'[p].ctx = None /\ lock' = Free
    BY <1>3, FinishFacts DEF IInv, TypeOK
  <2>2. TypeOK'
    BY <1>0, <1>3, <2>1 DEF IInv, TypeOK, Moved
  <2>3. ShapeOf(task'[p], live')
    BY <2>1 DEF ShapeOf, Serving
  <2>4. ShapeOK' /\ LockOK' /\ LoginOK'
    BY <1>0, <2>1, <2>3, ReleaseStep DEF Holding, IInv, LoginOK
  <2> QED BY <2>2, <2>4 DEF IInv
<1> QED BY <1>1, <1>2, <1>3

\* A login is minted, or a logout's answer applied, and the lock given back.
LEMMA MintOK ==
  ASSUME IInv, UNCHANGED load, NEW p \in Tasks, LoginMint(p) \/ LogoutAnswer(p)
  PROVE  IInv'
<1>1. /\ task[p].pc \in {"login_mint", "logout_answer"} /\ Finish(p) /\ lock' = Free
      /\ UNCHANGED <<live, sess, native, token, late, carrier>>
  BY DEF LoginMint, LogoutAnswer, At, Release
<1>2. Moved(p) /\ task'[p].pc = "idle" /\ task'[p].ctx = None
  BY <1>1, FinishFacts DEF IInv, TypeOK
<1>3. task[p].ctx \in live
  BY <1>1 DEF IInv, ShapeOK, ShapeOf, Serving
<1>4. holders' \subseteq live /\ contended' \subseteq live
  BY <1>3 DEF LoginMint, LogoutAnswer, IInv, TypeOK
<1>5. TypeOK'
  BY <1>1, <1>2, <1>4 DEF IInv, TypeOK, Moved
<1>6. ShapeOf(task'[p], live')
  BY <1>2 DEF ShapeOf, Serving
<1>7. ShapeOK' /\ LockOK' /\ LoginOK'
  BY <1>1, <1>2, <1>6, ReleaseStep DEF Holding, IInv, LoginOK
<1> QED BY <1>5, <1>7 DEF IInv

\* The reconcile logout runs without the lock and keeps its types.
LEMMA ReconcileCallOK ==
  ASSUME IInv, UNCHANGED load, NEW p \in Tasks, ReconcileCall(p)
  PROVE  IInv'
<1> USE DEF ReconcileCall
<1>1. /\ Moved(p) /\ task'[p].pc = "reconcile_lock" /\ task[p].pc = "reconcile_call"
      /\ task'[p].ctx = task[p].ctx /\ task'[p].s = task[p].s
  BY GoFacts DEF IInv, TypeOK, PC, At
<1>2. TypeOK'
  BY <1>1 DEF IInv, TypeOK, Moved, NativeLogout
<1>3. ShapeOf(task'[p], live')
  BY <1>1 DEF IInv, ShapeOK, ShapeOf, Serving
<1>4. ShapeOK' /\ LockOK' /\ LoginOK'
  BY <1>1, <1>3, QuietStep DEF Holding, IInv, LoginOK
<1> QED BY <1>2, <1>4 DEF IInv

\* Under the lock a logout is settled logically, or sets out when no other
\* client holds the slot.
LEMMA LogoutLockOK ==
  ASSUME IInv, UNCHANGED load, NEW p \in Tasks, LogoutLock(p)
  PROVE  IInv'
<1> USE DEF LogoutLock, At
<1>0. task[p].pc = "logout_lock" /\ task[p].ctx \in live /\ task[p].s \in Sessions
  BY DEF IInv, ShapeOK, ShapeOf, Serving
<1>1. CASE sess[task[p].s] # "active" \/ Others(task[p].ctx) # {}
  <2>1. /\ Finish(p) /\ lock' = lock /\ holders' \subseteq holders
        /\ contended' \subseteq contended
    BY <1>1
  <2>2. Moved(p) /\ task'[p].pc = "idle" /\ task'[p].ctx = None
    BY <2>1, FinishFacts DEF IInv, TypeOK
  <2>3. TypeOK'
    BY <2>1, <2>2 DEF IInv, TypeOK, Moved
  <2>4. ShapeOf(task'[p], live')
    BY <2>2 DEF ShapeOf, Serving
  <2>5. ShapeOK' /\ LockOK' /\ LoginOK'
    BY <1>0, <2>1, <2>2, <2>4, QuietStep DEF Holding, IInv, LoginOK
  <2> QED BY <2>3, <2>5 DEF IInv
<1>2. CASE sess[task[p].s] = "active" /\ Others(task[p].ctx) = {}
  <2>1. lock' = p /\ Go(p, "logout_call") /\ UNCHANGED <<holders, contended>>
    BY <1>2
  <2>2. /\ Moved(p) /\ task'[p].pc = "logout_call"
        /\ task'[p].ctx = task[p].ctx /\ task'[p].s = task[p].s
    BY <2>1, GoFacts DEF IInv, TypeOK, PC
  <2>3. TypeOK'
    BY <2>1, <2>2 DEF IInv, TypeOK, Moved
  <2>4. ShapeOf(task'[p], live')
    BY <1>0, <2>2 DEF ShapeOf
  <2>5. ShapeOK' /\ LockOK' /\ LoginOK'
    BY <1>2, <2>1, <2>2, <2>4, AcquireStep DEF Holding
  <2> QED BY <2>3, <2>5 DEF IInv
<1> QED BY <1>1, <1>2

\* A close suspends its session under the lock and gives the lock back.
LEMMA CloseLockOK ==
  ASSUME IInv, UNCHANGED load, NEW p \in Tasks, CloseLock(p)
  PROVE  IInv'
<1> USE DEF CloseLock, At
<1>0. task[p].pc = "close_lock" /\ task[p].ctx \in live /\ task[p].s \in Sessions
  BY DEF IInv, ShapeOK, ShapeOf, Serving
<1>1. CASE sess[task[p].s] = "active"
  <2> DEFINE h == task[p].ctx \in holders
             r == [task[p] EXCEPT !.pc = "close_call", !.held = h]
  <2>a. task' = [task EXCEPT ![p].pc = "close_call", ![p].held = h]
    BY <1>1, Zenon
  <2>b. h \in BOOLEAN
    OBVIOUS
  <2> HIDE DEF h
  <2>1. task' = [task EXCEPT ![p] = r]
    BY <2>a
  <2>c. task[p] \in TaskType /\ "close_call" \in PC
    BY DEF IInv, TypeOK, PC
  <2>d. r \in TaskType
    BY <2>b, <2>c DEF TaskType
  <2>2. r \in TaskType /\ r.pc = "close_call" /\ r.ctx = task[p].ctx /\ r.s = task[p].s
    BY <2>c, <2>d DEF TaskType
  <2> HIDE DEF r
  <2>3. Moved(p) /\ task'[p] = r
    BY <2>1, <2>2 DEF IInv, TypeOK, Moved
  <2>4. TypeOK'
    BY <1>1, <2>3 DEF IInv, TypeOK, Moved
  <2>5. ShapeOf(task'[p], live') /\ task'[p].pc \notin Holding
    BY <1>0, <2>2, <2>3 DEF ShapeOf, Holding
  <2>6. ShapeOK' /\ LockOK' /\ LoginOK'
    BY <1>0, <2>3, <2>5, QuietStep DEF Holding, IInv, LoginOK
  <2> QED BY <2>4, <2>6 DEF IInv
<1>2. CASE sess[task[p].s] # "active"
  <2>1. Moved(p) /\ task'[p].pc = "idle" /\ task'[p].ctx = None
    BY <1>2, FinishFacts DEF IInv, TypeOK
  <2>2. TypeOK'
    BY <1>2, <2>1 DEF IInv, TypeOK, Moved
  <2>3. ShapeOf(task'[p], live') /\ task'[p].pc \notin Holding
    BY <2>1 DEF ShapeOf, Serving, Holding
  <2>4. ShapeOK' /\ LockOK' /\ LoginOK'
    BY <1>0, <2>1, <2>3, QuietStep DEF Holding, IInv, LoginOK
  <2> QED BY <2>2, <2>4 DEF IInv
<1> QED BY <1>1, <1>2

\* What a close does at the provider stays within the types.
LEMMA CloseAnswerType ==
  ASSUME TypeOK, NEW s, NEW rv, CloseAnswer(s, rv)
  PROVE  native' \subseteq Sessions /\ token' \in BOOLEAN
  BY DEF CloseAnswer, NativeClose, TypeOK

\* The provider's answer to a close.
LEMMA CloseCallOK ==
  ASSUME IInv, UNCHANGED load, NEW p \in Tasks, CloseCall(p)
  PROVE  IInv'
<1>1. PICK rv \in {"ok", "fail", "ambiguous"} :
        /\ CloseAnswer(task[p].s, rv)
        /\ task' = [task EXCEPT ![p].pc = "close_settle", ![p].rv = rv]
  BY DEF CloseCall
<1>2. native' \subseteq Sessions /\ token' \in BOOLEAN
  BY <1>1, CloseAnswerType DEF IInv
<1>3. "close_settle" \in PC
  BY DEF PC
<1>4. /\ Moved(p) /\ task'[p].pc = "close_settle"
      /\ task'[p].ctx = task[p].ctx /\ task'[p].s = task[p].s
  BY <1>1, <1>3, AnswerFacts DEF IInv, TypeOK
<1>5. task[p].pc = "close_call"
  BY DEF CloseCall, At
<1>6. TypeOK'
  BY <1>2, <1>4 DEF CloseCall, IInv, TypeOK, Moved
<1>7. ShapeOf(task'[p], live')
  BY <1>4, <1>5 DEF CloseCall, IInv, ShapeOK, ShapeOf, Serving
<1>8. ShapeOK' /\ LockOK' /\ LoginOK'
  BY <1>4, <1>5, <1>7, QuietStep DEF CloseCall, Holding, IInv, LoginOK
<1> QED BY <1>6, <1>8 DEF IInv

\* A settled close only takes logins away.
LEMMA SettleFacts ==
  ASSUME TypeOK, NEW c, NEW s \in Sessions, NEW rv, Settle(c, s, rv)
  PROVE  /\ sess' \in [Sessions -> {"unopened", "active", "suspended", "gone"}]
         /\ holders' \subseteq holders /\ contended' \subseteq contended
<1>1. sess' \in [Sessions -> {"unopened", "active", "suspended", "gone"}]
  BY DEF Settle, TypeOK
<1>2. holders' \subseteq holders /\ contended' \subseteq contended
  BY DEF Settle, AfterRemoval
<1> QED BY <1>1, <1>2

\* The settlement of a close takes a login away at most.
LEMMA CloseSettleOK ==
  ASSUME IInv, UNCHANGED load, NEW p \in Tasks, CloseSettle(p)
  PROVE  IInv'
<1>0. task[p].pc = "close_settle" /\ task[p].ctx \in live /\ task[p].s \in Sessions
  BY DEF CloseSettle, At, IInv, ShapeOK, ShapeOf, Serving
<1>1. /\ sess' \in [Sessions -> {"unopened", "active", "suspended", "gone"}]
      /\ holders' \subseteq holders /\ contended' \subseteq contended
  BY <1>0, SettleFacts DEF CloseSettle, IInv
<1>2. /\ Moved(p) /\ task'[p].pc \in {"idle", "last_fast"}
      /\ task'[p].ctx \in {task[p].ctx, None}
  <2>1. CASE task[p].held
    BY <2>1, GoFacts, "last_fast" \in PC DEF CloseSettle, IInv, TypeOK, PC
  <2>2. CASE ~task[p].held
    BY <2>2, FinishFacts DEF CloseSettle, IInv, TypeOK
  <2> QED BY <2>1, <2>2
<1>3. TypeOK'
  BY <1>1, <1>2 DEF CloseSettle, IInv, TypeOK, Moved
<1>4. ShapeOf(task'[p], live') /\ task'[p].pc \notin Holding
  BY <1>0, <1>2 DEF CloseSettle, ShapeOf, Serving, Holding
<1>5. ShapeOK' /\ LockOK' /\ LoginOK'
  BY <1>0, <1>1, <1>2, <1>4, QuietStep DEF CloseSettle, Holding, IInv, LoginOK
<1> QED BY <1>3, <1>5 DEF IInv

\* A batch close suspends its sessions without the lock.
LEMMA StartCloseAllOK ==
  ASSUME IInv, UNCHANGED load, NEW p \in Tasks, NEW c \in Contexts, StartCloseAll(p, c)
  PROVE  IInv'
<1> DEFINE batch == {s \in Tracked(c) : sess[s] = "active"}
           h == c \in holders
           r == [Idle EXCEPT !.pc = "batch_call", !.ctx = c, !.held = h, !.batch = batch]
<1>1. /\ task' = [task EXCEPT ![p] = r] /\ h \in BOOLEAN /\ batch \subseteq Sessions
      /\ sess' = [s \in Sessions |-> IF s \in batch THEN "suspended" ELSE sess[s]]
      /\ task[p].pc = "idle" /\ c \in live
  BY DEF StartCloseAll, At, Tracked
<1> HIDE DEF h, batch
<1>2. r \in TaskType /\ r.pc = "batch_call" /\ r.ctx = c
  BY <1>1 DEF Idle, TaskType, PC
<1> HIDE DEF r
<1>3. Moved(p) /\ task'[p] = r
  BY <1>1, <1>2 DEF IInv, TypeOK, Moved
<1>4. TypeOK'
  BY <1>1, <1>3 DEF StartCloseAll, IInv, TypeOK, Moved
<1>5. ShapeOf(task'[p], live') /\ task'[p].pc \notin Holding
  BY <1>1, <1>2, <1>3 DEF StartCloseAll, ShapeOf, Serving, Holding
<1>6. ShapeOK' /\ LockOK' /\ LoginOK'
  BY <1>1, <1>3, <1>5, QuietStep DEF StartCloseAll, Holding, IInv, LoginOK
<1> QED BY <1>4, <1>6 DEF IInv

\* The provider's answer to one close of a batch.
LEMMA BatchCallOK ==
  ASSUME IInv, UNCHANGED load, NEW p \in Tasks, BatchCall(p)
  PROVE  IInv'
<1>0. task[p].pc = "batch_call" /\ task[p].ctx \in live /\ task[p].batch \subseteq Sessions
  BY DEF BatchCall, At, IInv, ShapeOK, ShapeOf, TypeOK, TaskType
<1>1. PICK s \in task[p].batch, rv \in {"ok", "fail", "ambiguous"} :
        /\ CloseAnswer(s, rv)
        /\ task' = [task EXCEPT ![p].pc = "batch_settle", ![p].rv = rv, ![p].s = s]
  BY DEF BatchCall
<1>2. native' \subseteq Sessions /\ token' \in BOOLEAN
  BY <1>1, CloseAnswerType DEF IInv
<1> DEFINE r == [task[p] EXCEPT !.pc = "batch_settle", !.rv = rv, !.s = s]
<1>a. task[p] \in TaskType /\ "batch_settle" \in PC
  BY DEF IInv, TypeOK, PC
<1>b. s \in Sessions
  BY <1>0
<1>c. r \in TaskType
  BY <1>a, <1>b DEF TaskType
<1>3. r \in TaskType /\ r.pc = "batch_settle" /\ r.ctx = task[p].ctx /\ r.s \in Sessions
  BY <1>a, <1>b, <1>c DEF TaskType
<1>4. task' = [task EXCEPT ![p] = r]
  BY <1>1
<1> HIDE DEF r
<1>5. Moved(p) /\ task'[p] = r
  BY <1>3, <1>4 DEF IInv, TypeOK, Moved
<1>6. TypeOK'
  BY <1>2, <1>5 DEF BatchCall, IInv, TypeOK, Moved
<1>7. ShapeOf(task'[p], live') /\ task'[p].pc \notin Holding
  BY <1>0, <1>3, <1>5 DEF BatchCall, ShapeOf, Serving, Holding
<1>8. ShapeOK' /\ LockOK' /\ LoginOK'
  BY <1>0, <1>5, <1>7, QuietStep DEF BatchCall, Holding, IInv, LoginOK
<1> QED BY <1>6, <1>8 DEF IInv

\* The settlement of a batch takes a login away at most.
LEMMA BatchSettleOK ==
  ASSUME IInv, UNCHANGED load, NEW p \in Tasks, BatchSettle(p)
  PROVE  IInv'
<1>0. task[p].pc = "batch_settle" /\ task[p].ctx \in live /\ task[p].s \in Sessions
  BY DEF BatchSettle, At, IInv, ShapeOK, ShapeOf, Serving
<1>1. /\ sess' \in [Sessions -> {"unopened", "active", "suspended", "gone"}]
      /\ holders' \subseteq holders /\ contended' \subseteq contended
  BY <1>0, SettleFacts DEF BatchSettle, IInv
<1> DEFINE rest == task[p].batch \ {task[p].s}
           pc == IF rest = {} THEN "last_fast" ELSE "batch_call"
           r == [task[p] EXCEPT !.pc = pc, !.batch = rest, !.s = None]
<1>2. rest \subseteq Sessions /\ pc \in {"last_fast", "batch_call"}
  BY DEF IInv, TypeOK, TaskType
<1>3. Finish(p) \/ task' = [task EXCEPT ![p] = r]
  BY DEF BatchSettle
<1> HIDE DEF rest, pc
<1>a. task[p] \in TaskType /\ pc \in PC
  BY <1>2 DEF IInv, TypeOK, PC
<1>b. r \in TaskType
  BY <1>2, <1>a DEF TaskType
<1>4. r \in TaskType /\ r.pc = pc /\ r.ctx = task[p].ctx
  BY <1>a, <1>b DEF TaskType
<1> HIDE DEF r
<1>5. /\ Moved(p) /\ task'[p].pc \in {"idle", "last_fast", "batch_call"}
      /\ task'[p].ctx \in {task[p].ctx, None}
      /\ task'[p].pc = "batch_call" => task'[p].ctx = task[p].ctx
  <2>1. CASE Finish(p)
    BY <2>1, FinishFacts DEF IInv, TypeOK
  <2>2. CASE task' = [task EXCEPT ![p] = r]
    BY <1>2, <1>4, <2>2 DEF IInv, TypeOK, Moved
  <2> QED BY <1>3, <2>1, <2>2
<1>6. TypeOK'
  BY <1>1, <1>5 DEF BatchSettle, IInv, TypeOK, Moved
<1>7. ShapeOf(task'[p], live') /\ task'[p].pc \notin Holding
  BY <1>0, <1>5 DEF BatchSettle, ShapeOf, Serving, Holding
<1>8. ShapeOK' /\ LockOK' /\ LoginOK'
  BY <1>0, <1>1, <1>5, <1>7, QuietStep DEF BatchSettle, Holding, IInv, LoginOK
<1> QED BY <1>6, <1>8 DEF IInv
\* Steps around the last-holder logout that do not touch the lock.
LEMMA LastHolderFastOK ==
  ASSUME IInv, UNCHANGED load, NEW p \in Tasks, LastHolderFast(p) \/ CarrierDone(p)
  PROVE  IInv'
<1>1. /\ task[p].pc \in {"last_fast", "last_wait"} /\ (AfterLogout(p) \/ Go(p, "last_lock"))
      /\ UNCHANGED <<live, sess, native, token, holders, contended, lock, late, carrier>>
  BY DEF LastHolderFast, CarrierDone, At
<1>2. /\ Moved(p) /\ task'[p].pc \in {"idle", "reap", "last_lock"}
      /\ task'[p].ctx \in {task[p].ctx, None}
  <2>1. CASE AfterLogout(p)
    BY <2>1, AfterLogoutFacts DEF IInv, TypeOK
  <2>2. CASE Go(p, "last_lock")
    BY <2>2, GoFacts, "last_lock" \in PC DEF IInv, TypeOK, PC
  <2> QED BY <1>1, <2>1, <2>2
<1>3. TypeOK'
  BY <1>1, <1>2 DEF IInv, TypeOK, Moved
<1>4. ShapeOf(task'[p], live') /\ task'[p].pc \notin Holding
  BY <1>1, <1>2 DEF IInv, ShapeOK, ShapeOf, Serving, Holding
<1>5. ShapeOK' /\ LockOK' /\ LoginOK'
  BY <1>1, <1>2, <1>4, QuietStep DEF Holding, IInv, LoginOK
<1> QED BY <1>3, <1>5 DEF IInv

\* The recheck under the lock: nobody holds the slot when a logout sets out.
LEMMA LastHolderLockOK ==
  ASSUME IInv, UNCHANGED load, NEW p \in Tasks, LastHolderLock(p)
  PROVE  IInv'
<1> USE DEF LastHolderLock, At
<1>1. CASE lock # Free \/ holders # {}
  <2>1. /\ Moved(p) /\ task'[p].pc \in {"idle", "reap"} /\ UNCHANGED <<lock, carrier>>
        /\ task'[p].ctx \in {task[p].ctx, None}
    BY <1>1, AfterLogoutFacts DEF IInv, TypeOK
  <2>2. TypeOK'
    BY <2>1 DEF IInv, TypeOK, Moved
  <2>3. ShapeOf(task'[p], live') /\ task'[p].pc \notin Holding
    BY <2>1 DEF IInv, ShapeOK, ShapeOf, Serving, Holding
  <2>4. ShapeOK' /\ LockOK' /\ LoginOK'
    BY <2>1, <2>3, QuietStep DEF Holding, IInv, LoginOK
  <2> QED BY <2>2, <2>4 DEF IInv
<1>2. CASE lock = Free /\ holders = {}
  <2>1. PICK any \in AnyActiveSession(live) : ChooseCarrier(p, any)
    BY <1>2
  <2>2. any \in Sessions \cup {None}
    BY DEF AnyActiveSession
  <2> DEFINE preferred == task[p].alt
             first == IF preferred # None THEN preferred ELSE any
             second == IF preferred # None /\ any # preferred THEN any ELSE None
             r == [task[p] EXCEPT !.pc = "last_call", !.s = first, !.alt = second]
  <2>3. first \in Sessions \cup {None} /\ second \in Sessions \cup {None}
    BY <2>2 DEF IInv, TypeOK, TaskType
  <2>4. CASE first # None
    <3>1. lock' = p /\ UNCHANGED carrier /\ task' = [task EXCEPT ![p] = r]
      BY <2>1, <2>4 DEF ChooseCarrier
    <3> HIDE DEF first, second
    <3>a. task[p] \in TaskType /\ "last_call" \in PC
      BY DEF IInv, TypeOK, PC
    <3>b. r \in TaskType
      BY <2>3, <3>a DEF TaskType
    <3>2. r \in TaskType /\ r.pc = "last_call" /\ r.ctx = task[p].ctx /\ r.s = first
      BY <3>a, <3>b DEF TaskType
    <3> HIDE DEF r
    <3>3. Moved(p) /\ task'[p] = r
      BY <3>1, <3>2 DEF IInv, TypeOK, Moved
    <3>4. TypeOK'
      BY <3>1, <3>3 DEF IInv, TypeOK, Moved
    <3>5. ShapeOf(task'[p], live')
      BY <2>3, <2>4, <3>2, <3>3 DEF IInv, ShapeOK, ShapeOf, Serving
    <3>6. ShapeOK' /\ LockOK' /\ LoginOK'
      BY <1>2, <3>1, <3>2, <3>3, <3>5, AcquireStep DEF Holding
    <3> QED BY <3>4, <3>6 DEF IInv
  <2>5. CASE first = None
    <3>1. lock' = Carrier /\ carrier' = "open" /\ Go(p, "last_wait")
      BY <2>1, <2>5 DEF ChooseCarrier
    <3>2. Moved(p) /\ task'[p].pc = "last_wait" /\ task'[p].ctx = task[p].ctx
      BY <3>1, GoFacts, "last_wait" \in PC DEF IInv, TypeOK, PC
    <3>3. TypeOK'
      BY <3>1, <3>2 DEF IInv, TypeOK, Moved
    <3>4. ShapeOK'
      BY <3>2 DEF IInv, ShapeOK, ShapeOf, Serving, Moved
    <3>5. \A q \in Tasks : q # Carrier /\ q # Free /\ task'[q].pc \notin Holding
      BY <1>2, <3>2, SlotAssumption DEF IInv, LockOK, Holding, Moved
    <3>6. LockOK'
      BY <3>1, <3>5 DEF LockOK
    <3>7. LoginOK'
      BY <1>2, <3>5 DEF IInv, LoginOK, Holding
    <3> QED BY <3>3, <3>4, <3>6, <3>7 DEF IInv
  <2> QED BY <2>4, <2>5
<1> QED BY <1>1, <1>2

\* A live session carries the last-holder logout and the lock is given back.
LEMMA LastHolderCallOK ==
  ASSUME IInv, UNCHANGED load, NEW p \in Tasks, LastHolderCall(p)
  PROVE  IInv'
<1> USE DEF LastHolderCall, At
<1>1. CASE task[p].s \notin native /\ task[p].alt # None
  <2> DEFINE r == [task[p] EXCEPT !.s = task[p].alt, !.alt = None]
  <2>1. /\ r \in TaskType /\ r.pc = "last_call" /\ r.ctx = task[p].ctx
        /\ r.s = task[p].alt /\ task[p].alt \in Sessions
    BY <1>1 DEF IInv, TypeOK, TaskType
  <2>2. task' = [task EXCEPT ![p] = r] /\ UNCHANGED <<token, lock>>
    BY <1>1
  <2> HIDE DEF r
  <2>3. Moved(p) /\ task'[p] = r
    BY <2>1, <2>2 DEF IInv, TypeOK, Moved
  <2>4. TypeOK'
    BY <2>2, <2>3 DEF IInv, TypeOK, Moved
  <2>5. ShapeOf(task'[p], live')
    BY <2>1, <2>3 DEF IInv, ShapeOK, ShapeOf, Serving
  <2>6. ShapeOK' /\ LockOK' /\ LoginOK'
    BY <2>1, <2>2, <2>3, <2>5, HoldStep DEF Holding
  <2> QED BY <2>4, <2>6 DEF IInv
<1>2. CASE ~(task[p].s \notin native /\ task[p].alt # None)
  <2>1. /\ Moved(p) /\ task'[p].pc \in {"idle", "reap"} /\ lock' = Free
        /\ task'[p].ctx \in {task[p].ctx, None}
    BY <1>2, AfterLogoutFacts DEF IInv, TypeOK, Release
  <2>2. TypeOK'
    BY <1>2, <2>1 DEF IInv, TypeOK, Moved, NativeLogout
  <2>3. ShapeOf(task'[p], live') /\ task'[p].pc \notin Holding
    BY <2>1 DEF IInv, ShapeOK, ShapeOf, Serving, Holding
  <2>4. ShapeOK' /\ LockOK' /\ LoginOK'
    BY <2>1, <2>3, ReleaseStep DEF Holding, IInv, LoginOK
  <2> QED BY <2>2, <2>4 DEF IInv
<1> QED BY <1>1, <1>2

\* A teardown closes the sessions it planned.
LEMMA ReapOK ==
  ASSUME IInv, UNCHANGED load, NEW p \in Tasks, Reap(p)
  PROVE  IInv'
<1>1. PICK s \in task[p].batch :
        /\ NativeClose(s) \/ UNCHANGED <<native, token>>
        /\ Finish(p) \/ task' = [task EXCEPT ![p].batch = @ \ {s}]
  BY DEF Reap
<1>2. native' \subseteq Sessions /\ token' \in BOOLEAN
  BY <1>1 DEF NativeClose, IInv, TypeOK
<1>3. /\ Moved(p) /\ task'[p].pc \in {"idle", "reap"}
      /\ task'[p].ctx \in {task[p].ctx, None}
  <2>1. CASE Finish(p)
    BY <2>1, FinishFacts DEF IInv, TypeOK
  <2>2. CASE task' = [task EXCEPT ![p].batch = @ \ {s}]
    BY <2>2 DEF Reap, At, IInv, TypeOK, TaskType, Moved
  <2> QED BY <1>1, <2>1, <2>2
<1>4. TypeOK'
  BY <1>2, <1>3 DEF Reap, IInv, TypeOK, Moved
<1>5. ShapeOf(task'[p], live') /\ task'[p].pc \notin Holding /\ task[p].pc \notin Holding
  BY <1>3 DEF Reap, At, IInv, ShapeOK, ShapeOf, Serving, Holding
<1>6. ShapeOK' /\ LockOK' /\ LoginOK'
  BY <1>3, <1>5, QuietStep DEF Reap, IInv, LoginOK
<1> QED BY <1>4, <1>6 DEF IInv

\* A client that departs has no request, so no task loses its client.
LEMMA DepartOK ==
  ASSUME IInv, UNCHANGED load, NEW p \in Tasks, NEW c \in Contexts, Depart(p, c)
  PROVE  IInv'
<1> DEFINE own == {s \in Tracked(c) : sess[s] = "active"}
           plan == c \in holders /\ Others(c) = {}
<1>1. PICK via \in IF own # {} THEN own ELSE AnyActiveSession(live \ {c}) :
        task' = [task EXCEPT ![p] =
                   IF plan /\ via # None
                   THEN [Idle EXCEPT !.pc = "last_fast", !.alt = via, !.batch = Tracked(c)]
                   ELSE IF Tracked(c) # {}
                        THEN [Idle EXCEPT !.pc = "reap", !.batch = Tracked(c)]
                        ELSE Idle]
  BY DEF Depart
<1>2. via \in Sessions \cup {None} /\ Tracked(c) \subseteq Sessions
  BY DEF AnyActiveSession, Tracked
<1> DEFINE logout == [Idle EXCEPT !.pc = "last_fast", !.alt = via, !.batch = Tracked(c)]
           reap == [Idle EXCEPT !.pc = "reap", !.batch = Tracked(c)]
           Fits(t) == t \in TaskType /\ t.pc \in {"idle", "last_fast", "reap"} /\ t.ctx = None
<1>a. Fits(logout)
  BY <1>2 DEF Idle, TaskType, PC
<1>b. Fits(reap)
  BY <1>2 DEF Idle, TaskType, PC
<1>c. Fits(Idle)
  BY IdleType
<1>d. \/ task' = [task EXCEPT ![p] = logout]
      \/ task' = [task EXCEPT ![p] = reap]
      \/ task' = [task EXCEPT ![p] = Idle]
  BY <1>1
<1> HIDE DEF logout, reap
<1>3. PICK r : Fits(r) /\ task' = [task EXCEPT ![p] = r]
  BY <1>a, <1>b, <1>c, <1>d
<1>4. r \in TaskType /\ r.pc \in {"idle", "last_fast", "reap"} /\ r.ctx = None
  BY <1>3
<1>5. Moved(p) /\ task'[p] = r
  BY <1>3, <1>4 DEF IInv, TypeOK, Moved
<1>6. /\ live' = live \ {c} /\ holders' = holders \ {c} /\ contended' = contended \ {c}
      /\ sess' = [s \in Sessions |-> IF s \in Tracked(c) THEN "gone" ELSE sess[s]]
      /\ UNCHANGED <<native, token, lock, late, carrier>>
      /\ task[p].pc = "idle" /\ \A q \in Tasks : task[q].ctx # c
  BY DEF Depart, At, InFlight
<1>7. TypeOK'
  BY <1>5, <1>6 DEF IInv, TypeOK, Moved
<1>8. ShapeOK'
  BY <1>4, <1>5, <1>6 DEF IInv, ShapeOK, ShapeOf, Serving, Moved
<1>9. LockOK'
  BY <1>4, <1>5, <1>6 DEF IInv, LockOK, Holding, Moved
<1>10. LoginOK'
  BY <1>4, <1>5, <1>6 DEF IInv, LoginOK, Others, Moved
<1> QED BY <1>7, <1>8, <1>9, <1>10 DEF IInv

\* A caller that stops waiting gives up the lock, except the carrier's.
LEMMA AbandonOK ==
  ASSUME IInv, UNCHANGED load, NEW p \in Tasks, Abandon(p)
  PROVE  IInv'
<1>0. UNCHANGED <<live, sess, native, token, holders, contended, carrier>> /\ "timeouts" \in load
  BY DEF Abandon
<1>1. task[p].pc \in {"login_call", "logout_call", "reconcile_call", "last_call"}
        => task[p].s \in Sessions
  BY DEF IInv, ShapeOK, ShapeOf, Serving
<1>2. late' \subseteq [op : {"login", "logout", "reconcile", "last"}, s : Sessions]
  BY <1>1 DEF Abandon, At, IInv, TypeOK
<1>3. /\ Moved(p) /\ task'[p].pc \in {"idle", "reap", "reconcile_lock"}
      /\ task'[p].ctx \in {task[p].ctx, None}
      /\ task'[p].pc = "reconcile_lock" => /\ task[p].pc = "reconcile_call"
                                           /\ task'[p].ctx = task[p].ctx
                                           /\ task'[p].s = task[p].s
  <2>1. CASE Finish(p)
    BY <2>1, FinishFacts DEF IInv, TypeOK
  <2>2. CASE AfterLogout(p)
    BY <2>2, AfterLogoutFacts DEF IInv, TypeOK
  <2>3. CASE At(p, "reconcile_call") /\ Go(p, "reconcile_lock")
    BY <2>3, GoFacts, "reconcile_lock" \in PC DEF IInv, TypeOK, At, PC
  <2> QED BY <2>1, <2>2, <2>3 DEF Abandon
<1>4. ShapeOf(task'[p], live') /\ task'[p].pc \notin Holding
  BY <1>0, <1>3 DEF IInv, ShapeOK, ShapeOf, Serving, Holding
<1>5. CASE task[p].pc \in Holding /\ lock' = Free
  <2>1. TypeOK'
    BY <1>0, <1>2, <1>3, <1>5 DEF IInv, TypeOK, Moved
  <2>2. ShapeOK' /\ LockOK' /\ LoginOK'
    BY <1>0, <1>3, <1>4, <1>5, ReleaseStep
  <2> QED BY <2>1, <2>2 DEF IInv
<1>6. CASE task[p].pc \notin Holding /\ lock' = lock
  <2>1. TypeOK'
    BY <1>0, <1>2, <1>3, <1>6 DEF IInv, TypeOK, Moved
  <2>2. ShapeOK' /\ LockOK' /\ LoginOK'
    BY <1>0, <1>3, <1>4, <1>6, QuietStep
  <2> QED BY <2>1, <2>2 DEF IInv
<1> QED BY <1>5, <1>6 DEF Abandon, At, Release, Holding

\* Steps of the provider and of the carrier's closure.
LEMMA BackgroundOK ==
  ASSUME IInv, UNCHANGED load,
         (\E s \in Sessions : OpenSession(s)) \/ CarrierStep \/ (\E l \in late : LateReturns(l))
  PROVE  IInv'
<1>1. ASSUME NEW s \in Sessions, OpenSession(s) PROVE IInv'
  BY <1>1 DEF OpenSession, IInv, TypeOK, ShapeOK, ShapeOf, LockOK, LoginOK, Others
<1>2. CASE CarrierStep
  <2>1. TypeOK' /\ ShapeOK'
    BY <1>2 DEF CarrierStep, Release, IInv, TypeOK, ShapeOK, ShapeOf
  <2>2. LockOK'
    BY <1>2, SlotAssumption DEF CarrierStep, Release, IInv, LockOK, Free, Carrier
  <2>3. LoginOK'
    BY <1>2 DEF CarrierStep, IInv, LoginOK, Others
  <2> QED BY <2>1, <2>2, <2>3 DEF IInv
<1>3. ASSUME NEW l \in late, LateReturns(l) PROVE IInv'
  <2>1. token' \in BOOLEAN
    BY <1>3 DEF LateReturns, NativeLogin, NativeLogout, IInv, TypeOK
  <2> QED BY <1>3, <2>1 DEF LateReturns, IInv, TypeOK, ShapeOK, ShapeOf, LockOK, LoginOK, Others
<1> QED BY <1>1, <1>2, <1>3

-----------------------------------------------------------------------------
\* The initial states satisfy the invariant.
LEMMA InitIInv == Init => IInv
<1> SUFFICES ASSUME Init PROVE IInv
  OBVIOUS
<1> USE IdleType DEF Init
<1>1. TypeOK
  BY DEF TypeOK
<1>2. ShapeOK
  BY DEF ShapeOK, ShapeOf, Serving
<1>3. LockOK
  BY SlotAssumption DEF LockOK, Holding, Free, Carrier
<1>4. LoginOK
  BY DEF LoginOK
<1> QED BY <1>1, <1>2, <1>3, <1>4 DEF IInv

\* Every step keeps the invariant.
LEMMA StepIInv == IInv /\ [Next]_vars => IInv'
<1> SUFFICES ASSUME IInv, [Next]_vars PROVE IInv'
  OBVIOUS
<1>1. CASE UNCHANGED vars
  BY <1>1 DEF vars, IInv, TypeOK, ShapeOK, ShapeOf, LockOK, LoginOK, Others
<1>2. ASSUME UNCHANGED load, NEW p \in Tasks, NEW s \in Sessions,
             StartLogin(p, s) \/ StartLogout(p, s) \/ StartClose(p, s)
      PROVE  IInv'
  BY <1>2, StartOK
<1>3. ASSUME UNCHANGED load, NEW p \in Tasks, NEW c \in Contexts,
             StartCloseAll(p, c) \/ Depart(p, c)
      PROVE  IInv'
  BY <1>3, StartCloseAllOK, DepartOK
<1>4. ASSUME UNCHANGED load, NEW p \in Tasks, Step(p) PROVE IInv'
  BY <1>4, LoginLockOK, NativeCallOK, LoginAnswerOK, MintOK, ReconcileCallOK,
     LogoutLockOK, CloseLockOK, CloseCallOK, CloseSettleOK, BatchCallOK, BatchSettleOK,
     LastHolderFastOK, LastHolderLockOK, LastHolderCallOK, ReapOK
  DEF Step
<1>5. ASSUME UNCHANGED load, NEW p \in Tasks, LockTimeout(p) \/ Abandon(p) PROVE IInv'
  BY <1>5, LockTimeoutOK, AbandonOK
<1> QED BY <1>1, <1>2, <1>3, <1>4, <1>5, BackgroundOK DEF Next

\* The invariant holds throughout.
THEOREM Invariant == Spec => []IInv
  BY InitIInv, StepIInv, PTL DEF Spec

\* Every state of the slot is well typed; in particular only live clients hold
\* the slot, however teardowns and requests interleave.
THEOREM TypeCorrect == Spec => []TypeOK
  BY Invariant, PTL DEF IInv

\* The transient carrier's logout never hits a held slot, with any number of
\* tasks and late calls (last_holder_logout_via_transient_carrier).
THEOREM CarrierSafe == Spec => CarrierNeverSteals
<1>1. IInv /\ [Next]_vars => [CarrierStep /\ token # token' => holders = {}]_vars
  BY DEF CarrierStep, IInv, LoginOK
<1> QED BY <1>1, Invariant, PTL DEF Spec, CarrierNeverSteals

\* While its caller waits, no logout that reaches the provider ends a login
\* another client holds, neither a client's own nor the last-holder one, whatever
\* calls are out without a caller (logout,
\* backend_logout_if_last_holder_out_inner).
THEOREM AwaitedLogoutSafe == Spec => AwaitedLogoutSpares
<1>1. IInv /\ [Next]_vars
        => [token # token' =>
              \A p \in Tasks : /\ LogoutCall(p) => Others(task[p].ctx) = {}
                               /\ LastHolderCall(p) => holders = {}]_vars
  BY DEF LogoutCall, LastHolderCall, At, IInv, LoginOK
<1> QED BY <1>1, Invariant, PTL DEF Spec, AwaitedLogoutSpares

\* While no caller stops waiting, a last-holder logout never steals a login
\* (backend_logout_if_last_holder_out_inner).
THEOREM LastHolderSafe ==
  ASSUME \A L \in Loads : "timeouts" \notin L
  PROVE  Spec => LastHolderNeverSteals
<1>1. IInv /\ [Next]_vars
        => [/\ token # token'
            /\ \/ \E p \in Tasks : LastHolderCall(p)
               \/ \E l \in late : l.op = "last" /\ LateReturns(l)
            => holders = {}]_vars
  BY DEF LastHolderCall, At, IInv, LoginOK, TypeOK
<1> QED BY <1>1, Invariant, PTL DEF Spec, LastHolderNeverSteals

-----------------------------------------------------------------------------
(* How a login comes to have no session. *)

Closers == {"close_call", "close_settle"}
Batchers == {"batch_call", "batch_settle"}

\* The sessions a task in state t has suspended and not settled.
Closing(t) == IF t.pc \in Closers THEN {t.s} ELSE IF t.pc \in Batchers THEN t.batch ELSE {}

\* A request serves and closes sessions of its own client.
OwnOK ==
  \A p \in Tasks : /\ task[p].pc \in Serving => Owner[task[p].s] = task[p].ctx
                   /\ \A e \in Closing(task[p]) : Owner[e] = task[p].ctx

\* A session that is being closed is suspended and has one close at work.
CloseOK ==
  /\ \A p \in Tasks : \A e \in Closing(task[p]) : e \in Sessions /\ sess[e] = "suspended"
  /\ \A p, q \in Tasks : p # q => Closing(task[p]) \cap Closing(task[q]) = {}
  /\ \A p \in Tasks : task[p].pc = "batch_settle" => task[p].s \in task[p].batch

SInv == IInv /\ OwnOK /\ CloseOK

\* What OnlyCloseAllStrands says of one step.
StrandStep ==
  /\ \A c \in Contexts : Stranded(c)' =>
       \/ Stranded(c)
       \/ \E p \in Tasks : LoginMint(p) /\ task[p].ctx = c /\ ~Mintable(p)
  /\ \A p \in Tasks : Mintable(p) /\ At(p, "login_mint")' =>
       \/ Mintable(p)'
       \/ \E q \in Tasks : StartCloseAll(q, task[p].ctx)

Kept == OwnOK' /\ CloseOK' /\ StrandStep

\* A task goes on, and neither suspends a session nor gets to the mint of a
\* login; nobody's mapping changes and logins only go.
LEMMA CalmStep ==
  ASSUME SInv, NEW p \in Tasks, Moved(p), sess' = sess, holders' \subseteq holders,
         task'[p].pc \notin Closers \cup {"login_mint", "batch_call", "batch_settle"},
         task'[p].pc \in Serving => Owner[task'[p].s] = task'[p].ctx
  PROVE  Kept
<1>0. Closing(task'[p]) = {} /\ \A q \in Tasks \ {p} : task'[q] = task[q]
  BY DEF Closing, Batchers, Moved
<1>1. OwnOK'
  BY <1>0 DEF SInv, OwnOK
<1>2. CloseOK'
  BY <1>0 DEF SInv, CloseOK
<1>3. \A c : Tracked(c)' = Tracked(c)
  BY DEF Tracked
<1>4. StrandStep
  BY <1>0, <1>3 DEF StrandStep, Stranded, Mintable, At
<1> QED BY <1>1, <1>2, <1>4 DEF Kept

\* The steps that touch neither mappings nor the mint of a login.
LEMMA CalmOK ==
  ASSUME SInv, NEW p \in Tasks,
         \/ \E s \in Sessions : StartLogin(p, s) \/ StartLogout(p, s) \/ StartClose(p, s)
         \/ LockTimeout(p) \/ LoginLock(p) \/ LoginCall(p) \/ ReconcileCall(p)
         \/ LogoutLock(p) \/ LogoutCall(p) \/ LogoutAnswer(p)
         \/ LastHolderFast(p) \/ LastHolderLock(p) \/ LastHolderCall(p) \/ CarrierDone(p)
         \/ Reap(p) \/ Abandon(p)
  PROVE  Kept
<1>0. /\ task \in [Tasks -> TaskType]
      /\ task[p].pc \in Serving => Owner[task[p].s] = task[p].ctx
  BY DEF SInv, IInv, TypeOK, OwnOK
<1>a. {"login_call", "login_answer", "reconcile_lock", "logout_call", "logout_answer", "last_lock",
       "last_call", "last_wait"} \subseteq PC
  BY DEF PC
<1>1. ASSUME NEW s \in Sessions, StartLogin(p, s) \/ StartLogout(p, s) \/ StartClose(p, s)
      PROVE  Kept
  <2>1. PICK pc \in {"login_lock", "logout_lock", "close_lock"} : Start(p, s, pc)
    BY <1>1 DEF StartLogin, StartLogout, StartClose
  <2> DEFINE r == [Idle EXCEPT !.pc = pc, !.ctx = Owner[s], !.s = s]
  <2>2. r \in TaskType /\ r.pc = pc /\ r.ctx = Owner[s] /\ r.s = s
    BY SlotAssumption DEF Idle, TaskType, PC
  <2>3. task' = [task EXCEPT ![p] = r] /\ UNCHANGED <<sess, holders>>
    BY <2>1 DEF Start
  <2> HIDE DEF r
  <2>4. Moved(p) /\ task'[p] = r
    BY <1>0, <2>2, <2>3 DEF Moved
  <2> QED BY <2>2, <2>3, <2>4, CalmStep DEF Closers
<1>2. CASE Finish(p) /\ sess' = sess /\ holders' \subseteq holders
  <2>1. Moved(p) /\ task'[p].pc = "idle"
    BY <1>0, <1>2, FinishFacts
  <2> QED BY <1>2, <2>1, CalmStep DEF Closers, Serving
<1>3. CASE AfterLogout(p) /\ sess' = sess /\ holders' \subseteq holders
  <2>1. Moved(p) /\ task'[p].pc \in {"idle", "reap"}
    BY <1>0, <1>3, AfterLogoutFacts
  <2> QED BY <1>3, <2>1, CalmStep DEF Closers, Serving
<1>4. ASSUME NEW pc \in {"login_call", "reconcile_lock", "logout_call", "last_lock", "last_wait"},
             Go(p, pc), sess' = sess, holders' \subseteq holders,
             pc \in Serving => task[p].pc \in Serving
      PROVE  Kept
  <2>1. Moved(p) /\ task'[p].pc = pc /\ task'[p].ctx = task[p].ctx /\ task'[p].s = task[p].s
    BY <1>0, <1>4, <1>a, GoFacts
  <2> QED BY <1>0, <1>4, <2>1, CalmStep DEF Closers
<1>5. CASE LockTimeout(p)
  BY <1>2, <1>5 DEF LockTimeout
<1>6. CASE LoginLock(p)
  BY <1>2, <1>4, <1>6 DEF LoginLock, Serving
<1>7. CASE LoginCall(p) \/ LogoutCall(p)
  <2>1. PICK pc \in {"login_answer", "logout_answer"}, rv \in {"ok", "already", "fail"} :
          task' = [task EXCEPT ![p].pc = pc, ![p].rv = rv]
    BY <1>7 DEF LoginCall, LogoutCall
  <2>2. Moved(p) /\ task'[p].pc = pc /\ task'[p].ctx = task[p].ctx /\ task'[p].s = task[p].s
    BY <1>0, <1>a, <2>1, AnswerFacts
  <2>3. task[p].pc \in Serving /\ UNCHANGED <<sess, holders>>
    BY <1>7 DEF LoginCall, LogoutCall, At, Serving
  <2> QED BY <1>0, <2>2, <2>3, CalmStep DEF Closers
<1>8. CASE ReconcileCall(p)
  BY <1>4, <1>8 DEF ReconcileCall, At, Serving
<1>9. CASE LogoutLock(p)
  BY <1>2, <1>4, <1>9 DEF LogoutLock, At, Serving
<1>10. CASE LogoutAnswer(p)
  BY <1>2, <1>10 DEF LogoutAnswer
<1>11. CASE LastHolderFast(p) \/ CarrierDone(p)
  BY <1>3, <1>4, <1>11 DEF LastHolderFast, CarrierDone, Serving
<1>12. CASE LastHolderLock(p)
  <2>1. UNCHANGED <<sess, holders>>
    BY <1>12 DEF LastHolderLock
  <2>2. CASE AfterLogout(p)
    BY <1>3, <2>1, <2>2
  <2>3. CASE \E any \in AnyActiveSession(live) : ChooseCarrier(p, any)
    <3>1. PICK any \in AnyActiveSession(live) : ChooseCarrier(p, any)
      BY <2>3
    <3>2. any \in Sessions \cup {None} /\ task[p].alt \in Sessions \cup {None}
      BY <1>0 DEF AnyActiveSession, TaskType
    <3>3. CASE Go(p, "last_wait")
      BY <1>4, <2>1, <3>3 DEF Serving
    <3>4. CASE ~Go(p, "last_wait")
      <4>1. PICK first \in Sessions \cup {None}, second \in Sessions \cup {None} :
              task' = [task EXCEPT ![p].pc = "last_call", ![p].s = first, ![p].alt = second]
        BY <3>1, <3>2, <3>4 DEF ChooseCarrier
      <4>2. PICK r : r = [task[p] EXCEPT !.pc = "last_call", !.s = first, !.alt = second]
        OBVIOUS
      <4>a. task[p] \in TaskType /\ "last_call" \in PC
        BY <1>0, <1>a
      <4>b. r \in TaskType /\ r.pc = "last_call"
        BY <4>2, <4>a DEF TaskType
      <4>3. task' = [task EXCEPT ![p] = r] /\ r \in TaskType /\ r.pc = "last_call"
        BY <4>1, <4>2, <4>b
      <4>4. Moved(p) /\ task'[p].pc = "last_call"
        BY <1>0, <4>3 DEF Moved
      <4> QED BY <2>1, <4>4, CalmStep DEF Closers, Serving
    <3> QED BY <3>3, <3>4
  <2> QED BY <1>12, <2>2, <2>3 DEF LastHolderLock
<1>13. CASE LastHolderCall(p)
  <2>1. UNCHANGED <<sess, holders>> /\ task[p].pc = "last_call"
    BY <1>13 DEF LastHolderCall, At
  <2>2. CASE AfterLogout(p)
    BY <1>3, <2>1, <2>2
  <2>3. CASE task' = [task EXCEPT ![p].s = task[p].alt, ![p].alt = None]
    <3>1. PICK r : r = [task[p] EXCEPT !.s = task[p].alt, !.alt = None]
      OBVIOUS
    <3>2. task' = [task EXCEPT ![p] = r] /\ r \in TaskType /\ r.pc = "last_call"
      BY <1>0, <2>1, <2>3, <3>1 DEF TaskType
    <3>3. Moved(p) /\ task'[p].pc = "last_call"
      BY <1>0, <3>2 DEF Moved
    <3> QED BY <2>1, <3>3, CalmStep DEF Closers, Serving
  <2> QED BY <1>13, <2>2, <2>3 DEF LastHolderCall
<1>14. CASE Reap(p)
  <2>1. UNCHANGED <<sess, holders>> /\ task[p].pc = "reap"
    BY <1>14 DEF Reap, At
  <2>2. PICK s : Finish(p) \/ task' = [task EXCEPT ![p].batch = @ \ {s}]
    BY <1>14 DEF Reap
  <2>3. CASE Finish(p)
    BY <1>2, <2>1, <2>3
  <2>4. CASE task' = [task EXCEPT ![p].batch = @ \ {s}]
    <3>1. Moved(p) /\ task'[p].pc = "reap"
      BY <1>0, <2>1, <2>4 DEF Moved, TaskType
    <3> QED BY <2>1, <3>1, CalmStep DEF Closers, Serving
  <2> QED BY <2>2, <2>3, <2>4
<1>15. CASE Abandon(p)
  <2>1. UNCHANGED <<sess, holders>>
    BY <1>15 DEF Abandon
  <2>2. \/ Finish(p) \/ AfterLogout(p)
        \/ Go(p, "reconcile_lock") /\ task[p].pc \in Serving
    BY <1>15 DEF Abandon, At, Serving
  <2> QED BY <1>2, <1>3, <1>4, <2>1, <2>2
<1> QED BY <1>1, <1>5, <1>6, <1>7, <1>8, <1>9, <1>10, <1>11, <1>12, <1>13, <1>14, <1>15

\* The answer to a login and its mint: only a mint for a session that no longer
\* resolves leaves a login without one.
LEMMA MintKeeps ==
  ASSUME SInv, NEW p \in Tasks, LoginAnswer(p) \/ LoginMint(p)
  PROVE  Kept
<1>0. /\ task \in [Tasks -> TaskType] /\ task[p].pc \in Serving
      /\ Owner[task[p].s] = task[p].ctx /\ task[p].s \in Sessions /\ sess' = sess
  BY DEF SInv, IInv, TypeOK, OwnOK, ShapeOK, ShapeOf, Serving, LoginAnswer, LoginMint, At
<1>1. CASE Finish(p) /\ holders' = holders
  <2>1. Moved(p) /\ task'[p].pc = "idle"
    BY <1>0, <1>1, FinishFacts
  <2> QED BY <1>0, <1>1, <2>1, CalmStep DEF Closers, Serving
<1>2. CASE LoginAnswer(p)
  <2>1. UNCHANGED <<sess, holders>> /\ task[p].pc = "login_answer"
    BY <1>2 DEF LoginAnswer, At
  <2>2. CASE task' = [task EXCEPT ![p].pc = "reconcile_call", ![p].retried = TRUE]
    <3>1. /\ Moved(p) /\ task'[p].pc = "reconcile_call"
          /\ task'[p].ctx = task[p].ctx /\ task'[p].s = task[p].s
      <4>1. PICK r : r = [task[p] EXCEPT !.pc = "reconcile_call", !.retried = TRUE]
        OBVIOUS
      <4>2. task[p] \in TaskType /\ "reconcile_call" \in PC
        BY <1>0 DEF PC
      <4>3. r \in TaskType /\ r.pc = "reconcile_call" /\ r.ctx = task[p].ctx /\ r.s = task[p].s
        BY <4>1, <4>2 DEF TaskType
      <4>4. task' = [task EXCEPT ![p] = r]
        BY <2>2, <4>1
      <4> QED BY <1>0, <4>3, <4>4 DEF Moved
    <3> QED BY <1>0, <2>1, <3>1, CalmStep DEF Closers
  <2>3. CASE Go(p, "login_mint")
    <3>1. /\ Moved(p) /\ task'[p].pc = "login_mint"
          /\ task'[p].ctx = task[p].ctx /\ task'[p].s = task[p].s
      BY <1>0, <2>3, GoFacts DEF PC
    <3>2. Closing(task'[p]) = {} /\ \A q \in Tasks \ {p} : task'[q] = task[q]
      BY <3>1 DEF Closing, Closers, Batchers, Moved
    <3>3. OwnOK'
      BY <1>0, <3>1, <3>2 DEF SInv, OwnOK
    <3>4. CloseOK'
      BY <2>1, <3>1, <3>2 DEF SInv, CloseOK
    <3>5. StrandStep
      BY <2>1, <3>2 DEF StrandStep, Stranded, Tracked, Mintable, At
    <3> QED BY <3>3, <3>4, <3>5 DEF Kept
  <2> QED BY <1>1, <1>2, <2>1, <2>2, <2>3 DEF LoginAnswer
<1>3. CASE LoginMint(p)
  <2>1. Moved(p) /\ task'[p].pc = "idle" /\ holders' = holders \cup {task[p].ctx}
    BY <1>0, <1>3, FinishFacts DEF LoginMint
  <2>2. Closing(task'[p]) = {} /\ \A q \in Tasks \ {p} : task'[q] = task[q]
    BY <2>1 DEF Closing, Closers, Batchers, Moved
  <2>3. OwnOK'
    BY <2>1, <2>2 DEF SInv, OwnOK, Serving
  <2>4. CloseOK'
    BY <1>0, <2>1, <2>2 DEF SInv, CloseOK
  <2>5. StrandStep
    <3>1. \A c : Tracked(c)' = Tracked(c)
      BY <1>0 DEF Tracked
    <3>2. Mintable(p) => task[p].s \in Tracked(task[p].ctx)
      BY <1>0 DEF Mintable, Tracked
    <3>3. ASSUME NEW c \in Contexts, Stranded(c)', ~Stranded(c)
          PROVE  task[p].ctx = c /\ ~Mintable(p)
      BY <2>1, <3>1, <3>2, <3>3 DEF Stranded
    <3>4. ASSUME NEW q \in Tasks, Mintable(q), At(q, "login_mint")' PROVE Mintable(q)'
      BY <1>0, <2>1, <2>2, <3>4 DEF Mintable, At
    <3> QED BY <1>3, <3>3, <3>4 DEF StrandStep
  <2> QED BY <2>3, <2>4, <2>5 DEF Kept
<1> QED BY <1>2, <1>3

\* A task suspends the sessions in S, all active until then: they stay tracked,
\* and none of them is about to get a login unless the step is a close-all.
LEMMA SuspendKeeps ==
  ASSUME SInv, NEW p \in Tasks, Moved(p), NEW S \in SUBSET Sessions,
         \A s \in S : sess[s] = "active",
         \A s \in Sessions : sess'[s] = IF s \in S THEN "suspended" ELSE sess[s],
         holders' = holders, Closing(task'[p]) = S,
         Closing(task[p]) = {},
         task'[p].pc \notin {"login_mint", "batch_settle"},
         \A s \in S : Owner[s] = task'[p].ctx,
         task'[p].pc \in Serving => Owner[task'[p].s] = task'[p].ctx,
         \A q \in Tasks : Mintable(q) /\ task[q].s \in S =>
           \E v \in Tasks : StartCloseAll(v, task[q].ctx)
  PROVE  Kept
<1>0. \A q \in Tasks \ {p} : task'[q] = task[q]
  BY DEF Moved
<1>1. OwnOK'
  BY <1>0 DEF SInv, OwnOK
<1>2. \A q \in Tasks \ {p} : Closing(task[q]) \cap S = {}
  BY DEF SInv, CloseOK
<1>3. \A q \in Tasks : \A e \in Closing(task'[q]) : e \in Sessions /\ sess'[e] = "suspended"
  BY <1>0, <1>2 DEF SInv, CloseOK
<1>4. \A q, v \in Tasks : q # v => Closing(task'[q]) \cap Closing(task'[v]) = {}
  BY <1>0, <1>2 DEF SInv, CloseOK
<1>5. CloseOK'
  BY <1>0, <1>3, <1>4 DEF SInv, CloseOK
<1>6. \A c : Tracked(c)' = Tracked(c)
  BY DEF Tracked
<1>7. ASSUME NEW q \in Tasks, Mintable(q), At(q, "login_mint")'
      PROVE  Mintable(q)' \/ \E v \in Tasks : StartCloseAll(v, task[q].ctx)
  <2>1. task'[q] = task[q]
    BY <1>0, <1>7 DEF At
  <2>2. task[q].s \in Sessions
    BY <1>7 DEF Mintable, At, SInv, IInv, ShapeOK, ShapeOf, Serving
  <2> QED BY <1>7, <2>1, <2>2 DEF Mintable, At
<1>8. StrandStep
  BY <1>6, <1>7 DEF StrandStep, Stranded
<1> QED BY <1>1, <1>5, <1>8 DEF Kept

\* The settlement of session s by task p: the client's last session takes its
\* login along (remove_session).
LEMMA SettleKeeps ==
  ASSUME SInv, NEW p \in Tasks, Moved(p), NEW s \in Closing(task[p]),
         Settle(task[p].ctx, s, task[p].rv),
         Closing(task'[p]) \subseteq Closing(task[p]) \ {s},
         Closing(task'[p]) # {} => task'[p].ctx = task[p].ctx,
         task'[p].pc \notin Serving
  PROVE  Kept
<1>0. /\ \A q \in Tasks \ {p} : task'[q] = task[q]
      /\ s \in Sessions /\ sess[s] = "suspended" /\ Owner[s] = task[p].ctx
      /\ sess \in [Sessions -> {"unopened", "active", "suspended", "gone"}]
  BY DEF Moved, SInv, CloseOK, OwnOK, IInv, TypeOK
<1>1. OwnOK'
  BY <1>0 DEF SInv, OwnOK
<1>2. /\ \A e \in Sessions \ {s} : sess'[e] = sess[e]
      /\ task[p].rv # "ok" => sess'[s] \in {"active", "suspended"} /\ holders' = holders
      /\ task[p].rv = "ok" => holders' = IF Tracked(task[p].ctx) \subseteq {s}
                                         THEN holders \ {task[p].ctx} ELSE holders
  BY <1>0 DEF Settle, AfterRemoval
<1>3. \A q \in Tasks : Closing(task'[q]) \subseteq Closing(task[q]) \ {s}
  BY <1>0 DEF SInv, CloseOK
<1>4. \A q \in Tasks : \A e \in Closing(task'[q]) : e \in Sessions /\ sess'[e] = "suspended"
  BY <1>2, <1>3 DEF SInv, CloseOK
<1>5. \A q, v \in Tasks : q # v => Closing(task'[q]) \cap Closing(task'[v]) = {}
  BY <1>3 DEF SInv, CloseOK
<1>6. CloseOK'
  BY <1>0, <1>4, <1>5, "batch_settle" \in Serving DEF SInv, CloseOK, Serving
<1>7. ASSUME NEW c \in Contexts, Stranded(c)' PROVE Stranded(c)
  <2>1. c \in holders /\ c \in holders' /\ Tracked(c)' = {}
    BY <1>2, <1>7 DEF Stranded
  <2>2. CASE task[p].rv # "ok"
    <3>1. Tracked(c) \subseteq Tracked(c)'
      BY <1>0, <1>2, <2>2 DEF Tracked
    <3> QED BY <2>1, <3>1 DEF Stranded
  <2>3. CASE task[p].rv = "ok"
    <3>1. Tracked(c) \subseteq {s}
      BY <1>2, <2>1 DEF Tracked
    <3>2. c # task[p].ctx
      BY <1>2, <2>1, <2>3, <3>1
    <3>3. s \notin Tracked(c)
      BY <1>0, <3>2 DEF Tracked
    <3> QED BY <2>1, <3>1, <3>3 DEF Stranded
  <2> QED BY <2>2, <2>3
<1>8. ASSUME NEW q \in Tasks, Mintable(q), At(q, "login_mint")' PROVE Mintable(q)'
  <2>1. task'[q] = task[q]
    BY <1>0, <1>8 DEF At, Serving
  <2>2. task[q].s \in Sessions /\ task[q].s # s
    BY <1>0, <1>8 DEF Mintable, At, SInv, IInv, ShapeOK, ShapeOf, Serving
  <2> QED BY <1>2, <1>8, <2>1, <2>2 DEF Mintable, At
<1>9. StrandStep
  BY <1>7, <1>8 DEF StrandStep
<1> QED BY <1>1, <1>6, <1>9 DEF Kept

\* C_CloseSession suspends under the lock, so not under a mint.
LEMMA CloseKeeps ==
  ASSUME SInv, NEW p \in Tasks, CloseLock(p) \/ CloseCall(p) \/ CloseSettle(p)
  PROVE  Kept
<1>0. /\ task \in [Tasks -> TaskType] /\ task[p].pc \in Serving
      /\ Owner[task[p].s] = task[p].ctx /\ task[p].s \in Sessions
      /\ sess \in [Sessions -> {"unopened", "active", "suspended", "gone"}]
  BY DEF SInv, IInv, TypeOK, OwnOK, ShapeOK, ShapeOf, Serving, CloseLock, CloseCall, CloseSettle, At
<1>1. CASE CloseLock(p)
  <2>1. task[p].pc = "close_lock" /\ lock = Free /\ holders' = holders
    BY <1>1 DEF CloseLock, At
  <2>2. CASE sess[task[p].s] # "active"
    <3>1. Moved(p) /\ task'[p].pc = "idle" /\ sess' = sess
      BY <1>0, <1>1, <2>2, FinishFacts DEF CloseLock
    <3> QED BY <2>1, <3>1, CalmStep DEF Closers, Serving
  <2>3. CASE sess[task[p].s] = "active"
    <3>1. sess' = [sess EXCEPT ![task[p].s] = "suspended"]
      BY <1>1, <2>3 DEF CloseLock
    <3> DEFINE h == task[p].ctx \in holders
    <3>2. task' = [task EXCEPT ![p].pc = "close_call", ![p].held = h]
      BY <1>1, <2>3, Zenon DEF CloseLock
    <3>b. h \in BOOLEAN
      OBVIOUS
    <3> HIDE DEF h
    <3>3. PICK r : r = [task[p] EXCEPT !.pc = "close_call", !.held = h]
      OBVIOUS
    <3>a. task[p] \in TaskType /\ "close_call" \in PC
      BY <1>0 DEF PC
    <3>4. /\ task' = [task EXCEPT ![p] = r] /\ r \in TaskType /\ r.pc = "close_call"
          /\ r.ctx = task[p].ctx /\ r.s = task[p].s
      BY <3>2, <3>3, <3>a, <3>b DEF TaskType
    <3>5. Moved(p) /\ task'[p] = r
      BY <1>0, <3>4 DEF Moved
    <3>6. \A q \in Tasks : ~Mintable(q)
      BY <2>1, SlotAssumption DEF SInv, IInv, LockOK, Holding, Mintable, At
    <3>7. Closing(task'[p]) = {task[p].s} /\ Closing(task[p]) = {}
      BY <2>1, <3>4, <3>5 DEF Closing, Closers, Batchers
    <3>8. \A e \in Sessions : sess'[e] = IF e \in {task[p].s} THEN "suspended" ELSE sess[e]
      BY <1>0, <3>1
    <3>9. /\ task'[p].pc \notin {"login_mint", "batch_settle"}
          /\ task'[p].ctx = task[p].ctx /\ task'[p].s = task[p].s
      BY <3>4, <3>5
    <3> QED BY <1>0, <2>1, <2>3, <3>5, <3>6, <3>7, <3>8, <3>9, SuspendKeeps
  <2> QED BY <2>2, <2>3
<1>2. CASE CloseCall(p)
  <2>1. PICK rv \in {"ok", "fail", "ambiguous"} :
          task' = [task EXCEPT ![p].pc = "close_settle", ![p].rv = rv]
    BY <1>2 DEF CloseCall
  <2>2. task[p].pc = "close_call" /\ UNCHANGED <<sess, holders>> /\ "close_settle" \in PC
    BY <1>2 DEF CloseCall, At, PC
  <2>3. /\ Moved(p) /\ task'[p].pc = "close_settle"
        /\ task'[p].ctx = task[p].ctx /\ task'[p].s = task[p].s
    BY <1>0, <2>1, <2>2, AnswerFacts
  <2>4. Closing(task'[p]) = Closing(task[p])
    BY <2>2, <2>3 DEF Closing, Closers
  <2>5. OwnOK' /\ CloseOK'
    BY <1>0, <2>2, <2>3, <2>4 DEF SInv, OwnOK, CloseOK, Moved
  <2>6. StrandStep
    BY <2>2, <2>3 DEF StrandStep, Stranded, Tracked, Mintable, At, Moved
  <2> QED BY <2>5, <2>6 DEF Kept
<1>3. CASE CloseSettle(p)
  <2>1. task[p].pc = "close_settle" /\ Settle(task[p].ctx, task[p].s, task[p].rv)
    BY <1>3 DEF CloseSettle, At
  <2>2. Moved(p) /\ task'[p].pc \in {"idle", "last_fast"}
    <3>1. CASE task[p].held
      BY <1>0, <1>3, <3>1, GoFacts, "last_fast" \in PC DEF CloseSettle, PC
    <3>2. CASE ~task[p].held
      BY <1>0, <1>3, <3>2, FinishFacts DEF CloseSettle
    <3> QED BY <3>1, <3>2
  <2>3. Closing(task[p]) = {task[p].s} /\ Closing(task'[p]) = {}
    BY <2>1, <2>2 DEF Closing, Closers, Batchers
  <2> QED BY <2>1, <2>2, <2>3, SettleKeeps DEF Serving
<1> QED BY <1>1, <1>2, <1>3

\* C_CloseAllSessions: each session is settled as a single close would be.
LEMMA BatchKeeps ==
  ASSUME SInv, NEW p \in Tasks, BatchCall(p) \/ BatchSettle(p)
  PROVE  Kept
<1>0. task \in [Tasks -> TaskType] /\ task[p] \in TaskType
  BY DEF SInv, IInv, TypeOK
<1>1. CASE BatchCall(p)
  <2>1. PICK s \in task[p].batch, rv \in {"ok", "fail", "ambiguous"} :
          task' = [task EXCEPT ![p].pc = "batch_settle", ![p].rv = rv, ![p].s = s]
    BY <1>1 DEF BatchCall
  <2>2. task[p].pc = "batch_call" /\ UNCHANGED <<sess, holders>>
    BY <1>1 DEF BatchCall, At
  <2>3. Closing(task[p]) = task[p].batch
    BY <2>2 DEF Closing, Closers, Batchers
  <2>4. s \in Sessions /\ Owner[s] = task[p].ctx
    BY <2>3 DEF SInv, OwnOK, CloseOK
  <2>5. PICK r : r = [task[p] EXCEPT !.pc = "batch_settle", !.rv = rv, !.s = s]
    OBVIOUS
  <2>6. "batch_settle" \in PC
    BY DEF PC
  <2>7. /\ r \in TaskType /\ r.pc = "batch_settle" /\ r.ctx = task[p].ctx /\ r.s = s
        /\ r.batch = task[p].batch
    BY <1>0, <2>4, <2>5, <2>6 DEF TaskType
  <2>8. task' = [task EXCEPT ![p] = r]
    BY <2>1, <2>5
  <2>9. Moved(p) /\ task'[p] = r
    BY <1>0, <2>7, <2>8 DEF Moved
  <2>10. Closing(task'[p]) = Closing(task[p])
    BY <2>3, <2>7, <2>9 DEF Closing, Closers, Batchers
  <2>11. OwnOK'
    BY <2>4, <2>7, <2>9, <2>10 DEF SInv, OwnOK, Moved
  <2>12. CloseOK'
    BY <2>2, <2>7, <2>9, <2>10 DEF SInv, CloseOK, Moved
  <2>13. StrandStep
    BY <2>2, <2>7, <2>9 DEF StrandStep, Stranded, Tracked, Mintable, At, Moved
  <2> QED BY <2>11, <2>12, <2>13 DEF Kept
<1>2. CASE BatchSettle(p)
  <2>1. task[p].pc = "batch_settle" /\ Settle(task[p].ctx, task[p].s, task[p].rv)
    BY <1>2 DEF BatchSettle, At
  <2>2. Closing(task[p]) = task[p].batch /\ task[p].s \in task[p].batch
    BY <2>1 DEF Closing, Closers, Batchers, SInv, CloseOK
  <2> DEFINE rest == task[p].batch \ {task[p].s}
             pc == IF rest = {} THEN "last_fast" ELSE "batch_call"
  <2>3. Finish(p) \/ task' = [task EXCEPT ![p].pc = pc, ![p].batch = rest, ![p].s = None]
    BY <1>2 DEF BatchSettle
  <2>4. CASE Finish(p)
    <3>1. Moved(p) /\ task'[p].pc = "idle"
      BY <1>0, <2>4, FinishFacts
    <3>2. Closing(task'[p]) = {}
      BY <3>1 DEF Closing, Closers, Batchers
    <3> QED BY <2>1, <2>2, <3>1, <3>2, SettleKeeps DEF Serving
  <2>5. CASE task' = [task EXCEPT ![p].pc = pc, ![p].batch = rest, ![p].s = None]
    <3>1. PICK r : r = [task[p] EXCEPT !.pc = pc, !.batch = rest, !.s = None]
      OBVIOUS
    <3>2. rest \subseteq Sessions /\ pc \in {"last_fast", "batch_call"}
      BY <1>0 DEF TaskType
    <3>3. task' = [task EXCEPT ![p] = r]
      BY <2>5, <3>1
    <3> HIDE DEF rest, pc
    <3>4. pc \in PC
      BY <3>2 DEF PC
    <3>5. r \in TaskType /\ r.pc = pc /\ r.batch = rest /\ r.ctx = task[p].ctx
      BY <1>0, <3>1, <3>2, <3>4 DEF TaskType
    <3>6. Moved(p) /\ task'[p] = r
      BY <1>0, <3>3, <3>5 DEF Moved
    <3>7. Closing(task'[p]) \subseteq rest
      BY <3>2, <3>5, <3>6 DEF Closing, Closers, Batchers
    <3>8. task'[p].pc \notin Serving /\ task'[p].ctx = task[p].ctx
      BY <3>2, <3>5, <3>6 DEF Serving
    <3>9. Closing(task'[p]) \subseteq Closing(task[p]) \ {task[p].s}
      BY <2>2, <3>7 DEF rest
    <3> QED BY <2>1, <2>2, <3>6, <3>8, <3>9, SettleKeeps
  <2> QED BY <2>3, <2>4, <2>5
<1> QED BY <1>1, <1>2

\* The suspension of a whole batch takes no lock: it is the one step that can
\* take a session away from under a mint.
LEMMA CloseAllKeeps ==
  ASSUME SInv, NEW p \in Tasks, NEW c \in Contexts, StartCloseAll(p, c)
  PROVE  Kept
<1> DEFINE batch == {s \in Tracked(c) : sess[s] = "active"}
           h == c \in holders
           r == [Idle EXCEPT !.pc = "batch_call", !.ctx = c, !.held = h, !.batch = batch]
<1>1. /\ task' = [task EXCEPT ![p] = r] /\ h \in BOOLEAN /\ batch \subseteq Sessions
      /\ sess' = [s \in Sessions |-> IF s \in batch THEN "suspended" ELSE sess[s]]
      /\ task[p].pc = "idle" /\ holders' = holders
      /\ \A s \in batch : sess[s] = "active" /\ Owner[s] = c
  BY DEF StartCloseAll, At, Tracked
<1> HIDE DEF h, batch
<1>2. r \in TaskType /\ r.pc = "batch_call" /\ r.ctx = c /\ r.batch = batch
  BY <1>1 DEF Idle, TaskType, PC
<1> HIDE DEF r
<1>3. Moved(p) /\ task'[p] = r
  BY <1>1, <1>2 DEF SInv, IInv, TypeOK, Moved
<1>4. Closing(task'[p]) = batch /\ Closing(task[p]) = {}
  BY <1>1, <1>2, <1>3 DEF Closing, Closers, Batchers
<1>5. ASSUME NEW q \in Tasks, Mintable(q), task[q].s \in batch
      PROVE  StartCloseAll(p, task[q].ctx)
  <2>1. Owner[task[q].s] = task[q].ctx
    BY <1>5 DEF Mintable, At, SInv, OwnOK, Serving
  <2> QED BY <1>1, <1>5, <2>1
<1>6. task'[p].pc \notin Serving \cup {"login_mint", "batch_settle"} /\ task'[p].ctx = c
  BY <1>2, <1>3 DEF Serving
<1>7. \A s \in Sessions : sess'[s] = IF s \in batch THEN "suspended" ELSE sess[s]
  BY <1>1
<1> QED BY <1>1, <1>3, <1>4, <1>5, <1>6, <1>7, SuspendKeeps

\* A client departs with its login and its sessions, while none of its requests
\* is at work.
LEMMA DepartKeeps ==
  ASSUME SInv, NEW p \in Tasks, NEW c \in Contexts, Depart(p, c)
  PROVE  Kept
<1>0. /\ task \in [Tasks -> TaskType]
      /\ sess \in [Sessions -> {"unopened", "active", "suspended", "gone"}]
  BY DEF SInv, IInv, TypeOK
<1>1. /\ holders' = holders \ {c}
      /\ sess' = [s \in Sessions |-> IF s \in Tracked(c) THEN "gone" ELSE sess[s]]
      /\ task[p].pc = "idle" /\ \A q \in Tasks : task[q].ctx # c
  BY DEF Depart, At, InFlight
<1>2. PICK r : /\ r.pc \in {"idle", "last_fast", "reap"} /\ task' = [task EXCEPT ![p] = r]
  <2>1. \E via : task' = [task EXCEPT ![p] =
                   IF c \in holders /\ Others(c) = {} /\ via # None
                   THEN [Idle EXCEPT !.pc = "last_fast", !.alt = via, !.batch = Tracked(c)]
                   ELSE IF Tracked(c) # {}
                        THEN [Idle EXCEPT !.pc = "reap", !.batch = Tracked(c)]
                        ELSE Idle]
    BY DEF Depart
  <2>2. PICK via : \/ task' = [task EXCEPT ![p] = [Idle EXCEPT !.pc = "last_fast", !.alt = via, !.batch = Tracked(c)]]
                   \/ task' = [task EXCEPT ![p] = [Idle EXCEPT !.pc = "reap", !.batch = Tracked(c)]]
                   \/ task' = [task EXCEPT ![p] = Idle]
    BY <2>1
  <2> DEFINE logout == [Idle EXCEPT !.pc = "last_fast", !.alt = via, !.batch = Tracked(c)]
             reap == [Idle EXCEPT !.pc = "reap", !.batch = Tracked(c)]
  <2>3. logout.pc = "last_fast" /\ reap.pc = "reap" /\ Idle.pc = "idle"
    BY DEF Idle
  <2>4. \/ task' = [task EXCEPT ![p] = logout] \/ task' = [task EXCEPT ![p] = reap]
        \/ task' = [task EXCEPT ![p] = Idle]
    BY <2>2
  <2> HIDE DEF logout, reap
  <2> QED BY <2>3, <2>4
<1>3. task'[p] = r /\ \A q \in Tasks \ {p} : task'[q] = task[q]
  BY <1>0, <1>2
<1>4. Closing(task'[p]) = {} /\ task'[p].pc \notin Serving \cup {"login_mint", "batch_settle"}
  BY <1>2, <1>3 DEF Closing, Closers, Batchers, Serving
<1>5. OwnOK'
  BY <1>3, <1>4 DEF SInv, OwnOK
<1>6. \A s \in Sessions : Owner[s] # c => sess'[s] = sess[s]
  BY <1>1 DEF Tracked
<1>7. \A q \in Tasks : \A e \in Closing(task'[q]) :
        e \in Closing(task[q]) /\ e \in Sessions /\ sess'[e] = "suspended"
  <2>1. ASSUME NEW q \in Tasks, NEW e \in Closing(task'[q])
        PROVE  e \in Closing(task[q]) /\ e \in Sessions /\ sess'[e] = "suspended"
    <3>1. e \in Closing(task[q])
      BY <1>3, <1>4
    <3>2. e \in Sessions /\ sess[e] = "suspended" /\ Owner[e] = task[q].ctx
      BY <3>1 DEF SInv, CloseOK, OwnOK
    <3> QED BY <1>1, <1>6, <3>1, <3>2
  <2> QED BY <2>1
<1>8. \A q, v \in Tasks : q # v => Closing(task'[q]) \cap Closing(task'[v]) = {}
  BY <1>7 DEF SInv, CloseOK
<1>9. CloseOK'
  BY <1>3, <1>4, <1>7, <1>8 DEF SInv, CloseOK
<1>10. StrandStep
  <2>1. ASSUME NEW d \in Contexts, Stranded(d)' PROVE Stranded(d)
    <3>1. d \in holders /\ d # c
      BY <1>1, <2>1 DEF Stranded
    <3>2. Tracked(d)' = Tracked(d)
      BY <1>6, <3>1 DEF Tracked
    <3> QED BY <2>1, <3>1, <3>2 DEF Stranded
  <2>2. ASSUME NEW q \in Tasks, Mintable(q), At(q, "login_mint")' PROVE Mintable(q)'
    <3>1. task'[q] = task[q]
      BY <1>3, <1>4, <2>2 DEF At
    <3>2. task[q].s \in Sessions /\ Owner[task[q].s] = task[q].ctx
      BY <2>2 DEF Mintable, At, SInv, IInv, ShapeOK, ShapeOf, OwnOK, Serving
    <3> QED BY <1>1, <1>6, <2>2, <3>1, <3>2 DEF Mintable, At
  <2> QED BY <2>1, <2>2 DEF StrandStep
<1> QED BY <1>5, <1>9, <1>10 DEF Kept

\* A step that opens a session, or moves no task and no mapping.
LEMMA BackgroundKeeps ==
  ASSUME SInv,
         (\E s \in Sessions : OpenSession(s)) \/ UNCHANGED <<task, sess, holders>>
  PROVE  Kept
<1>1. ASSUME NEW s \in Sessions, OpenSession(s) PROVE Kept
  <2>1. /\ sess[s] = "unopened" /\ sess' = [sess EXCEPT ![s] = "active"] /\ UNCHANGED <<task, holders>>
        /\ sess \in [Sessions -> {"unopened", "active", "suspended", "gone"}]
    BY <1>1 DEF OpenSession, SInv, IInv, TypeOK
  <2>2. \A e \in Sessions : sess[e] # "unopened" => sess'[e] = sess[e]
    BY <2>1
  <2>3. OwnOK' /\ CloseOK'
    BY <2>1, <2>2 DEF SInv, OwnOK, CloseOK
  <2>4. \A c : Tracked(c) \subseteq Tracked(c)'
    BY <2>2 DEF Tracked
  <2>5. \A q \in Tasks : Mintable(q) => Mintable(q)'
    <3>1. \A q \in Tasks : Mintable(q) => task[q].s \in Sessions
      BY DEF Mintable, At, SInv, IInv, ShapeOK, ShapeOf, Serving
    <3> QED BY <2>1, <2>2, <3>1 DEF Mintable, At
  <2>6. StrandStep
    BY <2>1, <2>4, <2>5 DEF StrandStep, Stranded
  <2> QED BY <2>3, <2>6 DEF Kept
<1>2. CASE UNCHANGED <<task, sess, holders>>
  <2>1. OwnOK' /\ CloseOK'
    BY <1>2 DEF SInv, OwnOK, CloseOK
  <2>2. StrandStep
    BY <1>2 DEF StrandStep, Stranded, Tracked, Mintable, At
  <2> QED BY <2>1, <2>2 DEF Kept
<1> QED BY <1>1, <1>2

\* Every step keeps the invariant and strands no login but in the one way.
LEMMA StepSInv == SInv /\ [Next]_vars => SInv' /\ StrandStep
<1> SUFFICES ASSUME SInv, [Next]_vars PROVE Kept
  BY StepIInv DEF SInv, Kept
<1>1. ASSUME NEW p \in Tasks, Step(p) PROVE Kept
  BY <1>1, CalmOK, MintKeeps, CloseKeeps, BatchKeeps DEF Step
<1>2. ASSUME NEW p \in Tasks, NEW s \in Sessions,
             StartLogin(p, s) \/ StartLogout(p, s) \/ StartClose(p, s)
      PROVE  Kept
  BY <1>2, CalmOK
<1>3. ASSUME NEW p \in Tasks, LockTimeout(p) \/ Abandon(p) PROVE Kept
  BY <1>3, CalmOK
<1>4. ASSUME NEW p \in Tasks, NEW c \in Contexts, StartCloseAll(p, c) \/ Depart(p, c)
      PROVE  Kept
  BY <1>4, CloseAllKeeps, DepartKeeps
<1>5. UNCHANGED vars => UNCHANGED <<task, sess, holders>>
  BY DEF vars
<1>6. CarrierStep \/ (\E l \in late : LateReturns(l)) => UNCHANGED <<task, sess, holders>>
  BY DEF CarrierStep, LateReturns
<1> QED BY <1>1, <1>2, <1>3, <1>4, <1>5, <1>6, BackgroundKeeps DEF Next

\* No close and no departure leaves a login without a session, and between the
\* check and the mint of a login nothing but C_CloseAllSessions takes its session
\* away, with callers that stop waiting and batches of any size (login,
\* remove_session, close_all_sessions).
THEOREM StrandedOnlyByCloseAll == Spec => OnlyCloseAllStrands
<1>1. Init => SInv
  <2> SUFFICES ASSUME Init PROVE SInv
    OBVIOUS
  <2>1. IInv
    BY InitIInv
  <2>2. \A p \in Tasks : task[p].pc = "idle"
    BY IdleType DEF Init
  <2>3. \A p \in Tasks : Closing(task[p]) = {}
    BY <2>2 DEF Closing, Closers, Batchers
  <2>4. OwnOK /\ CloseOK
    BY <2>2, <2>3 DEF OwnOK, CloseOK, Serving
  <2> QED BY <2>1, <2>4 DEF SInv
<1>2. SInv /\ [Next]_vars => SInv' /\ [StrandStep]_vars
  BY StepSInv
<1>3. [][StrandStep]_vars => OnlyCloseAllStrands
  BY PTL DEF StrandStep, OnlyCloseAllStrands
<1> QED BY <1>1, <1>2, <1>3, PTL DEF Spec

=============================================================================
