------------------------------ MODULE SlotLogin ------------------------------
(***************************************************************************)
(* The login of one token slot, shared by all logical clients.  The token  *)
(* has one login per process; the daemon keeps a logical login per client, *)
(* serialises logins with a per-slot lock, and logs the token out when the *)
(* last logical login goes (session_handlers/auth.rs, lifecycle.rs and the *)
(* teardown half of context_manager.rs).                                   *)
(*                                                                         *)
(* A task is one request handler or one teardown, at most one step of it   *)
(* between two awaits.  A provider call whose caller stops waiting runs on *)
(* in the background (late).  Which native handle a session has is the     *)
(* subject of SessionTable; here a session is its own identity.            *)
(***************************************************************************)
EXTENDS Naturals, FiniteSets

CONSTANTS Contexts,    \* logical clients
          Sessions,    \* sessions on the slot
          Owner,       \* Sessions -> the client that opens it
          Tasks,       \* concurrent requests and teardowns
          None,
          Loads,       \* what may happen besides plain requests, a set of sets:
                       \* "timeouts": a caller stops waiting for the provider,
                       \* "close_alls": clients call C_CloseAllSessions
          MaxLate      \* bound on provider calls without a caller

Free == "free"
Carrier == "carrier"    \* the lock has moved into the carrier's closure

ASSUME SlotAssumption ==
  /\ Owner \in [Sessions -> Contexts]
  /\ None \notin Sessions \cup Contexts
  /\ Tasks \cap {Free, Carrier} = {}
  /\ Loads \subseteq SUBSET {"timeouts", "close_alls"}
  /\ MaxLate \in Nat

VARIABLES load,       \* what may happen in this behaviour; it never changes
          live,       \* clients in the context table
          sess,       \* Sessions -> state of its mapping
          native,     \* sessions open at the provider
          token,      \* is the token logged in?
          holders,    \* clients with a login_state for the slot
          contended,  \* clients with a contended_slot_login mark
          lock,       \* owner of the slot login lock
          task,       \* Tasks -> what the task is doing
          late,       \* provider calls whose caller stopped waiting
          carrier     \* phase of the transient logout carrier

vars == <<load, live, sess, native, token, holders, contended, lock, task, late, carrier>>

Idle == [pc |-> "idle", ctx |-> None, s |-> None, rv |-> "none", held |-> FALSE,
         retried |-> FALSE, alt |-> None, batch |-> {}]

PC == {"idle",
       "login_lock", "login_call", "login_answer", "login_mint",
       "reconcile_call", "reconcile_lock",
       "logout_lock", "logout_call", "logout_answer",
       "close_lock", "close_call", "close_settle",
       "batch_call", "batch_settle",
       "last_fast", "last_lock", "last_call", "last_wait",
       "reap"}

TaskType == [pc : PC, ctx : Contexts \cup {None}, s : Sessions \cup {None},
             rv : {"none", "ok", "already", "fail", "ambiguous"},
             held : BOOLEAN, retried : BOOLEAN,
             alt : Sessions \cup {None}, batch : SUBSET Sessions]

TypeOK ==
  /\ load \in Loads
  /\ live \subseteq Contexts
  /\ sess \in [Sessions -> {"unopened", "active", "suspended", "gone"}]
  /\ native \subseteq Sessions
  /\ token \in BOOLEAN
  /\ holders \subseteq live
  /\ contended \subseteq live
  /\ lock \in Tasks \cup {Free, Carrier}
  /\ task \in [Tasks -> TaskType]
  /\ late \subseteq [op : {"login", "logout", "reconcile", "last"}, s : Sessions]
  /\ carrier \in {"none", "open", "logout", "close"}

Init ==
  /\ load \in Loads
  /\ live = Contexts
  /\ sess = [s \in Sessions |-> "unopened"]
  /\ native = {}
  /\ token = FALSE
  /\ holders = {}
  /\ contended = {}
  /\ lock = Free
  /\ task = [p \in Tasks |-> Idle]
  /\ late = {}
  /\ carrier = "none"

-----------------------------------------------------------------------------
(* Helpers *)

\* session_slots of client c: its mappings, resolvable or suspended.
Tracked(c) == {s \in Sessions : Owner[s] = c /\ sess[s] \in {"active", "suspended"}}

Others(c) == holders \ {c}

\* An operation guard of c is held by a request or by a late provider call.
InFlight(c) == \/ \E p \in Tasks : task[p].ctx = c
               \/ \E l \in late : Owner[l.s] = c

At(p, pc) == task[p].pc = pc

Go(p, pc) == task' = [task EXCEPT ![p].pc = pc]

Finish(p) == task' = [task EXCEPT ![p] = Idle]

Acquire(p) == lock = Free /\ lock' = p

Release == lock' = Free

\* Mutant: the login outlives the last session.
AfterRemovalKeeping(c, S, set) == set

\* remove_session for each session of S: the last one takes the login along.
AfterRemoval(c, S, set) == IF Tracked(c) \subseteq S THEN set \ {c} ELSE set

CarrierOpen == carrier \in {"logout", "close"}

\* The provider closes session s; a token may log out with its last session.
NativeClose(s) ==
  /\ native' = native \ {s}
  /\ \/ UNCHANGED token
     \/ native = {s} /\ ~CarrierOpen /\ token' = FALSE

\* The provider's answers to C_Login and C_Logout on session s.
NativeLogin(s, rv) ==
  \/ rv = "ok" /\ s \in native /\ ~token /\ token' = TRUE
  \/ rv = "already" /\ s \in native /\ token /\ UNCHANGED token
  \/ rv = "fail" /\ UNCHANGED token

NativeLogout(s, rv) ==
  \/ rv = "ok" /\ s \in native /\ token /\ token' = FALSE
  \/ rv = "fail" /\ UNCHANGED token

-----------------------------------------------------------------------------
(* Opening a session, seen from the slot *)

OpenSession(s) ==
  /\ sess[s] = "unopened" /\ Owner[s] \in live
  /\ sess' = [sess EXCEPT ![s] = "active"]
  /\ native' = native \cup {s}
  /\ UNCHANGED <<live, token, holders, contended, lock, task, late, carrier>>

\* The bounded wait for the slot lock elapses: the request is refused.
LockTimeout(p) ==
  /\ task[p].pc \in {"login_lock", "reconcile_lock", "logout_lock", "close_lock"}
  /\ lock # Free
  /\ Finish(p)
  /\ UNCHANGED <<live, sess, native, token, holders, contended, lock, late, carrier>>

\* A request on session s starts with the pre-resolve.
Start(p, s, pc) ==
  /\ At(p, "idle")
  /\ Owner[s] \in live
  /\ task' = [task EXCEPT ![p] = [Idle EXCEPT !.pc = pc, !.ctx = Owner[s], !.s = s]]
  /\ UNCHANGED <<live, sess, native, token, holders, contended, lock, late, carrier>>

-----------------------------------------------------------------------------
(* C_Login *)

StartLogin(p, s) == sess[s] = "active" /\ Start(p, s, "login_lock")

\* The slot lock and the authoritative resolve under it.
LoginLock(p) ==
  /\ task[p].pc \in {"login_lock", "reconcile_lock"}
  /\ IF sess[task[p].s] = "active"
     THEN Acquire(p) /\ Go(p, "login_call")
     ELSE lock = Free /\ UNCHANGED lock /\ Finish(p)
  /\ UNCHANGED <<live, sess, native, token, holders, contended, late, carrier>>

LoginCall(p) ==
  /\ At(p, "login_call")
  /\ \E rv \in {"ok", "already", "fail"} :
       /\ NativeLogin(task[p].s, rv)
       /\ task' = [task EXCEPT ![p].pc = "login_answer", ![p].rv = rv]
  /\ UNCHANGED <<live, sess, native, holders, contended, lock, late, carrier>>

\* USER_ALREADY_LOGGED_IN while no live client holds the slot: the login is
\* orphaned, and is released without the lock before the one retry.
Reconciles(p) == task[p].rv = "already" /\ holders = {} /\ ~task[p].retried

\* Still under the lock, a login that worked is minted only for a session that
\* still resolves; one refused as ALREADY leaves the contended mark.
LoginAnswer(p) ==
  /\ At(p, "login_answer")
  /\ IF Reconciles(p)
     THEN /\ task' = [task EXCEPT ![p].pc = "reconcile_call", ![p].retried = TRUE]
          /\ Release
          /\ UNCHANGED contended
     ELSE IF task[p].rv = "ok" /\ sess[task[p].s] = "active"
          THEN Go(p, "login_mint") /\ UNCHANGED <<lock, contended>>
          ELSE /\ contended' = IF task[p].rv = "already"
                               THEN contended \cup {task[p].ctx} ELSE contended
               /\ Release
               /\ Finish(p)
  /\ UNCHANGED <<live, sess, native, token, holders, late, carrier>>

\* The login_state insert, in a second visit to the context table.
LoginMint(p) ==
  /\ At(p, "login_mint")
  /\ holders' = holders \cup {task[p].ctx}
  /\ Release
  /\ Finish(p)
  /\ UNCHANGED <<live, sess, native, token, contended, late, carrier>>

\* The reconcile logout; whatever it answers, the login is retried once.
ReconcileCall(p) ==
  /\ At(p, "reconcile_call")
  /\ \E rv \in {"ok", "fail"} : NativeLogout(task[p].s, rv)
  /\ Go(p, "reconcile_lock")
  /\ UNCHANGED <<live, sess, native, holders, contended, lock, late, carrier>>

-----------------------------------------------------------------------------
(* C_Logout *)

StartLogout(p, s) == sess[s] = "active" /\ Start(p, s, "logout_lock")

\* Under the lock: while another client holds the slot the logout is only
\* logical; otherwise it goes to the provider.
LogoutLock(p) ==
  LET c == task[p].ctx IN
  /\ At(p, "logout_lock")
  /\ lock = Free
  /\ IF sess[task[p].s] # "active"
     THEN Finish(p) /\ UNCHANGED <<lock, holders, contended>>
     ELSE IF Others(c) # {}
          THEN /\ holders' = holders \ {c}
               /\ contended' = contended \ {c}
               /\ Finish(p)
               /\ UNCHANGED lock
          ELSE lock' = p /\ Go(p, "logout_call") /\ UNCHANGED <<holders, contended>>
  /\ UNCHANGED <<live, sess, native, token, late, carrier>>

LogoutCall(p) ==
  /\ At(p, "logout_call")
  /\ \E rv \in {"ok", "fail"} :
       /\ NativeLogout(task[p].s, rv)
       /\ task' = [task EXCEPT ![p].pc = "logout_answer", ![p].rv = rv]
  /\ UNCHANGED <<live, sess, native, holders, contended, lock, late, carrier>>

LogoutAnswer(p) ==
  /\ At(p, "logout_answer")
  /\ IF task[p].rv = "ok"
     THEN /\ holders' = holders \ {task[p].ctx}
          /\ contended' = contended \ {task[p].ctx}
     ELSE UNCHANGED <<holders, contended>>
  /\ Release
  /\ Finish(p)
  /\ UNCHANGED <<live, sess, native, token, late, carrier>>

-----------------------------------------------------------------------------
(* C_CloseSession: suspend under the slot lock, close without it *)

StartClose(p, s) == sess[s] \in {"active", "suspended"} /\ Start(p, s, "close_lock")

CloseLock(p) ==
  /\ At(p, "close_lock")
  /\ lock = Free
  /\ IF sess[task[p].s] = "active"
     THEN /\ sess' = [sess EXCEPT ![task[p].s] = "suspended"]
          /\ task' = [task EXCEPT ![p].pc = "close_call",
                                  ![p].held = task[p].ctx \in holders]
     ELSE Finish(p) /\ UNCHANGED sess
  /\ UNCHANGED <<live, native, token, holders, contended, lock, late, carrier>>

\* The provider's answer to C_CloseSession.  A failed close leaves the session
\* open; an ambiguous one does or does not.
CloseAnswer(s, rv) ==
  \/ rv = "ok" /\ NativeClose(s)
  \/ rv = "fail" /\ UNCHANGED <<native, token>>
  \/ rv = "ambiguous" /\ (NativeClose(s) \/ UNCHANGED <<native, token>>)

CloseCall(p) ==
  /\ At(p, "close_call")
  /\ \E rv \in {"ok", "fail", "ambiguous"} :
       /\ CloseAnswer(task[p].s, rv)
       /\ task' = [task EXCEPT ![p].pc = "close_settle", ![p].rv = rv]
  /\ UNCHANGED <<live, sess, holders, contended, lock, late, carrier>>

\* complete_close_session for session s of client c.
Settle(c, s, rv) ==
  /\ sess' = [sess EXCEPT ![s] = IF rv = "ok" THEN "gone"
                                 ELSE IF rv = "fail" THEN "active" ELSE "suspended"]
  /\ holders' = IF rv = "ok" THEN AfterRemoval(c, {s}, holders) ELSE holders
  /\ contended' = IF rv = "ok" THEN AfterRemoval(c, {s}, contended) ELSE contended

\* The last-holder logout follows when the client held the login.
CloseSettle(p) ==
  /\ At(p, "close_settle")
  /\ Settle(task[p].ctx, task[p].s, task[p].rv)
  /\ IF task[p].held THEN Go(p, "last_fast") ELSE Finish(p)
  /\ UNCHANGED <<live, native, token, lock, late, carrier>>

-----------------------------------------------------------------------------
(* C_CloseAllSessions: the same, without the slot lock, session by session *)

StartCloseAll(p, c) ==
  LET batch == {s \in Tracked(c) : sess[s] = "active"} IN
  /\ "close_alls" \in load
  /\ At(p, "idle") /\ c \in live /\ batch # {}
  /\ sess' = [s \in Sessions |-> IF s \in batch THEN "suspended" ELSE sess[s]]
  /\ task' = [task EXCEPT ![p] = [Idle EXCEPT !.pc = "batch_call", !.ctx = c,
                                              !.held = c \in holders, !.batch = batch]]
  /\ UNCHANGED <<live, native, token, holders, contended, lock, late, carrier>>

BatchCall(p) ==
  /\ At(p, "batch_call")
  /\ \E s \in task[p].batch, rv \in {"ok", "fail", "ambiguous"} :
       /\ CloseAnswer(s, rv)
       /\ task' = [task EXCEPT ![p].pc = "batch_settle", ![p].rv = rv, ![p].s = s]
  /\ UNCHANGED <<live, sess, holders, contended, lock, late, carrier>>

BatchSettle(p) ==
  LET rest == task[p].batch \ {task[p].s} IN
  /\ At(p, "batch_settle")
  /\ Settle(task[p].ctx, task[p].s, task[p].rv)
  /\ IF rest = {} /\ ~task[p].held
     THEN Finish(p)
     ELSE task' = [task EXCEPT ![p].pc = IF rest = {} THEN "last_fast" ELSE "batch_call",
                               ![p].batch = rest, ![p].s = None]
  /\ UNCHANGED <<live, native, token, lock, late, carrier>>

-----------------------------------------------------------------------------
(* backend_logout_if_last_holder_out *)

\* After the helper: a teardown goes on to its closes, a close is done.
AfterLogout(p) ==
  IF task[p].batch = {} THEN Finish(p)
  ELSE task' = [task EXCEPT ![p].pc = "reap", ![p].s = None, ![p].alt = None]

LastHolderFast(p) ==
  /\ At(p, "last_fast")
  /\ IF holders # {} THEN AfterLogout(p) ELSE Go(p, "last_lock")
  /\ UNCHANGED <<live, sess, native, token, holders, contended, lock, late, carrier>>

\* any_active_backend_session_for_slot looks at one arbitrary session of each
\* client in L: it may come back empty-handed when each has a suspended one.
AnyActiveSession(L) ==
  {s \in Sessions : Owner[s] \in L /\ sess[s] = "active"} \cup
  {n \in {None} : \A c \in L : Tracked(c) # {} =>
                    \E s \in Tracked(c) : sess[s] = "suspended"}

\* The session that carries the logout: the teardown's own, then any active
\* one, else a transient session whose closure takes the lock along.
ChooseCarrier(p, any) ==
  LET preferred == task[p].alt
      first == IF preferred # None THEN preferred ELSE any
      second == IF preferred # None /\ any # preferred THEN any ELSE None IN
  IF first # None
  THEN /\ lock' = p
       /\ task' = [task EXCEPT ![p].pc = "last_call", ![p].s = first, ![p].alt = second]
       /\ UNCHANGED carrier
  ELSE /\ lock' = Carrier
       /\ carrier' = "open"
       /\ Go(p, "last_wait")

\* Mutant: no recheck under the lock.
LastHolderLockStale(p) ==
  /\ At(p, "last_lock")
  /\ IF lock # Free
     THEN AfterLogout(p) /\ UNCHANGED <<lock, carrier>>
     ELSE \E any \in AnyActiveSession(live) : ChooseCarrier(p, any)
  /\ UNCHANGED <<live, sess, native, token, holders, contended, late>>

\* try_lock, then the recheck under the lock.
LastHolderLock(p) ==
  /\ At(p, "last_lock")
  /\ IF lock # Free \/ holders # {}
     THEN AfterLogout(p) /\ UNCHANGED <<lock, carrier>>
     ELSE \E any \in AnyActiveSession(live) : ChooseCarrier(p, any)
  /\ UNCHANGED <<live, sess, native, token, holders, contended, late>>

\* The logout through a session: one that raced shut gives way to the next.
LastHolderCall(p) ==
  /\ At(p, "last_call")
  /\ IF task[p].s \notin native /\ task[p].alt # None
     THEN /\ task' = [task EXCEPT ![p].s = task[p].alt, ![p].alt = None]
          /\ UNCHANGED <<token, lock>>
     ELSE /\ \E rv \in {"ok", "fail"} : NativeLogout(task[p].s, rv)
          /\ Release
          /\ AfterLogout(p)
  /\ UNCHANGED <<live, sess, native, holders, contended, late, carrier>>

\* Mutant: a carrier that cannot be opened keeps the lock.
CarrierStepLeaky ==
  /\ \/ carrier = "open" /\ carrier' = "logout" /\ UNCHANGED <<token, lock>>
     \/ carrier = "open" /\ carrier' = "none" /\ UNCHANGED <<token, lock>>
     \/ carrier = "logout" /\ carrier' = "close" /\ token' \in {FALSE, token}
        /\ UNCHANGED lock
     \/ carrier = "close" /\ carrier' = "none" /\ Release
        /\ token' \in {token, token /\ native # {}}
  /\ UNCHANGED <<live, sess, native, holders, contended, task, late>>

\* The transient carrier's closure: open, logout, close, in one blocking task
\* that owns the lock until the provider is done.
CarrierStep ==
  /\ \/ carrier = "open" /\ carrier' = "logout" /\ UNCHANGED <<token, lock>>
     \/ carrier = "open" /\ carrier' = "none" /\ Release /\ UNCHANGED token
     \/ carrier = "logout" /\ carrier' = "close" /\ token' \in {FALSE, token}
        /\ UNCHANGED lock
     \/ carrier = "close" /\ carrier' = "none" /\ Release
        /\ token' \in {token, token /\ native # {}}
  /\ UNCHANGED <<live, sess, native, holders, contended, task, late>>

CarrierDone(p) ==
  /\ At(p, "last_wait") /\ lock # Carrier
  /\ AfterLogout(p)
  /\ UNCHANGED <<live, sess, native, token, holders, contended, lock, late, carrier>>

-----------------------------------------------------------------------------
(* C_Finalize, eviction, replacement *)

\* Mutant: the departing client's login is left in the table.
DepartKeepingLogin(p, c) ==
  /\ At(p, "idle") /\ c \in live /\ ~InFlight(c)
  /\ live' = live \ {c}
  /\ sess' = [s \in Sessions |-> IF s \in Tracked(c) THEN "gone" ELSE sess[s]]
  /\ task' = [task EXCEPT ![p] = IF Tracked(c) # {}
                                 THEN [Idle EXCEPT !.pc = "reap", !.batch = Tracked(c)]
                                 ELSE Idle]
  /\ UNCHANGED <<native, token, holders, contended, lock, late, carrier>>

\* The context is removed and its teardown planned: the last-holder logout goes
\* first, through one of its own sessions or any active one, then the closes.
Depart(p, c) ==
  LET own == {s \in Tracked(c) : sess[s] = "active"}
      plan == c \in holders /\ Others(c) = {} IN
  /\ At(p, "idle") /\ c \in live /\ ~InFlight(c)
  /\ live' = live \ {c}
  /\ holders' = holders \ {c}
  /\ contended' = contended \ {c}
  /\ sess' = [s \in Sessions |-> IF s \in Tracked(c) THEN "gone" ELSE sess[s]]
  /\ \E via \in IF own # {} THEN own ELSE AnyActiveSession(live \ {c}) :
       /\ task' = [task EXCEPT ![p] =
                     IF plan /\ via # None
                     THEN [Idle EXCEPT !.pc = "last_fast", !.alt = via, !.batch = Tracked(c)]
                     ELSE IF Tracked(c) # {}
                          THEN [Idle EXCEPT !.pc = "reap", !.batch = Tracked(c)]
                          ELSE Idle]
  /\ UNCHANGED <<native, token, lock, late, carrier>>

\* close_backend_sessions: one call per session, outcome ignored.
Reap(p) ==
  /\ At(p, "reap")
  /\ \E s \in task[p].batch :
       /\ NativeClose(s) \/ UNCHANGED <<native, token>>
       /\ IF task[p].batch = {s} THEN Finish(p)
          ELSE task' = [task EXCEPT ![p].batch = @ \ {s}]
  /\ UNCHANGED <<live, sess, holders, contended, lock, late, carrier>>

-----------------------------------------------------------------------------
(* A caller stops waiting: timeout or cancellation of the handler *)

\* Mutant: the carrier's lock guard stays with the caller.
AbandonWithLock(p) ==
  /\ "timeouts" \in load /\ Cardinality(late) < MaxLate
  /\ \/ /\ At(p, "login_call")
        /\ late' = late \cup {[op |-> "login", s |-> task[p].s]}
        /\ Release /\ Finish(p)
     \/ At(p, "last_wait") /\ AfterLogout(p) /\ Release /\ UNCHANGED late
  /\ UNCHANGED <<live, sess, native, token, holders, contended, carrier>>

\* The provider call goes on without its caller.  The caller's lock guard is
\* gone; only the transient carrier keeps it.
Abandon(p) ==
  /\ "timeouts" \in load /\ Cardinality(late) < MaxLate
  /\ \/ /\ At(p, "login_call")
        /\ late' = late \cup {[op |-> "login", s |-> task[p].s]}
        /\ Release /\ Finish(p)
     \/ /\ At(p, "logout_call")
        /\ late' = late \cup {[op |-> "logout", s |-> task[p].s]}
        /\ Release /\ Finish(p)
     \/ /\ At(p, "reconcile_call")
        /\ late' = late \cup {[op |-> "reconcile", s |-> task[p].s]}
        /\ Go(p, "reconcile_lock")
        /\ UNCHANGED lock
     \/ /\ At(p, "last_call")
        /\ late' = late \cup {[op |-> "last", s |-> task[p].s]}
        /\ Release /\ AfterLogout(p)
     \/ At(p, "last_wait") /\ AfterLogout(p) /\ UNCHANGED <<lock, late>>
  /\ UNCHANGED <<live, sess, native, token, holders, contended, carrier>>

LateReturns(l) ==
  /\ late' = late \ {l}
  /\ IF l.op = "login"
     THEN \E rv \in {"ok", "already", "fail"} : NativeLogin(l.s, rv)
     ELSE \E rv \in {"ok", "fail"} : NativeLogout(l.s, rv)
  /\ UNCHANGED <<live, sess, native, holders, contended, lock, task, carrier>>

-----------------------------------------------------------------------------
Step(p) ==
  \/ LoginLock(p) \/ LoginCall(p) \/ LoginAnswer(p) \/ LoginMint(p) \/ ReconcileCall(p)
  \/ LogoutLock(p) \/ LogoutCall(p) \/ LogoutAnswer(p)
  \/ CloseLock(p) \/ CloseCall(p) \/ CloseSettle(p)
  \/ BatchCall(p) \/ BatchSettle(p)
  \/ LastHolderFast(p) \/ LastHolderLock(p) \/ LastHolderCall(p) \/ CarrierDone(p)
  \/ Reap(p)

Next ==
  /\ UNCHANGED load
  /\ \/ \E s \in Sessions : OpenSession(s)
     \/ \E p \in Tasks, s \in Sessions :
          StartLogin(p, s) \/ StartLogout(p, s) \/ StartClose(p, s)
     \/ \E p \in Tasks, c \in Contexts : StartCloseAll(p, c) \/ Depart(p, c)
     \/ \E p \in Tasks : Step(p) \/ LockTimeout(p) \/ Abandon(p)
     \/ CarrierStep
     \/ \E l \in late : LateReturns(l)

Spec == Init /\ [][Next]_vars

\* The runtime runs the owner of the slot lock, task or carrier, and the provider
\* answers its calls in the end; nothing makes the others move.
FairSpec == /\ Spec
            /\ \A p \in Tasks : WF_vars(UNCHANGED load /\ lock = p /\ Step(p))
            /\ WF_vars(UNCHANGED load /\ CarrierStep)

-----------------------------------------------------------------------------
(* Properties *)

\* A client with a logical login has a session on the slot, so that one without
\* sessions can be dropped without a logout: "no LoginState may reference an
\* untracked session" (login), "sessionless evictees hold no login by
\* invariant" (evict_expired_sessionless_for_admission).
HolderHasSession == \A c \in holders : Tracked(c) # {}

Stranded(c) == c \in holders /\ Tracked(c) = {}

\* The session whose login is about to be minted still resolves.
Mintable(p) == At(p, "login_mint") /\ sess[task[p].s] = "active"

\* How a login comes to have no session: never by a close or a departure, which
\* take the login along, only by a mint for a session that no longer resolves;
\* and between the check and the mint nothing but C_CloseAllSessions, which
\* takes no slot lock, can take the session away (login, remove_session,
\* close_all_sessions).
OnlyCloseAllStrands ==
  [][/\ \A c \in Contexts : Stranded(c)' =>
          \/ Stranded(c)
          \/ \E p \in Tasks : LoginMint(p) /\ task[p].ctx = c /\ ~Mintable(p)
     /\ \A p \in Tasks : Mintable(p) /\ At(p, "login_mint")' =>
          \/ Mintable(p)'
          \/ \E q \in Tasks : StartCloseAll(q, task[p].ctx)]_vars

\* A last-holder logout never reaches the provider while a client holds the
\* slot: "a concurrent login is never stolen"
\* (backend_logout_if_last_holder_out_inner).
LastHolderNeverSteals ==
  [][/\ token # token'
     /\ \/ \E p \in Tasks : LastHolderCall(p)
        \/ \E l \in late : l.op = "last" /\ LateReturns(l)
     => holders = {}]_vars

\* A client's own C_Logout logs no other client out, whether its caller still
\* waits for it or not: it is serialised "so the cross-context scan and the
\* login_state removal stay atomic" (logout).
LogoutSparesOthers ==
  [][token # token' =>
       /\ \A p \in Tasks : LogoutCall(p) => Others(task[p].ctx) = {}
       /\ \A l \in late : l.op = "logout" /\ LateReturns(l) => Others(Owner[l.s]) = {}]_vars

\* What holds of both while the caller waits: a logout that reaches the provider
\* under the slot lock, the client's own or the last-holder one, ends no login
\* another client holds (logout, backend_logout_if_last_holder_out_inner).  Once
\* a caller has stopped waiting the lock is gone, and it may.
AwaitedLogoutSpares ==
  [][token # token' =>
       \A p \in Tasks : /\ LogoutCall(p) => Others(task[p].ctx) = {}
                        /\ LastHolderCall(p) => holders = {}]_vars

\* The transient carrier's logout never hits a held slot, not even when its
\* caller has long stopped waiting (last_holder_logout_via_transient_carrier).
CarrierNeverSteals == [][CarrierStep /\ token # token' => holders = {}]_vars

\* Whoever takes the slot lock gives it back, also when it changes hands to the
\* transient carrier (login, logout, the last-holder helper).
SlotLockReleased == lock # Free ~> lock = Free
=============================================================================
