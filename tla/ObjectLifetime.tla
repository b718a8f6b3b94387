---------------------------- MODULE ObjectLifetime ----------------------------
(***************************************************************************)
(* Object lifetimes and late mints.  A handler that creates an object arms *)
(* a completion owner; when its caller is gone before the handle could be  *)
(* registered, the owner destroys the object (MintCompletionOwner,         *)
(* service_utils.rs).  The provider reuses the handles of dead objects and *)
(* closed sessions, so that destroy is bound to the session's incarnation  *)
(* and to an object lifetime from the handle-global table of               *)
(* object_lifetime.rs, captured while the table was locked around the      *)
(* native call.  Births tell apart the objects behind one handle.  Objects *)
(* that no mint of this proxy created (they were on the token before, or   *)
(* another process created them) share the handle space; the table only    *)
(* hears of them when a search finds them.                                 *)
(***************************************************************************)
EXTENDS Naturals, FiniteSets

CONSTANTS Handles,    \* numeric object handles
          Sessions,   \* numeric session handles
          Mints,      \* requests that create an object
          MaxOpens,   \* bound on sessions opened
          MaxForeign  \* bound on objects no mint created

Free == "free"

ASSUME LifetimeAssumption ==
  /\ MaxOpens \in Nat /\ MaxForeign \in Nat
  /\ Sessions # {} /\ "token" \notin Sessions
  /\ Handles # {}
  /\ Free \notin Mints

VARIABLES obj,     \* external: Handles -> the object it names
          births,  \* number of objects created so far
          foreign, \* external: births of the objects no mint created
          sess,    \* Sessions -> incarnation of its fence, 0 when closed
          opens,   \* number of sessions opened so far
          entries, \* ObjectLifetimeTable: Handles -> entry
          next,    \* the next lifetime id
          lock,    \* the mint that holds the table's lock
          mint     \* Mints -> the request and its completion owner

vars == <<obj, births, foreign, sess, opens, entries, next, lock, mint>>

\* Birth 0, lifetime 0 and incarnation 0 name nothing.
NoObject == [birth |-> 0, on |-> "token"]
NoEntry(ss) == [lifetime |-> 0, owner |-> CHOOSE s \in ss : TRUE]

\* What a mint is doing; the last six are its ends.
PC == {"new", "armed", "minted", "recorded", "checked",
       "failed", "adopted", "destroyed", "rejected", "refused", "shed"}

TypeOK ==
  /\ births \in Nat /\ opens \in 0 .. MaxOpens /\ next \in Nat \ {0}
  /\ foreign \subseteq 1 .. births
  /\ obj \in [Handles -> [birth : 0 .. births, on : Sessions \cup {"token"}]]
  /\ sess \in [Sessions -> 0 .. opens]
  /\ entries \in [Handles -> [lifetime : 0 .. next - 1, owner : Sessions]]
  /\ lock \in Mints \cup {Free}
  /\ mint \in [Mints -> [pc : PC, gone : BOOLEAN, session : Sessions,
                         incarnation : 0 .. opens, handle : Handles,
                         born : 0 .. births, lifetime : 0 .. next - 1]]

Init ==
  /\ births = 0 /\ foreign = {} /\ opens = 0 /\ next = 1
  /\ obj = [h \in Handles |-> NoObject]
  /\ sess = [s \in Sessions |-> 0]
  /\ entries = [h \in Handles |-> NoEntry(Sessions)]
  /\ lock = Free
  /\ mint = [m \in Mints |->
               [pc |-> "new", gone |-> FALSE, session |-> CHOOSE s \in Sessions : TRUE,
                incarnation |-> 0, handle |-> CHOOSE h \in Handles : TRUE,
                born |-> 0, lifetime |-> 0]]

-----------------------------------------------------------------------------
Alive(h) == obj[h].birth # 0

At(m, pc) == mint[m].pc = pc

\* Objects created in a session die with it.
DieWith(S) == [h \in Handles |-> IF obj[h].on \in S THEN NoObject ELSE obj[h]]

OpenSession(s) ==
  /\ sess[s] = 0 /\ opens < MaxOpens
  /\ opens' = opens + 1
  /\ sess' = [sess EXCEPT ![s] = opens + 1]
  /\ UNCHANGED <<obj, births, foreign, entries, next, lock, mint>>

-----------------------------------------------------------------------------
(* A request that creates an object. *)

\* arm_for_session captures the session's incarnation.
Arm(m, s) ==
  /\ At(m, "new") /\ sess[s] # 0
  /\ mint' = [mint EXCEPT ![m].pc = "armed", ![m].session = s, ![m].incarnation = sess[s]]
  /\ UNCHANGED <<obj, births, foreign, sess, opens, entries, next, lock>>

\* The native call: the session's fence is entered, the table is locked, the
\* provider creates a session or a token object on a handle of its choice.
MintNative(m) ==
  /\ At(m, "armed") /\ lock = Free /\ sess[mint[m].session] # 0
  /\ births' = births + 1
  /\ \E h \in Handles, on \in {mint[m].session, "token"} :
       /\ ~Alive(h)
       /\ obj' = [obj EXCEPT ![h] = [birth |-> births + 1, on |-> on]]
       /\ mint' = [mint EXCEPT ![m].pc = "minted", ![m].handle = h, ![m].born = births + 1]
  /\ lock' = m
  /\ UNCHANGED <<foreign, sess, opens, entries, next>>

\* Or it creates nothing; the owner disarms.
MintFails(m) ==
  /\ At(m, "armed")
  /\ mint' = [mint EXCEPT ![m].pc = "failed"]
  /\ UNCHANGED <<obj, births, foreign, sess, opens, entries, next, lock>>

\* record_object_lifetime_fresh_in: the entry gets a new id.  The capture
\* carries it, unless the handle was still tracked: then it is poisoned.
MintRecord(m) ==
  LET h == mint[m].handle IN
  /\ At(m, "minted")
  /\ next' = next + 1
  /\ entries' = [entries EXCEPT ![h] = [lifetime |-> next, owner |-> mint[m].session]]
  /\ mint' = [mint EXCEPT ![m].pc = "recorded",
                          ![m].lifetime = IF entries[h].lifetime = 0 THEN next ELSE 0]
  /\ lock' = Free
  /\ UNCHANGED <<obj, births, foreign, sess, opens>>

\* The caller is cancelled or times out.
CallerGone(m) ==
  /\ mint[m].pc \in {"armed", "minted", "recorded"} /\ ~mint[m].gone
  /\ mint' = [mint EXCEPT ![m].gone = TRUE]
  /\ UNCHANGED <<obj, births, foreign, sess, opens, entries, next, lock>>

\* The caller takes the result: registered, the owner is disarmed; with its
\* context gone it cannot be, and the owner stays armed.
Adopt(m) ==
  /\ At(m, "recorded") /\ ~mint[m].gone
  /\ \/ mint' = [mint EXCEPT ![m].pc = "adopted"]
     \/ mint' = [mint EXCEPT ![m].gone = TRUE]
  /\ UNCHANGED <<obj, births, foreign, sess, opens, entries, next, lock>>

-----------------------------------------------------------------------------
(* The settlement: destroy_object_if_bound. *)

\* The breaker sheds the settlement; it is not retried.
SettleShed(m) ==
  /\ At(m, "recorded") /\ mint[m].gone
  /\ mint' = [mint EXCEPT ![m].pc = "shed"]
  /\ UNCHANGED <<obj, births, foreign, sess, opens, entries, next, lock>>

Bound(r) ==
  /\ sess[r.session] = r.incarnation
  /\ r.lifetime # 0
  /\ entries[r.handle].lifetime = r.lifetime

\* A variant: the lifetime is compared before the table is locked for the
\* destroy.
BoundCheckUnlocked(m) ==
  /\ At(m, "recorded") /\ mint[m].gone /\ lock = Free
  /\ mint' = [mint EXCEPT ![m].pc = IF Bound(mint[m]) THEN "checked" ELSE "refused"]
  /\ UNCHANGED <<obj, births, foreign, sess, opens, entries, next, lock>>

\* enter_checked and the comparison, under the lock.
BoundCheck(m) ==
  /\ At(m, "recorded") /\ mint[m].gone /\ lock = Free
  /\ IF Bound(mint[m])
     THEN mint' = [mint EXCEPT ![m].pc = "checked"] /\ lock' = m
     ELSE mint' = [mint EXCEPT ![m].pc = "refused"] /\ UNCHANGED lock
  /\ UNCHANGED <<obj, births, foreign, sess, opens, entries, next>>

\* C_DestroyObject; on success the entry goes.  The provider may refuse, the
\* object being dead or not; the lock goes either way.
BoundDestroy(m) ==
  LET h == mint[m].handle IN
  /\ At(m, "checked")
  /\ \/ /\ Alive(h)
        /\ obj' = [obj EXCEPT ![h] = NoObject]
        /\ entries' = [entries EXCEPT ![h] = NoEntry(Sessions)]
        /\ mint' = [mint EXCEPT ![m].pc = "destroyed"]
     \/ /\ mint' = [mint EXCEPT ![m].pc = "rejected"]
        /\ UNCHANGED <<obj, entries>>
  /\ lock' = Free
  /\ UNCHANGED <<births, foreign, sess, opens, next>>

-----------------------------------------------------------------------------
(* The other calls that hold the lock around a native call.  Nothing they *)
(* do can be seen before they release it, so each is one step.            *)

\* record_if_absent_in: an entry that is there is kept, also when it speaks
\* of a dead object and another one has the handle by now.
RecordIfAbsent(s, h) ==
  IF entries[h].lifetime = 0
  THEN /\ next' = next + 1
       /\ entries' = [entries EXCEPT ![h] = [lifetime |-> next, owner |-> s]]
  ELSE UNCHANGED <<next, entries>>

\* ffi_find_objects returns handle h to session s.
Find(s, h) ==
  /\ lock = Free /\ sess[s] # 0 /\ Alive(h)
  /\ RecordIfAbsent(s, h)
  /\ UNCHANGED <<obj, births, foreign, sess, opens, lock, mint>>

\* ffi_destroy_object by a client that found or adopted the object.
Destroy(h) ==
  /\ lock = Free /\ (\E s \in Sessions : sess[s] # 0) /\ Alive(h)
  /\ obj' = [obj EXCEPT ![h] = NoObject]
  /\ entries' = [entries EXCEPT ![h] = NoEntry(Sessions)]
  /\ UNCHANGED <<births, foreign, sess, opens, next, lock, mint>>

\* A variant: a close empties the table.
DropSessionsAll(S) == [h \in Handles |-> NoEntry(Sessions)]

\* drop_session_in: the entries the sessions own, and no others.
DropSessions(S) ==
  [h \in Handles |-> IF entries[h].owner \in S THEN NoEntry(Sessions) ELSE entries[h]]

\* ffi_close_session, or ffi_close_all_sessions of the slot; the fences go.
Close(S) ==
  /\ lock = Free /\ \E s \in S : sess[s] # 0
  /\ obj' = DieWith(S)
  /\ entries' = DropSessions(S)
  /\ sess' = [s \in Sessions |-> IF s \in S THEN 0 ELSE sess[s]]
  /\ UNCHANGED <<births, foreign, opens, next, lock, mint>>

\* Finalize, after every call has drained: all handles die, the publish
\* purges the table and the fences.
Finalize ==
  /\ lock = Free
  /\ obj' = [h \in Handles |-> NoObject]
  /\ entries' = [h \in Handles |-> NoEntry(Sessions)]
  /\ sess' = [s \in Sessions |-> 0]
  /\ UNCHANGED <<births, foreign, opens, next, lock, mint>>

-----------------------------------------------------------------------------
\* External: a logout destroys the private session objects; the table
\* keeps their entries.
Logout(s) ==
  /\ sess[s] # 0
  /\ \E H \in SUBSET {h \in Handles : obj[h].on \in Sessions} \ {{}} :
       obj' = [h \in Handles |-> IF h \in H THEN NoObject ELSE obj[h]]
  /\ UNCHANGED <<births, foreign, sess, opens, entries, next, lock, mint>>

\* External: a token object that no mint of this proxy created appears on a
\* handle the provider has free, whatever call is at the table.
ForeignBirth(h) ==
  /\ ~Alive(h) /\ Cardinality(foreign) < MaxForeign
  /\ births' = births + 1
  /\ foreign' = foreign \cup {births + 1}
  /\ obj' = [obj EXCEPT ![h] = [birth |-> births + 1, on |-> "token"]]
  /\ UNCHANGED <<sess, opens, entries, next, lock, mint>>

\* External: another process destroys a token object; the table keeps its
\* entry.
ForeignDeath(h) ==
  /\ Alive(h) /\ obj[h].on = "token"
  /\ obj' = [obj EXCEPT ![h] = NoObject]
  /\ UNCHANGED <<births, foreign, sess, opens, entries, next, lock, mint>>

-----------------------------------------------------------------------------
MintStep(m) ==
  \/ MintNative(m) \/ MintFails(m) \/ MintRecord(m)
  \/ CallerGone(m) \/ Adopt(m)
  \/ SettleShed(m) \/ BoundCheck(m) \/ BoundDestroy(m)

Next ==
  \/ \E m \in Mints : MintStep(m) \/ \E s \in Sessions : Arm(m, s)
  \/ \E s \in Sessions : OpenSession(s) \/ Close({s}) \/ Logout(s)
  \/ Close(Sessions)
  \/ Finalize
  \/ \E h \in Handles : Destroy(h) \/ ForeignBirth(h) \/ ForeignDeath(h)
  \/ \E s \in Sessions, h \in Handles : Find(s, h)

Spec == Init /\ [][Next]_vars

-----------------------------------------------------------------------------
(* Properties. *)

\* The claim of object_lifetime.rs for destroy_object_if_bound: a settlement
\* that has passed its check destroys the object its own mint created, or
\* nothing.  It fails when an object dies behind the table and a foreign one
\* takes over its handle: the table still has the dead mint's lifetime there,
\* record_if_absent_in keeps it, and the check passes.
DestroyHitsItsObject ==
  \A m \in Mints :
    At(m, "checked") => obj[mint[m].handle].birth \in {0, mint[m].born}

\* What destroy_object_if_bound does guarantee: a settlement that has passed
\* its check never destroys the object of another request of this proxy,
\* whichever of them took over the handle since.  A foreign object that took
\* it over is not protected.
DestroySparesOtherMints ==
  \A m \in Mints :
    At(m, "checked") => obj[mint[m].handle].birth \in {0, mint[m].born} \cup foreign

\* destroy_object_if_bound turns a settlement away before the native call only
\* with good reason: the object it should have
\* destroyed is dead, its session is closed, or its capture was poisoned
\* when it took over a handle the table still tracked.
RefusedForCause ==
  \A m \in Mints :
    At(m, "refused") /\ obj[mint[m].handle].birth = mint[m].born =>
      mint[m].lifetime = 0 \/ sess[mint[m].session] # mint[m].incarnation
=============================================================================
