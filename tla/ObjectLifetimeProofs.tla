------------------------- MODULE ObjectLifetimeProofs -------------------------
(***************************************************************************)
(* A late destroy of ObjectLifetime never hits the object of another mint  *)
(* (it may hit one the proxy did not create), and is refused only for      *)
(* cause, for any handles, sessions, mints and foreign objects.            *)
(***************************************************************************)
EXTENDS ObjectLifetime, TLAPS

\* The table is locked exactly by the mint between the native call and the
\* record, or between the check and the destroy.
LockOK == \A m \in Mints : lock = m <=> mint[m].pc \in {"minted", "checked"}

\* Births and lifetimes are handed out once; no mint's object is foreign.
IdsOK ==
  /\ \A m \in Mints :
       /\ mint[m].pc \in {"new", "armed", "failed"} <=> mint[m].born = 0
       /\ mint[m].pc \in {"new", "armed", "minted"} => mint[m].lifetime = 0
       /\ mint[m].pc # "new" => mint[m].incarnation # 0
       /\ mint[m].born \notin foreign
  /\ \A m, n \in Mints : m # n =>
       /\ mint[m].born # 0 => mint[m].born # mint[n].born
       /\ mint[m].lifetime # 0 => mint[m].lifetime # mint[n].lifetime

\* Mint n has created an object on handle h that the table does not show yet.
Unrecorded(n, h) == At(n, "minted") /\ mint[n].handle = h

\* Until it is recorded, a mint's object is on its handle, or it is dead and
\* at most a foreign one has its place.
MintedOK ==
  \A m \in Mints :
    At(m, "minted") => obj[mint[m].handle].birth \in {0, mint[m].born} \cup foreign

\* An entry with a mint's lifetime is at its handle and speaks of its object,
\* unless a foreign one is there, or a new one that is not recorded yet.
EntryOK ==
  \A m \in Mints, h \in Handles :
    mint[m].lifetime # 0 /\ entries[h].lifetime = mint[m].lifetime =>
      /\ h = mint[m].handle
      /\ \/ obj[h].birth \in {0, mint[m].born} \cup foreign
         \/ \E n \in Mints : Unrecorded(n, h)

\* What the check found still holds at the destroy.
CheckedOK ==
  \A m \in Mints : At(m, "checked") =>
    mint[m].lifetime # 0 /\ entries[mint[m].handle].lifetime = mint[m].lifetime

\* While a mint's object and session live, the table tracks the object.
TrackedOK ==
  \A m \in Mints :
    /\ mint[m].pc \in {"recorded", "checked"}
    /\ mint[m].lifetime # 0
    /\ obj[mint[m].handle].birth = mint[m].born
    /\ sess[mint[m].session] = mint[m].incarnation
    => entries[mint[m].handle] = [lifetime |-> mint[m].lifetime, owner |-> mint[m].session]

IInv ==
  /\ TypeOK /\ LockOK /\ IdsOK /\ MintedOK /\ EntryOK /\ CheckedOK /\ TrackedOK
  /\ RefusedForCause

-----------------------------------------------------------------------------
(* Steps in the life of one mint that change nothing but where it stands. *)

MintRec(o, b, n) ==
  [pc : PC, gone : BOOLEAN, session : Sessions, incarnation : 0 .. o,
   handle : Handles, born : 0 .. b, lifetime : 0 .. n]

Moves(m) ==
  /\ UNCHANGED <<obj, births, foreign, sess, opens, entries, next>>
  /\ \A n \in Mints :
       /\ mint'[n].session = mint[n].session
       /\ mint'[n].incarnation = mint[n].incarnation
       /\ mint'[n].handle = mint[n].handle
       /\ mint'[n].born = mint[n].born
       /\ mint'[n].lifetime = mint[n].lifetime
       /\ n # m => mint'[n].pc = mint[n].pc

\* Such a step keeps the invariant if it keeps the lock in step with the mint,
\* enters the destroy only with a matching entry, and refuses only for cause.
LEMMA MoveStep ==
  ASSUME IInv, NEW m \in Mints, Moves(m), TypeOK', LockOK',
         mint[m].pc # "new" /\ mint'[m].pc # "new",
         mint'[m].pc = "minted" <=> mint[m].pc = "minted",
         mint'[m].pc \in {"armed", "failed"} <=> mint[m].pc \in {"armed", "failed"},
         mint'[m].pc = "armed" => mint[m].pc = "armed",
         mint'[m].pc \in {"recorded", "checked"} => mint[m].pc \in {"recorded", "checked"},
         mint'[m].pc = "checked" =>
           mint[m].lifetime # 0 /\ entries[mint[m].handle].lifetime = mint[m].lifetime,
         mint'[m].pc = "refused" /\ obj[mint[m].handle].birth = mint[m].born =>
           mint[m].lifetime = 0 \/ sess[mint[m].session] # mint[m].incarnation
  PROVE  IInv'
  <1>1. IdsOK'
    BY DEF IInv, IdsOK, Moves
  <1>2. MintedOK'
    BY DEF IInv, MintedOK, Moves, At
  <1>3. EntryOK'
    BY DEF IInv, EntryOK, Unrecorded, Moves, At
  <1>4. CheckedOK'
    BY DEF IInv, CheckedOK, Moves, At
  <1>5. TrackedOK'
    BY DEF IInv, TrackedOK, Moves
  <1>6. RefusedForCause'
    BY DEF IInv, RefusedForCause, Moves, At
  <1>7. QED BY <1>1, <1>2, <1>3, <1>4, <1>5, <1>6 DEF IInv

\* Setting the program counter or the mark of a lost caller is such a step and
\* keeps the types.
LEMMA SetPC ==
  ASSUME IInv, NEW m \in Mints, NEW x \in PC, NEW g \in BOOLEAN,
         UNCHANGED <<obj, births, foreign, sess, opens, entries, next>>,
         lock' \in Mints \cup {Free},
         mint' \in {[mint EXCEPT ![m].pc = x], [mint EXCEPT ![m].gone = g]}
  PROVE  TypeOK' /\ Moves(m)
  <1>1. mint \in [Mints -> MintRec(opens, births, next - 1)]
    BY DEF IInv, TypeOK, MintRec
  <1>2. CASE mint' = [mint EXCEPT ![m].pc = x]
    <2>1. mint' \in [Mints -> MintRec(opens, births, next - 1)]
      BY <1>1, <1>2 DEF MintRec
    <2>2. Moves(m)
      BY <1>1, <1>2 DEF Moves, MintRec
    <2>3. QED BY <2>1, <2>2 DEF IInv, TypeOK, MintRec
  <1>3. CASE mint' = [mint EXCEPT ![m].gone = g]
    <2>1. mint' \in [Mints -> MintRec(opens, births, next - 1)]
      BY <1>1, <1>3 DEF MintRec
    <2>2. Moves(m)
      BY <1>1, <1>3 DEF Moves, MintRec
    <2>3. QED BY <2>1, <2>2 DEF IInv, TypeOK, MintRec
  <1>4. QED BY <1>2, <1>3

\* A mint that creates nothing disarms.
LEMMA MintFailsStep ==
  ASSUME IInv, NEW m \in Mints, MintFails(m)
  PROVE  IInv'
  <1>1. mint[m].pc = "armed" /\ mint'[m].pc = "failed"
    BY DEF IInv, TypeOK, MintFails, At
  <1>2. TypeOK' /\ Moves(m)
    BY SetPC DEF MintFails, PC, IInv, TypeOK
  <1>3. LockOK'
    BY <1>1, <1>2 DEF IInv, LockOK, Moves, MintFails
  <1>4. QED BY <1>1, <1>2, <1>3, MoveStep

\* The caller leaving moves nothing.
LEMMA CallerGoneStep ==
  ASSUME IInv, NEW m \in Mints, CallerGone(m)
  PROVE  IInv'
  <1>1. mint[m].pc \in {"armed", "minted", "recorded"} /\ mint'[m].pc = mint[m].pc
    BY DEF IInv, TypeOK, CallerGone
  <1>2. TypeOK' /\ Moves(m)
    BY SetPC DEF CallerGone, PC, IInv, TypeOK
  <1>3. LockOK'
    BY <1>1, <1>2 DEF IInv, LockOK, Moves, CallerGone
  <1>4. QED BY <1>1, <1>2, <1>3, MoveStep

\* A result is adopted, or its owner stays armed.
LEMMA AdoptStep ==
  ASSUME IInv, NEW m \in Mints, Adopt(m)
  PROVE  IInv'
  <1>1. mint[m].pc = "recorded" /\ mint'[m].pc \in {"recorded", "adopted"}
    BY DEF IInv, TypeOK, Adopt, At
  <1>2. TypeOK' /\ Moves(m)
    BY SetPC DEF Adopt, PC, IInv, TypeOK
  <1>3. LockOK'
    BY <1>1, <1>2 DEF IInv, LockOK, Moves, Adopt
  <1>4. QED BY <1>1, <1>2, <1>3, MoveStep

\* A settlement that is shed touches no table.
LEMMA SettleShedStep ==
  ASSUME IInv, NEW m \in Mints, SettleShed(m)
  PROVE  IInv'
  <1>1. mint[m].pc = "recorded" /\ mint'[m].pc = "shed"
    BY DEF IInv, TypeOK, SettleShed, At
  <1>2. TypeOK' /\ Moves(m)
    BY SetPC DEF SettleShed, PC, IInv, TypeOK
  <1>3. LockOK'
    BY <1>1, <1>2 DEF IInv, LockOK, Moves, SettleShed
  <1>4. QED BY <1>1, <1>2, <1>3, MoveStep

\* A settlement that passes its check takes the lock; one that is refused has
\* lost its object or its session, since otherwise the table would track it.
LEMMA BoundCheckStep ==
  ASSUME IInv, NEW m \in Mints, BoundCheck(m)
  PROVE  IInv'
  <1>1. mint[m].pc = "recorded" /\ lock = Free
    BY DEF BoundCheck, At
  <1>2. CASE Bound(mint[m])
    <2>1. mint'[m].pc = "checked" /\ lock' = m
      BY <1>2 DEF IInv, TypeOK, BoundCheck
    <2>2. TypeOK' /\ Moves(m)
      BY <1>2, <2>1, SetPC DEF BoundCheck, PC
    <2>3. LockOK'
      BY <1>1, <2>1, <2>2, LifetimeAssumption DEF IInv, LockOK, Moves
    <2>4. mint[m].lifetime # 0 /\ entries[mint[m].handle].lifetime = mint[m].lifetime
      BY <1>2 DEF Bound
    <2>5. QED BY <1>1, <2>1, <2>2, <2>3, <2>4, MoveStep
  <1>3. CASE ~Bound(mint[m])
    <2>1. mint'[m].pc = "refused" /\ lock' = lock
      BY <1>3 DEF IInv, TypeOK, BoundCheck
    <2>2. TypeOK' /\ Moves(m)
      BY <1>1, <1>3, <2>1, SetPC DEF BoundCheck, PC
    <2>3. LockOK'
      BY <1>1, <2>1, <2>2 DEF IInv, LockOK, Moves
    <2>4. obj[mint[m].handle].birth = mint[m].born =>
            mint[m].lifetime = 0 \/ sess[mint[m].session] # mint[m].incarnation
      <3>1. SUFFICES ASSUME obj[mint[m].handle].birth = mint[m].born, mint[m].lifetime # 0,
                            sess[mint[m].session] = mint[m].incarnation
                     PROVE  FALSE
        OBVIOUS
      <3>2. entries[mint[m].handle]
              = [lifetime |-> mint[m].lifetime, owner |-> mint[m].session]
        BY <1>1, <3>1 DEF IInv, TrackedOK
      <3>3. entries[mint[m].handle].lifetime = mint[m].lifetime
        BY <3>2
      <3>4. QED BY <1>3, <3>1, <3>3 DEF Bound
    <2>5. QED BY <1>1, <2>1, <2>2, <2>3, <2>4, MoveStep
  <1>4. QED BY <1>2, <1>3

\* The bound destroy takes the object and its entry together, or the provider
\* refuses it.
LEMMA BoundDestroyStep ==
  ASSUME IInv, NEW m \in Mints, BoundDestroy(m)
  PROVE  IInv'
  <1> DEFINE h == mint[m].handle
  <1>1. /\ mint[m].pc = "checked" /\ lock = m /\ lock' = Free
        /\ UNCHANGED <<births, foreign, sess, opens, next>>
    BY DEF BoundDestroy, At, IInv, LockOK
  <1>2. \A n \in Mints : n # m => mint[n].pc \notin {"minted", "checked"}
    BY <1>1 DEF IInv, LockOK
  <1>3. CASE /\ obj' = [obj EXCEPT ![h] = NoObject]
             /\ entries' = [entries EXCEPT ![h] = NoEntry(Sessions)]
             /\ mint' = [mint EXCEPT ![m].pc = "destroyed"]
    <2>1. mint \in [Mints -> MintRec(opens, births, next - 1)] /\ h \in Handles
      BY DEF IInv, TypeOK, MintRec
    <2>2. mint' \in [Mints -> MintRec(opens, births, next - 1)]
      BY <1>3, <2>1 DEF MintRec, PC
    <2>3. /\ mint'[m].pc = "destroyed"
          /\ \A n \in Mints :
               /\ mint'[n].session = mint[n].session
               /\ mint'[n].incarnation = mint[n].incarnation
               /\ mint'[n].handle = mint[n].handle
               /\ mint'[n].born = mint[n].born
               /\ mint'[n].lifetime = mint[n].lifetime
               /\ n # m => mint'[n].pc = mint[n].pc
      BY <1>3, <2>1 DEF MintRec
    <2>4. /\ obj'[h].birth = 0 /\ entries'[h].lifetime = 0
          /\ \A k \in Handles \ {h} : obj'[k] = obj[k] /\ entries'[k] = entries[k]
      BY <1>3, <2>1 DEF IInv, TypeOK, NoObject, NoEntry
    <2>5. TypeOK'
      <3>1. obj' \in [Handles -> [birth : 0 .. births, on : Sessions \cup {"token"}]]
        BY <1>3, <2>1 DEF IInv, TypeOK, NoObject
      <3>2. entries' \in [Handles -> [lifetime : 0 .. next - 1, owner : Sessions]]
        BY <1>3, <2>1, LifetimeAssumption DEF IInv, TypeOK, NoEntry
      <3>3. QED BY <1>1, <2>2, <3>1, <3>2 DEF IInv, TypeOK, MintRec
    <2>6. LockOK'
      BY <1>1, <1>2, <2>3, LifetimeAssumption DEF LockOK
    <2>7. IdsOK'
      BY <1>1, <2>3 DEF IInv, IdsOK
    <2>8. MintedOK' /\ CheckedOK'
      BY <1>2, <2>3 DEF MintedOK, CheckedOK, At
    <2>9. EntryOK'
      BY <1>1, <1>2, <2>3, <2>4 DEF IInv, EntryOK, Unrecorded, At
    <2>10. \A n \in Mints : mint[n].handle \in Handles
      BY <2>1 DEF MintRec
    <2>11. TrackedOK'
      BY <1>1, <2>3, <2>4, <2>10 DEF IInv, TrackedOK, IdsOK
    <2>12. RefusedForCause'
      BY <1>1, <2>3, <2>4, <2>10 DEF IInv, RefusedForCause, IdsOK, At
    <2>13. QED BY <2>5, <2>6, <2>7, <2>8, <2>9, <2>11, <2>12 DEF IInv
  <1>4. CASE mint' = [mint EXCEPT ![m].pc = "rejected"] /\ UNCHANGED <<obj, entries>>
    <2>1. mint'[m].pc = "rejected"
      BY <1>4 DEF IInv, TypeOK
    <2>2. TypeOK' /\ Moves(m)
      BY <1>1, <1>4, SetPC DEF PC
    <2>3. LockOK'
      BY <1>1, <1>2, <2>1, <2>2, LifetimeAssumption DEF LockOK, Moves
    <2>4. QED BY <1>1, <2>1, <2>2, <2>3, MoveStep
  <1>5. QED BY <1>3, <1>4 DEF BoundDestroy

-----------------------------------------------------------------------------
(* The other actions. *)

\* A fresh incarnation is not one any mint has captured.
LEMMA OpenSessionStep ==
  ASSUME IInv, NEW s \in Sessions, OpenSession(s)
  PROVE  IInv'
  <1>1. TypeOK'
    BY LifetimeAssumption DEF IInv, TypeOK, PC, OpenSession
  <1>2. LockOK'
    BY DEF IInv, LockOK, At, OpenSession
  <1>3. IdsOK'
    BY DEF IInv, IdsOK, At, OpenSession
  <1>4. MintedOK'
    BY DEF IInv, MintedOK, At, OpenSession
  <1>5. EntryOK'
    BY DEF IInv, EntryOK, Unrecorded, At, OpenSession
  <1>6. CheckedOK'
    BY DEF IInv, CheckedOK, At, OpenSession
  <1>7. TrackedOK'
    BY DEF IInv, TypeOK, TrackedOK, OpenSession
  <1>8. RefusedForCause'
    <2>1. SUFFICES ASSUME NEW n \in Mints, mint[n].pc = "refused",
                          obj[mint[n].handle].birth = mint[n].born, mint[n].lifetime # 0
                   PROVE  sess'[mint[n].session] # mint[n].incarnation
      BY DEF OpenSession, RefusedForCause, At
    <2>2. sess[mint[n].session] # mint[n].incarnation
      BY <2>1 DEF IInv, RefusedForCause, At
    <2>3. QED BY <2>2 DEF OpenSession, IInv, TypeOK
  <1>9. QED BY <1>1, <1>2, <1>3, <1>4, <1>5, <1>6, <1>7, <1>8 DEF IInv

\* Arming captures an open incarnation and nothing else.
LEMMA ArmStep ==
  ASSUME IInv, NEW m \in Mints, NEW s \in Sessions, Arm(m, s)
  PROVE  IInv'
  <1>1. TypeOK'
    <2>1. mint[m] \in MintRec(opens, births, next - 1) /\ sess[s] \in 0 .. opens /\ "armed" \in PC
      BY DEF IInv, TypeOK, MintRec, PC
    <2>2. mint'[m] = [mint[m] EXCEPT !.pc = "armed", !.session = s, !.incarnation = sess[s]]
      BY DEF Arm, IInv, TypeOK
    <2>3. mint'[m] \in MintRec(opens, births, next - 1)
      BY <2>1, <2>2 DEF MintRec
    <2>4. mint' \in [Mints -> MintRec(opens, births, next - 1)]
      BY <2>3 DEF Arm, IInv, TypeOK, MintRec
    <2>5. QED BY <2>4 DEF Arm, IInv, TypeOK, MintRec
  <1>2. LockOK'
    BY DEF IInv, TypeOK, LockOK, At, Arm
  <1>3. IdsOK'
    BY DEF IInv, TypeOK, IdsOK, At, Arm
  <1>4. MintedOK'
    BY DEF IInv, TypeOK, MintedOK, At, Arm
  <1>5. EntryOK'
    BY DEF IInv, TypeOK, LockOK, IdsOK, EntryOK, Unrecorded, At, Arm
  <1>6. CheckedOK'
    BY DEF IInv, TypeOK, CheckedOK, At, Arm
  <1>7. TrackedOK'
    <2>1. \A n \in Mints : mint'[n].pc \in {"recorded", "checked"} => mint'[n] = mint[n]
      BY DEF Arm, IInv, TypeOK
    <2>2. QED BY <2>1 DEF Arm, IInv, TrackedOK
  <1>8. RefusedForCause'
    <2>1. \A n \in Mints : mint'[n].pc = "refused" => mint'[n] = mint[n]
      BY DEF Arm, IInv, TypeOK
    <2>2. QED BY <2>1 DEF Arm, IInv, RefusedForCause, At
  <1>9. QED BY <1>1, <1>2, <1>3, <1>4, <1>5, <1>6, <1>7, <1>8 DEF IInv

\* A new object has a new birth; what it displaces on its handle was dead, and
\* the lock keeps checks away until it is recorded.
LEMMA MintNativeStep ==
  ASSUME IInv, NEW m \in Mints, MintNative(m)
  PROVE  IInv'
  <1>1. TypeOK'
    BY LifetimeAssumption DEF IInv, TypeOK, PC, MintNative, Alive
  <1>2. LockOK'
    BY LifetimeAssumption DEF IInv, TypeOK, LockOK, At, Free, MintNative, Alive
  <1>3. IdsOK'
    BY DEF IInv, TypeOK, IdsOK, At, MintNative, Alive
  <1>4. MintedOK'
    <2>1. /\ foreign' = foreign /\ lock = Free
          /\ obj'[mint'[m].handle].birth = mint'[m].born
          /\ \A n \in Mints : n # m => mint'[n] = mint[n]
      BY DEF IInv, TypeOK, MintNative
    <2>2. \A n \in Mints : ~At(n, "minted")
      BY <2>1, LifetimeAssumption DEF IInv, LockOK, At
    <2>3. QED BY <2>1, <2>2 DEF MintedOK, At
  <1>5. EntryOK'
    <2>1. PICK h \in Handles :
             /\ mint'[m].pc = "minted" /\ mint'[m].handle = h /\ mint'[m].lifetime = 0
             /\ \A k \in Handles : k # h => obj'[k] = obj[k]
      BY DEF IInv, TypeOK, IdsOK, At, MintNative
    <2>2. /\ UNCHANGED <<entries, foreign>> /\ lock = Free
          /\ \A n \in Mints : n # m => mint'[n] = mint[n]
      BY DEF IInv, TypeOK, MintNative
    <2>3. \A n \in Mints : ~At(n, "minted")
      BY <2>2, LifetimeAssumption DEF IInv, LockOK, At
    <2>4. \A k \in Handles : k = h => (\E n \in Mints : Unrecorded(n, k))'
      BY <2>1 DEF Unrecorded, At
    <2>5. QED BY <2>1, <2>2, <2>3, <2>4 DEF IInv, EntryOK, Unrecorded
  <1>6. CheckedOK'
    BY DEF IInv, TypeOK, CheckedOK, At, MintNative, Alive
  <1>7. TrackedOK'
    <2>1. PICK h \in Handles :
             /\ obj'[h].birth = births + 1
             /\ \A k \in Handles : k # h => obj'[k] = obj[k]
      BY DEF IInv, TypeOK, MintNative
    <2>2. /\ mint'[m].pc = "minted" /\ UNCHANGED <<sess, entries>>
          /\ \A n \in Mints : n # m => mint'[n] = mint[n]
      BY DEF IInv, TypeOK, MintNative
    <2>3. \A n \in Mints : mint[n].handle \in Handles /\ mint[n].born # births + 1
      BY DEF IInv, TypeOK
    <2>4. QED BY <2>1, <2>2, <2>3 DEF IInv, TrackedOK
  <1>8. RefusedForCause'
    BY DEF IInv, TypeOK, RefusedForCause, At, MintNative, Alive
  <1>9. QED BY <1>1, <1>2, <1>3, <1>4, <1>5, <1>6, <1>7, <1>8 DEF IInv

\* A recorded mint has a lifetime of its own, or none at all.
LEMMA MintRecordStep ==
  ASSUME IInv, NEW m \in Mints, MintRecord(m)
  PROVE  IInv'
  <1>1. TypeOK'
    <2> DEFINE fresh == IF entries[mint[m].handle].lifetime = 0 THEN next ELSE 0
    <2>1. mint[m] \in MintRec(opens, births, next) /\ next \in Nat \ {0}
      BY DEF IInv, TypeOK, MintRec
    <2>2. mint'[m] = [mint[m] EXCEPT !.pc = "recorded", !.lifetime = fresh]
      BY DEF MintRecord, IInv, TypeOK
    <2>3. fresh \in 0 .. next /\ "recorded" \in PC
      BY <2>1 DEF PC
    <2>4. mint'[m] \in MintRec(opens, births, next)
      BY <2>1, <2>2, <2>3 DEF MintRec
    <2>5. mint' \in [Mints -> MintRec(opens, births, next)]
      BY <2>4 DEF MintRecord, IInv, TypeOK, MintRec
    <2>6. entries' \in [Handles -> [lifetime : 0 .. next, owner : Sessions]]
      BY <2>1 DEF MintRecord, IInv, TypeOK, MintRec
    <2>7. QED BY <2>5, <2>6, LifetimeAssumption DEF MintRecord, IInv, TypeOK, MintRec
  <1>2. LockOK'
    BY LifetimeAssumption DEF IInv, TypeOK, LockOK, At, Free, MintRecord
  <1>3. IdsOK'
    <2>1. /\ mint[m].pc = "minted" /\ mint'[m].pc = "recorded"
          /\ mint'[m].born = mint[m].born /\ mint'[m].incarnation = mint[m].incarnation
          /\ mint'[m].lifetime \in {0, next}
          /\ foreign' = foreign
          /\ \A n \in Mints : n # m => mint'[n] = mint[n]
      BY DEF IInv, TypeOK, At, MintRecord
    <2>2. \A n \in Mints : mint[n].lifetime # next
      BY DEF IInv, TypeOK
    <2>3. QED BY <2>1, <2>2 DEF IInv, IdsOK
  <1>4. MintedOK'
    BY DEF IInv, TypeOK, MintedOK, At, MintRecord
  <1>5. EntryOK'
    BY DEF IInv, TypeOK, LockOK, EntryOK, Unrecorded, At, MintRecord
  <1>6. CheckedOK'
    BY DEF IInv, TypeOK, LockOK, CheckedOK, At, MintRecord
  <1>7. TrackedOK'
    <2> DEFINE h == mint[m].handle
    <2>1. \A n \in Mints : n # m => mint'[n] = mint[n] /\ mint[n].pc \notin {"minted", "checked"}
      BY DEF MintRecord, IInv, TypeOK, LockOK, At
    <2>2. SUFFICES ASSUME NEW n \in Mints, mint'[n].pc \in {"recorded", "checked"},
                          mint'[n].lifetime # 0,
                          obj[mint'[n].handle].birth = mint'[n].born,
                          sess[mint'[n].session] = mint'[n].incarnation
                   PROVE  entries'[mint'[n].handle]
                            = [lifetime |-> mint'[n].lifetime, owner |-> mint'[n].session]
      BY DEF TrackedOK, MintRecord
    <2>3. CASE n = m
      BY <2>2, <2>3 DEF MintRecord, IInv, TypeOK
    <2>4. CASE n # m
      <3>1. mint[n].born # 0 /\ mint[n].born # mint[m].born
        BY <2>1, <2>2, <2>4 DEF IInv, IdsOK
      <3>2. mint[n].handle # h
        BY <2>1, <2>2, <2>4, <3>1 DEF IInv, IdsOK, MintedOK, MintRecord, At
      <3>3. entries'[mint[n].handle] = entries[mint[n].handle]
        BY <3>2 DEF MintRecord, IInv, TypeOK
      <3>4. QED BY <2>1, <2>2, <2>4, <3>3 DEF IInv, TrackedOK
    <2>5. QED BY <2>3, <2>4
  <1>8. RefusedForCause'
    BY DEF IInv, TypeOK, RefusedForCause, At, MintRecord
  <1>9. QED BY <1>1, <1>2, <1>3, <1>4, <1>5, <1>6, <1>7, <1>8 DEF IInv

\* A found object gets a lifetime no mint has, or its entry is kept.
LEMMA FindStep ==
  ASSUME IInv, NEW s \in Sessions, NEW h \in Handles, Find(s, h)
  PROVE  IInv'
  <1>1. UNCHANGED <<obj, births, foreign, sess, opens, lock, mint>>
    BY DEF Find
  <1>2. \/ UNCHANGED <<next, entries>>
        \/ /\ next' = next + 1 /\ entries[h].lifetime = 0
           /\ entries' = [entries EXCEPT ![h] = [lifetime |-> next, owner |-> s]]
    BY DEF Find, RecordIfAbsent
  <1>3. TypeOK'
    BY <1>1, <1>2 DEF IInv, TypeOK
  <1>4. \A k \in Handles :
          \/ entries'[k] = entries[k]
          \/ entries[k].lifetime = 0 /\ \A n \in Mints : mint[n].lifetime # entries'[k].lifetime
    BY <1>2 DEF IInv, TypeOK
  <1>5. \A n \in Mints : mint[n].handle \in Handles
    BY DEF IInv, TypeOK
  <1>6. LockOK' /\ IdsOK' /\ MintedOK' /\ RefusedForCause'
    BY <1>1 DEF IInv, LockOK, IdsOK, MintedOK, RefusedForCause, At
  <1>7. EntryOK'
    BY <1>1, <1>4 DEF IInv, EntryOK, Unrecorded, At
  <1>8. CheckedOK'
    BY <1>1, <1>4, <1>5 DEF IInv, CheckedOK, At
  <1>9. TrackedOK'
    <2>1. SUFFICES ASSUME NEW n \in Mints, mint[n].pc \in {"recorded", "checked"},
                          mint[n].lifetime # 0,
                          obj[mint[n].handle].birth = mint[n].born,
                          sess[mint[n].session] = mint[n].incarnation
                   PROVE  entries'[mint[n].handle]
                            = [lifetime |-> mint[n].lifetime, owner |-> mint[n].session]
      BY <1>1 DEF TrackedOK
    <2>2. entries[mint[n].handle]
            = [lifetime |-> mint[n].lifetime, owner |-> mint[n].session]
      BY <2>1 DEF IInv, TrackedOK
    <2>3. entries[mint[n].handle].lifetime # 0
      BY <2>1, <2>2
    <2>4. QED BY <1>4, <1>5, <2>2, <2>3
  <1>10. QED BY <1>3, <1>6, <1>7, <1>8, <1>9 DEF IInv

\* A plain destroy takes the object and its entry together.
LEMMA DestroyStep ==
  ASSUME IInv, NEW h \in Handles, Destroy(h)
  PROVE  IInv'
  <1>1. TypeOK'
    BY LifetimeAssumption DEF IInv, TypeOK, PC, NoObject, NoEntry, Destroy, Alive
  <1>2. LockOK'
    BY DEF IInv, LockOK, At, Destroy, Alive
  <1>3. IdsOK'
    BY DEF IInv, IdsOK, At, Destroy, Alive
  <1>4. MintedOK'
    BY DEF IInv, MintedOK, At, NoObject, Destroy, Alive
  <1>5. EntryOK'
    BY DEF IInv, EntryOK, Unrecorded, At, NoObject, NoEntry, Destroy, Alive
  <1>6. CheckedOK'
    BY LifetimeAssumption DEF IInv, TypeOK, LockOK, CheckedOK, At, NoEntry, Destroy, Alive
  <1>7. TrackedOK'
    BY DEF IInv, TypeOK, IdsOK, TrackedOK, NoObject, NoEntry, Destroy, Alive
  <1>8. RefusedForCause'
    BY DEF IInv, TypeOK, IdsOK, RefusedForCause, At, NoObject, Destroy, Alive
  <1>9. QED BY <1>1, <1>2, <1>3, <1>4, <1>5, <1>6, <1>7, <1>8 DEF IInv

\* A close drops the entries of its sessions, whose mints lose their
\* incarnation.
LEMMA CloseStep ==
  ASSUME IInv, NEW S \in SUBSET Sessions, Close(S)
  PROVE  IInv'
  <1>1. TypeOK'
    BY LifetimeAssumption DEF IInv, TypeOK, PC, NoObject, NoEntry, Close, DieWith, DropSessions
  <1>2. LockOK'
    BY DEF IInv, LockOK, At, Close, DieWith, DropSessions
  <1>3. IdsOK'
    BY DEF IInv, IdsOK, At, Close, DieWith, DropSessions
  <1>4. MintedOK'
    BY DEF IInv, TypeOK, MintedOK, At, NoObject, Close, DieWith, DropSessions
  <1>5. EntryOK'
    BY DEF IInv, EntryOK, Unrecorded, At, NoObject, NoEntry, Close, DieWith, DropSessions
  <1>6. CheckedOK'
    BY LifetimeAssumption 
       DEF IInv, TypeOK, LockOK, CheckedOK, At, NoEntry, Close, DieWith, DropSessions
  <1>7. TrackedOK'
    <2>1. SUFFICES ASSUME NEW n \in Mints, mint[n].pc \in {"recorded", "checked"},
                          mint[n].lifetime # 0,
                          obj'[mint[n].handle].birth = mint[n].born,
                          sess'[mint[n].session] = mint[n].incarnation
                   PROVE  entries'[mint[n].handle]
                            = [lifetime |-> mint[n].lifetime, owner |-> mint[n].session]
      BY DEF TrackedOK, Close
    <2>2. mint[n].handle \in Handles /\ mint[n].session \in Sessions
      BY DEF IInv, TypeOK
    <2>3. mint[n].born # 0 /\ mint[n].incarnation # 0
      BY <2>1 DEF IInv, IdsOK
    <2>4. obj[mint[n].handle].birth = mint[n].born
      BY <2>1, <2>2, <2>3 DEF Close, DieWith, NoObject
    <2>5. mint[n].session \notin S /\ sess[mint[n].session] = mint[n].incarnation
      BY <2>1, <2>2, <2>3 DEF Close
    <2>6. entries[mint[n].handle]
            = [lifetime |-> mint[n].lifetime, owner |-> mint[n].session]
      BY <2>1, <2>4, <2>5 DEF IInv, TrackedOK
    <2>7. entries[mint[n].handle].owner \notin S
      BY <2>5, <2>6
    <2>8. QED BY <2>2, <2>6, <2>7 DEF Close, DropSessions
  <1>8. RefusedForCause'
    BY DEF IInv, TypeOK, IdsOK, RefusedForCause, At, NoObject, Close, DieWith, DropSessions
  <1>9. QED BY <1>1, <1>2, <1>3, <1>4, <1>5, <1>6, <1>7, <1>8 DEF IInv

\* A finalize leaves no object, no entry and no session.
LEMMA FinalizeStep ==
  ASSUME IInv, Finalize
  PROVE  IInv'
  <1>1. TypeOK'
    BY LifetimeAssumption DEF IInv, TypeOK, PC, NoObject, NoEntry, Finalize
  <1>2. LockOK'
    BY DEF IInv, LockOK, At, Finalize
  <1>3. IdsOK'
    BY DEF IInv, IdsOK, At, Finalize
  <1>4. MintedOK'
    BY DEF IInv, TypeOK, MintedOK, At, NoObject, Finalize
  <1>5. EntryOK'
    BY DEF IInv, EntryOK, Unrecorded, At, NoObject, NoEntry, Finalize
  <1>6. CheckedOK'
    BY LifetimeAssumption DEF IInv, TypeOK, LockOK, CheckedOK, At, NoEntry, Finalize
  <1>7. TrackedOK'
    BY DEF IInv, TypeOK, IdsOK, TrackedOK, NoObject, NoEntry, Finalize
  <1>8. RefusedForCause'
    BY DEF IInv, TypeOK, IdsOK, RefusedForCause, At, NoObject, Finalize
  <1>9. QED BY <1>1, <1>2, <1>3, <1>4, <1>5, <1>6, <1>7, <1>8 DEF IInv

\* A logout only kills objects.
LEMMA LogoutStep ==
  ASSUME IInv, NEW s \in Sessions, Logout(s)
  PROVE  IInv'
  <1>1. TypeOK'
    BY LifetimeAssumption DEF IInv, TypeOK, PC, NoObject, Logout
  <1>2. LockOK'
    BY DEF IInv, LockOK, At, Logout
  <1>3. IdsOK'
    BY DEF IInv, IdsOK, At, Logout
  <1>4. MintedOK'
    BY DEF IInv, TypeOK, MintedOK, At, NoObject, Logout
  <1>5. EntryOK'
    BY DEF IInv, EntryOK, Unrecorded, At, NoObject, Logout
  <1>6. CheckedOK'
    BY DEF IInv, CheckedOK, At, Logout
  <1>7. TrackedOK'
    BY DEF IInv, TypeOK, IdsOK, TrackedOK, NoObject, Logout
  <1>8. RefusedForCause'
    BY DEF IInv, TypeOK, IdsOK, RefusedForCause, At, NoObject, Logout
  <1>9. QED BY <1>1, <1>2, <1>3, <1>4, <1>5, <1>6, <1>7, <1>8 DEF IInv

\* A foreign object has a birth no mint has.
LEMMA ForeignBirthStep ==
  ASSUME IInv, NEW h \in Handles, ForeignBirth(h)
  PROVE  IInv'
  <1>1. /\ births' = births + 1 /\ foreign' = foreign \cup {births + 1}
        /\ obj[h].birth = 0 /\ obj'[h] = [birth |-> births + 1, on |-> "token"]
        /\ \A k \in Handles : k # h => obj'[k] = obj[k]
        /\ UNCHANGED <<sess, opens, entries, next, lock, mint>>
    BY DEF IInv, TypeOK, ForeignBirth, Alive
  <1>2. \A n \in Mints : mint[n].handle \in Handles /\ mint[n].born # births + 1
    BY DEF IInv, TypeOK
  <1>3. TypeOK'
    <2>1. births \in Nat /\ foreign \subseteq 1 .. births
      BY DEF IInv, TypeOK
    <2>2. births' \in Nat /\ foreign' \subseteq 1 .. births'
      BY <1>1, <2>1
    <2>3. obj' \in [Handles -> [birth : 0 .. births + 1, on : Sessions \cup {"token"}]]
      BY <2>1 DEF IInv, TypeOK, ForeignBirth
    <2>4. mint' \in [Mints -> MintRec(opens, births + 1, next - 1)]
      BY <1>1, <2>1 DEF IInv, TypeOK, MintRec
    <2>5. QED BY <1>1, <2>2, <2>3, <2>4 DEF IInv, TypeOK, MintRec
  <1>4. LockOK'
    BY <1>1 DEF IInv, LockOK
  <1>5. IdsOK'
    BY <1>1, <1>2 DEF IInv, IdsOK
  <1>6. MintedOK'
    BY <1>1, <1>2 DEF IInv, MintedOK, At
  <1>7. EntryOK'
    BY <1>1, <1>2 DEF IInv, EntryOK, Unrecorded, At
  <1>8. CheckedOK'
    BY <1>1 DEF IInv, CheckedOK, At
  <1>9. TrackedOK'
    BY <1>1, <1>2 DEF IInv, TrackedOK
  <1>10. RefusedForCause'
    BY <1>1, <1>2 DEF IInv, RefusedForCause, At
  <1>11. QED BY <1>3, <1>4, <1>5, <1>6, <1>7, <1>8, <1>9, <1>10 DEF IInv

\* Another process only kills objects.
LEMMA ForeignDeathStep ==
  ASSUME IInv, NEW h \in Handles, ForeignDeath(h)
  PROVE  IInv'
  <1>1. TypeOK'
    BY LifetimeAssumption DEF IInv, TypeOK, PC, NoObject, ForeignDeath
  <1>2. LockOK'
    BY DEF IInv, LockOK, At, ForeignDeath
  <1>3. IdsOK'
    BY DEF IInv, IdsOK, At, ForeignDeath
  <1>4. MintedOK'
    BY DEF IInv, TypeOK, MintedOK, At, NoObject, ForeignDeath
  <1>5. EntryOK'
    BY DEF IInv, TypeOK, EntryOK, Unrecorded, At, NoObject, ForeignDeath
  <1>6. CheckedOK'
    BY DEF IInv, CheckedOK, At, ForeignDeath
  <1>7. TrackedOK'
    BY DEF IInv, TypeOK, IdsOK, TrackedOK, NoObject, ForeignDeath
  <1>8. RefusedForCause'
    BY DEF IInv, TypeOK, IdsOK, RefusedForCause, At, NoObject, ForeignDeath
  <1>9. QED BY <1>1, <1>2, <1>3, <1>4, <1>5, <1>6, <1>7, <1>8 DEF IInv

-----------------------------------------------------------------------------
(* The theorems. *)

\* The invariant holds initially: nothing exists and no mint has begun.
LEMMA InitOK == Init => IInv
  <1> SUFFICES ASSUME Init PROVE IInv
    OBVIOUS
  <1>1. TypeOK
    BY LifetimeAssumption DEF Init, TypeOK, NoObject, NoEntry, PC
  <1>2. LockOK
    BY LifetimeAssumption DEF Init, LockOK
  <1>3. IdsOK /\ MintedOK /\ EntryOK /\ CheckedOK /\ TrackedOK /\ RefusedForCause
    BY DEF Init, IdsOK, MintedOK, EntryOK, CheckedOK, TrackedOK, RefusedForCause, At
  <1>4. QED BY <1>1, <1>2, <1>3 DEF IInv

\* Every step keeps the invariant.
LEMMA NextOK == IInv /\ [Next]_vars => IInv'
  <1> SUFFICES ASSUME IInv, [Next]_vars PROVE IInv'
    OBVIOUS
  <1>1. CASE \E m \in Mints : MintStep(m)
    BY <1>1, MintNativeStep, MintFailsStep, MintRecordStep, CallerGoneStep, AdoptStep,
       SettleShedStep, BoundCheckStep, BoundDestroyStep DEF MintStep
  <1>2. CASE \E m \in Mints, s \in Sessions : Arm(m, s)
    BY <1>2, ArmStep
  <1>3. CASE \E s \in Sessions : OpenSession(s) \/ Close({s}) \/ Logout(s)
    BY <1>3, OpenSessionStep, CloseStep, LogoutStep
  <1>4. CASE Close(Sessions)
    BY <1>4, CloseStep
  <1>5. CASE Finalize
    BY <1>5, FinalizeStep
  <1>6. CASE \E h \in Handles : Destroy(h) \/ ForeignBirth(h) \/ ForeignDeath(h)
    BY <1>6, DestroyStep, ForeignBirthStep, ForeignDeathStep
  <1>7. CASE \E s \in Sessions, h \in Handles : Find(s, h)
    BY <1>7, FindStep
  <1>8. CASE UNCHANGED vars
    BY <1>8 DEF vars, IInv, TypeOK, LockOK, IdsOK, MintedOK, EntryOK, Unrecorded,
                CheckedOK, TrackedOK, RefusedForCause, At
  <1>9. QED BY <1>1, <1>2, <1>3, <1>4, <1>5, <1>6, <1>7, <1>8 DEF Next

\* The tables, the lock and the mints keep their types.
THEOREM TypeCorrect == Spec => []TypeOK
  <1>1. IInv => TypeOK
    BY DEF IInv
  <1>2. QED BY <1>1, InitOK, NextOK, PTL DEF Spec

\* destroy_object_if_bound: whatever the provider does with the handle, a
\* settlement that has passed its check never destroys the object of another
\* mint of this proxy.  Foreign objects are not spared.
THEOREM BoundDestroySafe == Spec => []DestroySparesOtherMints
  <1>1. IInv => DestroySparesOtherMints
    <2> SUFFICES ASSUME IInv, NEW m \in Mints, At(m, "checked")
                 PROVE  obj[mint[m].handle].birth \in {0, mint[m].born} \cup foreign
      BY DEF DestroySparesOtherMints
    <2>1. ~\E n \in Mints : Unrecorded(n, mint[m].handle)
      BY DEF IInv, LockOK, Unrecorded, At
    <2>2. mint[m].handle \in Handles
      BY DEF IInv, TypeOK
    <2>3. QED BY <2>1, <2>2 DEF IInv, CheckedOK, EntryOK
  <1>2. QED BY <1>1, InitOK, NextOK, PTL DEF Spec

\* destroy_object_if_bound: a settlement is refused only when its object is
\* dead, its session is closed or its capture was poisoned, so that no object
\* is left behind without one of these reasons.
THEOREM RefusalJustified == Spec => []RefusedForCause
  <1>1. IInv => RefusedForCause
    BY DEF IInv
  <1>2. QED BY <1>1, InitOK, NextOK, PTL DEF Spec
=============================================================================
