------------------------- MODULE StoreRegistryProofs -------------------------
(****************************************************************************)
(* Proofs about StoreRegistry, for any number of threads, identities and    *)
(* store objects.                                                           *)
(*                                                                          *)
(* The four safety properties support each other: a registered store stays  *)
(* open only because nobody else can be about to close it, and that needs   *)
(* to know who may hold which store.  Ownership is the strengthening: a     *)
(* store sits under its own identity, and a thread that is about to         *)
(* register or to close a store is its only owner.                          *)
(****************************************************************************)
EXTENDS StoreRegistry, TLAPS

(* A registered store is under the identity it was opened with, hence under *)
(* no other.                                                                *)
RegisteredUnderItsIdentity ==
  \A k \in Key : reg[k] # NoStore => owner[reg[k]] = k

(* A store that is not registered yet, or no longer, has one exclusive      *)
(* holder: its opener, or the thread that removed it.                       *)
ExclusivelyHeld ==
  \A t \in Thread :
    pc[t] \in {"register", "closing"} =>
      /\ \A k \in Key : reg[k] # held[t]
      /\ \A u \in Thread : u # t /\ pc[u] \in {"register", "closing"} => held[u] # held[t]

(* Only its opener knows a store that waits to be registered. *)
PrivateUntilRegistered ==
  \A t \in Thread :
    pc[t] = "register" =>
      /\ held[t] \in opened
      /\ owner[held[t]] = key[t]
      /\ \A u \in Thread : u # t => held[u] # held[t]

Inv ==
  /\ TypeOK
  /\ RegisteredIsOpen
  /\ RegisteredUnderItsIdentity
  /\ ExclusivelyHeld
  /\ PrivateUntilRegistered
  /\ UsesItsOwnIdentity
  /\ NoLeakedConnection
  /\ OneStorePerIdentity

LEMMA InitInv == Init => Inv
  BY NoStoreAssumption, NoKeyAssumption
  DEF Init, Inv, TypeOK, Labels, Outcomes, Holding, RegisteredIsOpen,
      RegisteredUnderItsIdentity, ExclusivelyHeld, PrivateUntilRegistered,
      UsesItsOwnIdentity, NoLeakedConnection, OneStorePerIdentity

-----------------------------------------------------------------------------
LEMMA TypeStep == TypeOK /\ [Next]_vars => TypeOK'
<1> SUFFICES ASSUME TypeOK, [Next]_vars PROVE TypeOK'
  OBVIOUS
<1> USE NoStoreAssumption, NoKeyAssumption DEF TypeOK, Labels, Outcomes, Holding, Goto, Finish
<1>1. ASSUME NEW t \in Thread, NEW k \in Key, Call(t, k) PROVE TypeOK'
  BY <1>1 DEF Call
<1>2. ASSUME NEW t \in Thread, NEW k \in Key, CallClose(t, k) PROVE TypeOK'
  BY <1>2 DEF CallClose
<1>3. ASSUME NEW t \in Thread, LookupHit(t) PROVE TypeOK'
  BY <1>3 DEF LookupHit
<1>4. ASSUME NEW t \in Thread, LookupMiss(t) PROVE TypeOK'
  BY <1>4 DEF LookupMiss
<1>5. ASSUME NEW t \in Thread, Open(t) PROVE TypeOK'
  BY <1>5 DEF Open
<1>6. ASSUME NEW t \in Thread, OpenFails(t) PROVE TypeOK'
  BY <1>6 DEF OpenFails
<1>7. ASSUME NEW t \in Thread, RegisterFirst(t) PROVE TypeOK'
  BY <1>7 DEF RegisterFirst
<1>8. ASSUME NEW t \in Thread, RegisterLoser(t) PROVE TypeOK'
  BY <1>8 DEF RegisterLoser
<1>9. ASSUME NEW t \in Thread, Use(t) \/ WarmUp(t) PROVE TypeOK'
  BY <1>9 DEF Use, WarmUp
<1>10. ASSUME NEW t \in Thread, RemoveEntry(t) PROVE TypeOK'
  BY <1>10 DEF RemoveEntry
<1>11. ASSUME NEW t \in Thread, RemoveNothing(t) PROVE TypeOK'
  BY <1>11 DEF RemoveNothing
<1>12. ASSUME NEW t \in Thread, TakeConnection(t) PROVE TypeOK'
  BY <1>12 DEF TakeConnection
<1>13. CASE Exit
  BY <1>13 DEF Exit
<1>14. CASE UNCHANGED vars
  BY <1>14 DEF vars
<1> QED
  BY <1>1, <1>2, <1>3, <1>4, <1>5, <1>6, <1>7, <1>8, <1>9, <1>10, <1>11, <1>12,
     <1>13, <1>14 DEF Next, Step

-----------------------------------------------------------------------------
(****************************************************************************)
(* The other conjuncts, one lemma per conjunct, one step per action.        *)
(****************************************************************************)
LEMMA Cases ==
  ASSUME [Next]_vars
  PROVE  \/ UNCHANGED vars
         \/ Exit
         \/ \E t \in Thread :
              \/ \E k \in Key : Call(t, k) \/ CallClose(t, k)
              \/ LookupHit(t) \/ LookupMiss(t) \/ Open(t) \/ OpenFails(t)
              \/ RegisterFirst(t) \/ RegisterLoser(t) \/ Use(t) \/ WarmUp(t)
              \/ RemoveEntry(t) \/ RemoveNothing(t) \/ TakeConnection(t)
  BY DEF Next, Step

LEMMA RegisteredIsOpenStep ==
  Inv /\ [Next]_vars => RegisteredIsOpen'
<1> SUFFICES ASSUME Inv, [Next]_vars PROVE RegisteredIsOpen'
  OBVIOUS
<1>1. TypeOK /\ RegisteredIsOpen /\ ExclusivelyHeld /\ PrivateUntilRegistered
  BY DEF Inv
<1> USE NoStoreAssumption, NoKeyAssumption, <1>1 DEF TypeOK, Labels, Outcomes, Holding, Goto, Finish, RegisteredIsOpen, ExclusivelyHeld, PrivateUntilRegistered
<1>2. ASSUME NEW t \in Thread, NEW k \in Key, Call(t, k) \/ CallClose(t, k) PROVE RegisteredIsOpen'
  BY <1>2 DEF Call, CallClose
<1>3. ASSUME NEW t \in Thread, Open(t) PROVE RegisteredIsOpen'
  BY <1>3 DEF Open, Unreachable
<1>4. ASSUME NEW t \in Thread, OpenFails(t) PROVE RegisteredIsOpen'
  BY <1>4 DEF OpenFails
<1>5. ASSUME NEW t \in Thread, RegisterFirst(t) PROVE RegisteredIsOpen'
  BY <1>5 DEF RegisterFirst
<1>6. ASSUME NEW t \in Thread, RegisterLoser(t) PROVE RegisteredIsOpen'
  BY <1>6 DEF RegisterLoser
<1>7. ASSUME NEW t \in Thread, LookupHit(t) PROVE RegisteredIsOpen'
  BY <1>7 DEF LookupHit
<1>8. ASSUME NEW t \in Thread, LookupMiss(t) PROVE RegisteredIsOpen'
  BY <1>8 DEF LookupMiss
<1>9. ASSUME NEW t \in Thread, Use(t) \/ WarmUp(t) PROVE RegisteredIsOpen'
  BY <1>9 DEF Use, WarmUp
<1>10. ASSUME NEW t \in Thread, RemoveEntry(t) PROVE RegisteredIsOpen'
  BY <1>10 DEF RemoveEntry
<1>11. ASSUME NEW t \in Thread, RemoveNothing(t) PROVE RegisteredIsOpen'
  BY <1>11 DEF RemoveNothing
<1>12. ASSUME NEW t \in Thread, TakeConnection(t) PROVE RegisteredIsOpen'
  BY <1>12 DEF TakeConnection
<1>13. CASE Exit
  BY <1>13 DEF Exit
<1>14. CASE UNCHANGED vars
  BY <1>14 DEF vars
<1> QED
  BY Cases, <1>2, <1>3, <1>4, <1>5, <1>6, <1>7, <1>8, <1>9, <1>10, <1>11, <1>12, <1>13, <1>14

LEMMA IdentityStep ==
  Inv /\ [Next]_vars => RegisteredUnderItsIdentity'
<1> SUFFICES ASSUME Inv, [Next]_vars PROVE RegisteredUnderItsIdentity'
  OBVIOUS
<1>1. TypeOK /\ RegisteredUnderItsIdentity /\ PrivateUntilRegistered
  BY DEF Inv
<1> USE NoStoreAssumption, NoKeyAssumption, <1>1 DEF TypeOK, Labels, Outcomes, Holding, Goto, Finish, RegisteredUnderItsIdentity, PrivateUntilRegistered
<1>2. ASSUME NEW t \in Thread, NEW k \in Key, Call(t, k) \/ CallClose(t, k) PROVE RegisteredUnderItsIdentity'
  BY <1>2 DEF Call, CallClose
<1>3. ASSUME NEW t \in Thread, Open(t) PROVE RegisteredUnderItsIdentity'
  BY <1>3 DEF Open, Unreachable
<1>4. ASSUME NEW t \in Thread, OpenFails(t) PROVE RegisteredUnderItsIdentity'
  BY <1>4 DEF OpenFails
<1>5. ASSUME NEW t \in Thread, RegisterFirst(t) PROVE RegisteredUnderItsIdentity'
  BY <1>5 DEF RegisterFirst
<1>6. ASSUME NEW t \in Thread, RegisterLoser(t) PROVE RegisteredUnderItsIdentity'
  BY <1>6 DEF RegisterLoser
<1>7. ASSUME NEW t \in Thread, LookupHit(t) PROVE RegisteredUnderItsIdentity'
  BY <1>7 DEF LookupHit
<1>8. ASSUME NEW t \in Thread, LookupMiss(t) PROVE RegisteredUnderItsIdentity'
  BY <1>8 DEF LookupMiss
<1>9. ASSUME NEW t \in Thread, Use(t) \/ WarmUp(t) PROVE RegisteredUnderItsIdentity'
  BY <1>9 DEF Use, WarmUp
<1>10. ASSUME NEW t \in Thread, RemoveEntry(t) PROVE RegisteredUnderItsIdentity'
  BY <1>10 DEF RemoveEntry
<1>11. ASSUME NEW t \in Thread, RemoveNothing(t) PROVE RegisteredUnderItsIdentity'
  BY <1>11 DEF RemoveNothing
<1>12. ASSUME NEW t \in Thread, TakeConnection(t) PROVE RegisteredUnderItsIdentity'
  BY <1>12 DEF TakeConnection
<1>13. CASE Exit
  BY <1>13 DEF Exit
<1>14. CASE UNCHANGED vars
  BY <1>14 DEF vars
<1> QED
  BY Cases, <1>2, <1>3, <1>4, <1>5, <1>6, <1>7, <1>8, <1>9, <1>10, <1>11, <1>12, <1>13, <1>14

LEMMA ExclusivelyHeldStep ==
  Inv /\ [Next]_vars => ExclusivelyHeld'
<1> SUFFICES ASSUME Inv, [Next]_vars PROVE ExclusivelyHeld'
  OBVIOUS
<1>1. TypeOK /\ ExclusivelyHeld /\ RegisteredUnderItsIdentity /\ PrivateUntilRegistered
  BY DEF Inv
<1> USE NoStoreAssumption, NoKeyAssumption, <1>1 DEF TypeOK, Labels, Outcomes, Holding, Goto, Finish, ExclusivelyHeld, RegisteredUnderItsIdentity, PrivateUntilRegistered
<1>2. ASSUME NEW t \in Thread, NEW k \in Key, Call(t, k) \/ CallClose(t, k) PROVE ExclusivelyHeld'
  BY <1>2 DEF Call, CallClose
<1>3. ASSUME NEW t \in Thread, Open(t) PROVE ExclusivelyHeld'
  BY <1>3 DEF Open, Unreachable
<1>4. ASSUME NEW t \in Thread, OpenFails(t) PROVE ExclusivelyHeld'
  BY <1>4 DEF OpenFails
<1>5. ASSUME NEW t \in Thread, RegisterFirst(t) PROVE ExclusivelyHeld'
  BY <1>5 DEF RegisterFirst
<1>6. ASSUME NEW t \in Thread, RegisterLoser(t) PROVE ExclusivelyHeld'
  BY <1>6 DEF RegisterLoser
<1>7. ASSUME NEW t \in Thread, LookupHit(t) PROVE ExclusivelyHeld'
  BY <1>7 DEF LookupHit
<1>8. ASSUME NEW t \in Thread, LookupMiss(t) PROVE ExclusivelyHeld'
  BY <1>8 DEF LookupMiss
<1>9. ASSUME NEW t \in Thread, Use(t) \/ WarmUp(t) PROVE ExclusivelyHeld'
  BY <1>9 DEF Use, WarmUp
<1>10. ASSUME NEW t \in Thread, RemoveEntry(t) PROVE ExclusivelyHeld'
  BY <1>10 DEF RemoveEntry
<1>11. ASSUME NEW t \in Thread, RemoveNothing(t) PROVE ExclusivelyHeld'
  BY <1>11 DEF RemoveNothing
<1>12. ASSUME NEW t \in Thread, TakeConnection(t) PROVE ExclusivelyHeld'
  BY <1>12 DEF TakeConnection
<1>13. CASE Exit
  BY <1>13 DEF Exit
<1>14. CASE UNCHANGED vars
  BY <1>14 DEF vars
<1> QED
  BY Cases, <1>2, <1>3, <1>4, <1>5, <1>6, <1>7, <1>8, <1>9, <1>10, <1>11, <1>12, <1>13, <1>14

LEMMA PrivateStep ==
  Inv /\ [Next]_vars => PrivateUntilRegistered'
<1> SUFFICES ASSUME Inv, [Next]_vars PROVE PrivateUntilRegistered'
  OBVIOUS
<1>1. TypeOK /\ PrivateUntilRegistered /\ ExclusivelyHeld
  BY DEF Inv
<1> USE NoStoreAssumption, NoKeyAssumption, <1>1 DEF TypeOK, Labels, Outcomes, Holding, Goto, Finish, PrivateUntilRegistered, ExclusivelyHeld
<1>2. ASSUME NEW t \in Thread, NEW k \in Key, Call(t, k) \/ CallClose(t, k) PROVE PrivateUntilRegistered'
  BY <1>2 DEF Call, CallClose
<1>3. ASSUME NEW t \in Thread, Open(t) PROVE PrivateUntilRegistered'
  BY <1>3 DEF Open, Unreachable
<1>4. ASSUME NEW t \in Thread, OpenFails(t) PROVE PrivateUntilRegistered'
  BY <1>4 DEF OpenFails
<1>5. ASSUME NEW t \in Thread, RegisterFirst(t) PROVE PrivateUntilRegistered'
  BY <1>5 DEF RegisterFirst
<1>6. ASSUME NEW t \in Thread, RegisterLoser(t) PROVE PrivateUntilRegistered'
  BY <1>6 DEF RegisterLoser
<1>7. ASSUME NEW t \in Thread, LookupHit(t) PROVE PrivateUntilRegistered'
  BY <1>7 DEF LookupHit
<1>8. ASSUME NEW t \in Thread, LookupMiss(t) PROVE PrivateUntilRegistered'
  BY <1>8 DEF LookupMiss
<1>9. ASSUME NEW t \in Thread, Use(t) \/ WarmUp(t) PROVE PrivateUntilRegistered'
  BY <1>9 DEF Use, WarmUp
<1>10. ASSUME NEW t \in Thread, RemoveEntry(t) PROVE PrivateUntilRegistered'
  BY <1>10 DEF RemoveEntry
<1>11. ASSUME NEW t \in Thread, RemoveNothing(t) PROVE PrivateUntilRegistered'
  BY <1>11 DEF RemoveNothing
<1>12. ASSUME NEW t \in Thread, TakeConnection(t) PROVE PrivateUntilRegistered'
  BY <1>12 DEF TakeConnection
<1>13. CASE Exit
  BY <1>13 DEF Exit
<1>14. CASE UNCHANGED vars
  BY <1>14 DEF vars
<1> QED
  BY Cases, <1>2, <1>3, <1>4, <1>5, <1>6, <1>7, <1>8, <1>9, <1>10, <1>11, <1>12, <1>13, <1>14

LEMMA OwnIdentityStep ==
  Inv /\ [Next]_vars => UsesItsOwnIdentity'
<1> SUFFICES ASSUME Inv, [Next]_vars PROVE UsesItsOwnIdentity'
  OBVIOUS
<1>1. TypeOK /\ UsesItsOwnIdentity /\ RegisteredUnderItsIdentity /\ PrivateUntilRegistered
  BY DEF Inv
<1> USE NoStoreAssumption, NoKeyAssumption, <1>1 DEF TypeOK, Labels, Outcomes, Holding, Goto, Finish, UsesItsOwnIdentity, RegisteredUnderItsIdentity, PrivateUntilRegistered
<1>2. ASSUME NEW t \in Thread, NEW k \in Key, Call(t, k) \/ CallClose(t, k) PROVE UsesItsOwnIdentity'
  BY <1>2 DEF Call, CallClose
<1>3. ASSUME NEW t \in Thread, Open(t) PROVE UsesItsOwnIdentity'
  BY <1>3 DEF Open, Unreachable
<1>4. ASSUME NEW t \in Thread, OpenFails(t) PROVE UsesItsOwnIdentity'
  BY <1>4 DEF OpenFails
<1>5. ASSUME NEW t \in Thread, RegisterFirst(t) PROVE UsesItsOwnIdentity'
  BY <1>5 DEF RegisterFirst
<1>6. ASSUME NEW t \in Thread, RegisterLoser(t) PROVE UsesItsOwnIdentity'
  BY <1>6 DEF RegisterLoser
<1>7. ASSUME NEW t \in Thread, LookupHit(t) PROVE UsesItsOwnIdentity'
  BY <1>7 DEF LookupHit
<1>8. ASSUME NEW t \in Thread, LookupMiss(t) PROVE UsesItsOwnIdentity'
  BY <1>8 DEF LookupMiss
<1>9. ASSUME NEW t \in Thread, Use(t) \/ WarmUp(t) PROVE UsesItsOwnIdentity'
  BY <1>9 DEF Use, WarmUp
<1>10. ASSUME NEW t \in Thread, RemoveEntry(t) PROVE UsesItsOwnIdentity'
  BY <1>10 DEF RemoveEntry
<1>11. ASSUME NEW t \in Thread, RemoveNothing(t) PROVE UsesItsOwnIdentity'
  BY <1>11 DEF RemoveNothing
<1>12. ASSUME NEW t \in Thread, TakeConnection(t) PROVE UsesItsOwnIdentity'
  BY <1>12 DEF TakeConnection
<1>13. CASE Exit
  BY <1>13 DEF Exit
<1>14. CASE UNCHANGED vars
  BY <1>14 DEF vars
<1> QED
  BY Cases, <1>2, <1>3, <1>4, <1>5, <1>6, <1>7, <1>8, <1>9, <1>10, <1>11, <1>12, <1>13, <1>14

LEMMA NoLeakStep ==
  Inv /\ [Next]_vars => NoLeakedConnection'
<1> SUFFICES ASSUME Inv, [Next]_vars PROVE NoLeakedConnection'
  OBVIOUS
<1>1. TypeOK /\ NoLeakedConnection /\ ExclusivelyHeld /\ PrivateUntilRegistered
  BY DEF Inv
<1> USE NoStoreAssumption, NoKeyAssumption, <1>1 DEF TypeOK, Labels, Outcomes, Holding, Goto, Finish, NoLeakedConnection, ExclusivelyHeld, PrivateUntilRegistered
<1>2. ASSUME NEW t \in Thread, NEW k \in Key, Call(t, k) \/ CallClose(t, k) PROVE NoLeakedConnection'
  BY <1>2 DEF Call, CallClose
<1>3. ASSUME NEW t \in Thread, Open(t) PROVE NoLeakedConnection'
  BY <1>3 DEF Open, Unreachable
<1>4. ASSUME NEW t \in Thread, OpenFails(t) PROVE NoLeakedConnection'
  BY <1>4 DEF OpenFails
<1>5. ASSUME NEW t \in Thread, RegisterFirst(t) PROVE NoLeakedConnection'
  BY <1>5 DEF RegisterFirst
<1>6. ASSUME NEW t \in Thread, RegisterLoser(t) PROVE NoLeakedConnection'
  BY <1>6 DEF RegisterLoser
<1>7. ASSUME NEW t \in Thread, LookupHit(t) PROVE NoLeakedConnection'
  BY <1>7 DEF LookupHit
<1>8. ASSUME NEW t \in Thread, LookupMiss(t) PROVE NoLeakedConnection'
  BY <1>8 DEF LookupMiss
<1>9. ASSUME NEW t \in Thread, Use(t) \/ WarmUp(t) PROVE NoLeakedConnection'
  BY <1>9 DEF Use, WarmUp
<1>10. ASSUME NEW t \in Thread, RemoveEntry(t) PROVE NoLeakedConnection'
  BY <1>10 DEF RemoveEntry
<1>11. ASSUME NEW t \in Thread, RemoveNothing(t) PROVE NoLeakedConnection'
  BY <1>11 DEF RemoveNothing
<1>12. ASSUME NEW t \in Thread, TakeConnection(t) PROVE NoLeakedConnection'
  BY <1>12 DEF TakeConnection
<1>13. CASE Exit
  BY <1>13 DEF Exit
<1>14. CASE UNCHANGED vars
  BY <1>14 DEF vars
<1> QED
  BY Cases, <1>2, <1>3, <1>4, <1>5, <1>6, <1>7, <1>8, <1>9, <1>10, <1>11, <1>12, <1>13, <1>14

LEMMA OneStoreStep ==
  Inv /\ [Next]_vars => OneStorePerIdentity'
<1> SUFFICES ASSUME Inv, [Next]_vars PROVE OneStorePerIdentity'
  OBVIOUS
<1>1. TypeOK /\ OneStorePerIdentity /\ RegisteredUnderItsIdentity /\ ExclusivelyHeld /\ PrivateUntilRegistered /\ UsesItsOwnIdentity
  BY DEF Inv
<1> USE NoStoreAssumption, NoKeyAssumption, <1>1 DEF TypeOK, Labels, Outcomes, Holding, Goto, Finish, OneStorePerIdentity, RegisteredUnderItsIdentity, ExclusivelyHeld, PrivateUntilRegistered, UsesItsOwnIdentity
<1>2. ASSUME NEW t \in Thread, NEW k \in Key, Call(t, k) \/ CallClose(t, k) PROVE OneStorePerIdentity'
  BY <1>2 DEF Call, CallClose
<1>3. ASSUME NEW t \in Thread, Open(t) PROVE OneStorePerIdentity'
  BY <1>3 DEF Open, Unreachable
<1>4. ASSUME NEW t \in Thread, OpenFails(t) PROVE OneStorePerIdentity'
  BY <1>4 DEF OpenFails
<1>5. ASSUME NEW t \in Thread, RegisterFirst(t) PROVE OneStorePerIdentity'
  BY <1>5 DEF RegisterFirst
<1>6. ASSUME NEW t \in Thread, RegisterLoser(t) PROVE OneStorePerIdentity'
  BY <1>6 DEF RegisterLoser
<1>7. ASSUME NEW t \in Thread, LookupHit(t) PROVE OneStorePerIdentity'
  BY <1>7 DEF LookupHit
<1>8. ASSUME NEW t \in Thread, LookupMiss(t) PROVE OneStorePerIdentity'
  BY <1>8 DEF LookupMiss
<1>9. ASSUME NEW t \in Thread, Use(t) \/ WarmUp(t) PROVE OneStorePerIdentity'
  BY <1>9 DEF Use, WarmUp
<1>10. ASSUME NEW t \in Thread, RemoveEntry(t) PROVE OneStorePerIdentity'
  BY <1>10 DEF RemoveEntry
<1>11. ASSUME NEW t \in Thread, RemoveNothing(t) PROVE OneStorePerIdentity'
  BY <1>11 DEF RemoveNothing
<1>12. ASSUME NEW t \in Thread, TakeConnection(t) PROVE OneStorePerIdentity'
  BY <1>12 DEF TakeConnection
<1>13. CASE Exit
  BY <1>13 DEF Exit
<1>14. CASE UNCHANGED vars
  BY <1>14 DEF vars
<1> QED
  BY Cases, <1>2, <1>3, <1>4, <1>5, <1>6, <1>7, <1>8, <1>9, <1>10, <1>11, <1>12, <1>13, <1>14

-----------------------------------------------------------------------------
(****************************************************************************)
(* Theorems.                                                                *)
(****************************************************************************)

(* The inductive invariant holds in every reachable state. *)
THEOREM Invariance == Spec => []Inv
<1>1. Init => Inv
  BY InitInv
<1>2. Inv /\ [Next]_vars => Inv'
  <2> SUFFICES ASSUME Inv, [Next]_vars PROVE Inv'
    OBVIOUS
  <2>1. TypeOK'
    BY TypeStep DEF Inv
  <2>2. RegisteredIsOpen' /\ RegisteredUnderItsIdentity'
    BY RegisteredIsOpenStep, IdentityStep
  <2>3. ExclusivelyHeld' /\ PrivateUntilRegistered'
    BY ExclusivelyHeldStep, PrivateStep
  <2>4. UsesItsOwnIdentity' /\ NoLeakedConnection' /\ OneStorePerIdentity'
    BY OwnIdentityStep, NoLeakStep, OneStoreStep
  <2> QED
    BY <2>1, <2>2, <2>3, <2>4 DEF Inv
<1> QED
  BY <1>1, <1>2, PTL DEF Spec

(* Type correctness, and the lifetime of an Arc. *)
THEOREM TypeCorrect == Spec => []TypeOK
<1>1. Inv => TypeOK
  BY DEF Inv
<1> QED
  BY <1>1, Invariance, PTL

(* close never leaves a closed store in the map, however many callers open, *)
(* use and close the same identity at once.                                 *)
THEOREM RegisteredStoresAreOpen == Spec => []RegisteredIsOpen
<1>1. Inv => RegisteredIsOpen
  BY DEF Inv
<1> QED
  BY <1>1, Invariance, PTL

(* Losing the race to register a store, or closing one that another thread  *)
(* is using, never leaves a live connection behind.                         *)
THEOREM NoConnectionLeaks == Spec => []NoLeakedConnection
<1>1. Inv => NoLeakedConnection
  BY DEF Inv
<1> QED
  BY <1>1, Invariance, PTL

(* No caller ever runs on a store opened for another path or retention.     *)
THEOREM IdentityRespected == Spec => []UsesItsOwnIdentity
<1>1. Inv => UsesItsOwnIdentity
  BY DEF Inv
<1> QED
  BY <1>1, Invariance, PTL

(* Concurrent callers of one identity share the store in the map.           *)
THEOREM CallersShareOneStore == Spec => []OneStorePerIdentity
<1>1. Inv => OneStorePerIdentity
  BY DEF Inv
<1> QED
  BY <1>1, Invariance, PTL

(* The first winner is kept: a registered store is removed, never replaced. *)
THEOREM FirstWinnerIsKept == Spec => FirstWinnerKept
<1>1. TypeOK /\ [Next]_vars =>
        [\A k \in Key : reg[k] # NoStore => reg'[k] \in {reg[k], NoStore}]_vars
  <2> SUFFICES ASSUME TypeOK, Next
               PROVE  \A k \in Key : reg[k] # NoStore => reg'[k] \in {reg[k], NoStore}
    OBVIOUS
  <2> QED
    BY DEF TypeOK, Next, Step, Call, CallClose, LookupHit, LookupMiss, Open, OpenFails,
       RegisterFirst, RegisterLoser, Use, WarmUp, RemoveEntry, RemoveNothing,
       TakeConnection, Exit
<1> QED
  BY <1>1, TypeCorrect, PTL DEF Spec, FirstWinnerKept
=============================================================================
