--------------------------- MODULE SpinlockProofs ---------------------------
(***************************************************************************)
(* Mutual exclusion of Spinlock.tla for any number of cores, in both       *)
(* modes, with and without trylock, and the refinement of Mutex.tla.       *)
(***************************************************************************)
EXTENDS Spinlock, TLAPS

(* The inductive invariant: the fields of the lock keep their types (the   *)
(* wrap of "stack" at 2^16 included) and LockInv holds at every step of    *)
(* spinlock_lock, spinlock_unlock and spinlock_trylock.                    *)
THEOREM LockCorrect == Spec => [](TypeOK /\ LockInv)
<1> USE CoresAssumption, WidthAssumption DEF SL_EBUSY, Labels
<1>1. Init => TypeOK /\ LockInv
  BY DEF Init, TypeOK, LockInv, MutualExclusion, Counted, Holds, InStep
<1>2. TypeOK /\ LockInv /\ [Next]_vars => (TypeOK /\ LockInv)'
  <2> SUFFICES ASSUME TypeOK, LockInv, [Next]_vars
               PROVE  TypeOK' /\ LockInv'
    OBVIOUS
  <2> USE DEF TypeOK, LockInv, MutualExclusion, Counted, Holds, InStep, Goto, mode
  <2>1. ASSUME NEW c \in Cores, LockTest(c), UNCHANGED mode
        PROVE  TypeOK' /\ LockInv'
    BY <2>1 DEF LockTest
  <2>2. ASSUME NEW c \in Cores, Reenter(c), UNCHANGED mode
        PROVE  TypeOK' /\ LockInv'
    BY <2>2 DEF Reenter
  <2>3. ASSUME NEW c \in Cores, Xchg(c), UNCHANGED mode
        PROVE  TypeOK' /\ LockInv'
    BY <2>3 DEF Xchg
  <2>4. ASSUME NEW c \in Cores, SpinExit(c), UNCHANGED mode
        PROVE  TypeOK' /\ LockInv'
    BY <2>4 DEF SpinExit
  <2>5. ASSUME NEW c \in Cores, Count(c), UNCHANGED mode
        PROVE  TypeOK' /\ LockInv'
    BY <2>5 DEF Count
  <2>6. ASSUME NEW c \in Cores, Own(c), UNCHANGED mode
        PROVE  TypeOK' /\ LockInv'
    BY <2>6 DEF Own
  <2>7. ASSUME NEW c \in Cores, UnlockForeign(c), UNCHANGED mode
        PROVE  TypeOK' /\ LockInv'
    BY <2>7 DEF UnlockForeign, Returned
  <2>8. ASSUME NEW c \in Cores, UnlockTest(c), UNCHANGED mode
        PROVE  TypeOK' /\ LockInv'
    BY <2>8 DEF UnlockTest
  <2>9. ASSUME NEW c \in Cores, Dec(c), UNCHANGED mode
        PROVE  TypeOK' /\ LockInv'
    BY <2>9 DEF Dec, Returned
  <2>10. ASSUME NEW c \in Cores, Release(c), UNCHANGED mode
        PROVE  TypeOK' /\ LockInv'
    BY <2>10 DEF Release
  <2>11. ASSUME NEW c \in Cores, Clear(c), UNCHANGED mode
        PROVE  TypeOK' /\ LockInv'
    BY <2>11 DEF Clear
  <2>12. ASSUME NEW c \in Cores, TryLock(c), UNCHANGED mode
        PROVE  TypeOK' /\ LockInv'
    BY <2>12 DEF TryLock
  <2>13. CASE UNCHANGED vars
    BY <2>13 DEF vars
  <2> QED
    BY <2>1, <2>2, <2>3, <2>4, <2>5, <2>6, <2>7, <2>8, <2>9, <2>10, <2>11,
       <2>12, <2>13 DEF Next, Lock, Unlock
<1> QED
  BY <1>1, <1>2, PTL DEF Spec

(* At most one core holds a spinlock_t.                                    *)
THEOREM Exclusion == Spec => []MutualExclusion
<1>1. TypeOK /\ LockInv => MutualExclusion
  BY DEF LockInv
<1> QED
  BY <1>1, LockCorrect, PTL

(* The holder is unique, so the CHOOSE in Holder names it.                 *)
LEMMA HolderIs ==
  ASSUME MutualExclusion, NEW c \in Cores, Holds(c)
  PROVE  Holder = c
BY DEF Holder, MutualExclusion

(* The same for the state after a step.                                    *)
LEMMA HolderIsNext ==
  ASSUME MutualExclusion', NEW c \in Cores, Holds(c)'
  PROVE  Holder' = c
BY DEF Holder, MutualExclusion

(* The step that takes the lock word is Mutex's Acquire, the one that ends *)
(* the last level of the holder is its Release, and no other step moves    *)
(* the holder: the xchg algorithm implements the abstract lock.            *)
THEOREM Refinement == Spec => ImplementsMutex
<1> USE CoresAssumption, WidthAssumption DEF SL_EBUSY, Labels
<1>1. Init => Abstract!Init
  BY DEF Init, Abstract!Init, Holder, Holds
<1>2. /\ TypeOK /\ LockInv /\ MutualExclusion
      /\ TypeOK' /\ LockInv' /\ MutualExclusion'
      /\ [Next]_vars
      => [Abstract!Next]_Holder
  <2> SUFFICES ASSUME TypeOK, LockInv, MutualExclusion,
                      TypeOK', LockInv', MutualExclusion', [Next]_vars
               PROVE  [Abstract!Next]_Holder
    OBVIOUS
  <2> DEFINE Free == \A d \in Cores : ~Holds(d)
  <2>1. Free => Holder = NoCore
    BY DEF Holder
  <2>2. Free' => Holder' = NoCore
    BY DEF Holder
  <2>3. ASSUME NEW c \in Cores, Free, Holds(c)'
        PROVE  Abstract!Next
    <3>1. Holder = NoCore
      BY <2>1, <2>3
    <3>2. Holder' = c
      BY <2>3, HolderIsNext
    <3> QED
      BY <3>1, <3>2 DEF Abstract!Next, Abstract!Acquire
  <2>4. ASSUME NEW c \in Cores, Holds(c), Free'
        PROVE  Abstract!Next
    <3>1. Holder = c
      BY <2>4, HolderIs
    <3>2. Holder' = NoCore
      BY <2>2, <2>4
    <3> QED
      BY <3>1, <3>2 DEF Abstract!Next, Abstract!Release
  <2>5. ASSUME NEW c \in Cores, Holds(c), Holds(c)'
        PROVE  UNCHANGED Holder
    BY <2>5, HolderIs, HolderIsNext
  <2>6. ASSUME UNCHANGED depth
        PROVE  UNCHANGED Holder
    BY <2>6 DEF Holder, Holds
  <2>7. ASSUME NEW c \in Cores, \A d \in Cores \ {c} : depth'[d] = depth[d],
               depth'[c] # depth[c], Holds(c) \/ Holds(c)'
        PROVE  [Abstract!Next]_Holder
    <3>1. CASE Holds(c) /\ Holds(c)'
      BY <2>5, <3>1
    <3>2. CASE Holds(c) /\ ~Holds(c)'
      <4>1. Free'
        BY <2>7, <3>2 DEF Holds, MutualExclusion, TypeOK
      <4> QED
        BY <2>4, <3>2, <4>1
    <3>3. CASE ~Holds(c) /\ Holds(c)'
      <4>1. Free
        BY <2>7, <3>3 DEF Holds, MutualExclusion, TypeOK
      <4> QED
        BY <2>3, <3>3, <4>1
    <3> QED
      BY <2>7, <3>1, <3>2, <3>3
  <2>8. ASSUME NEW c \in Cores,
               \/ depth' = [depth EXCEPT ![c] = @ + 1]
               \/ depth[c] > 0 /\ depth' = [depth EXCEPT ![c] = @ - 1]
        PROVE  [Abstract!Next]_Holder
    BY <2>7, <2>8 DEF TypeOK, Holds
  <2>9. ASSUME NEW c \in Cores, Lock(c) \/ Unlock(c) \/ TryLock(c)
        PROVE  [Abstract!Next]_Holder
    <3>1. \/ UNCHANGED depth
          \/ depth' = [depth EXCEPT ![c] = @ + 1]
          \/ depth[c] > 0 /\ depth' = [depth EXCEPT ![c] = @ - 1]
      BY <2>9 DEF Lock, Unlock, TryLock, LockTest, Reenter, Xchg, SpinExit,
                  Count, Own, UnlockForeign, UnlockTest, Dec, Release, Clear,
                  Returned, LockInv, Counted, Holds
    <3> QED
      BY <2>6, <2>8, <3>1
  <2>10. CASE UNCHANGED vars
    BY <2>6, <2>10 DEF vars
  <2> QED
    BY <2>9, <2>10 DEF Next
<1> QED
  BY <1>1, <1>2, LockCorrect, Exclusion, PTL
     DEF Spec, ImplementsMutex, Abstract!Spec
=============================================================================
