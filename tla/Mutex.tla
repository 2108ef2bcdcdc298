-------------------------------- MODULE Mutex --------------------------------
(***************************************************************************)
(* What a spinlock_t promises its callers: at any moment at most one core  *)
(* is between a return of spinlock_lock and the matching spinlock_unlock.  *)
(* The step-by-step algorithm is in Spinlock.tla; the components that      *)
(* protect their state with a spinlock_t instantiate this module.          *)
(***************************************************************************)
CONSTANTS Cores,    \* the cores, one thread of execution each
          NoCore    \* nobody

VARIABLE owner

Init == owner = NoCore

\* spinlock_lock returns to c.
Acquire(c) == owner = NoCore /\ owner' = c

\* c's spinlock_unlock takes effect.
Release(c) == owner = c /\ owner' = NoCore

Next == \E c \in Cores : Acquire(c) \/ Release(c)

Spec == Init /\ [][Next]_owner
=============================================================================
