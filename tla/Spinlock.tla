------------------------------ MODULE Spinlock ------------------------------
(***************************************************************************)
(* sources/sync/Spinlock.c: one spinlock_t used by several cores, one step *)
(* per access to its shared fields.                                        *)
(*                                                                         *)
(* spinlock_init leaves lapic = 0 and nothing in the kernel sets it, so    *)
(* lapic = FALSE is the mode the kernel runs; lapic = TRUE is the          *)
(* re-entrant mode that the code also implements.  spinlock_trylock has no *)
(* caller in the kernel: trylocks says whether this client uses it.        *)
(***************************************************************************)
EXTENDS Integers

CONSTANTS Cores,      \* cores that use this lock
          NoCore,     \* core_id = 0; the code stores the APIC id + 1
          MaxDepth,   \* bound: nested spinlock_lock calls of one client
          Uint16      \* 2^16, the width of the field "stack"

ASSUME CoresAssumption == NoCore \notin Cores
ASSUME WidthAssumption == /\ MaxDepth \in Nat \ {0}
                          /\ Uint16 \in Nat
                          /\ MaxDepth < Uint16

VARIABLES spin_lock,  \* 0 or SL_EBUSY
          stack,      \* uint16_t
          core_id,    \* the owner recorded in re-entrant mode
          pc,         \* where each core is
          depth,      \* lock calls of each client not yet undone by an unlock
          lapic,      \* lapic > 0, fixed when the lock is set up
          trylocks    \* clients call spinlock_trylock too

lockvars == <<spin_lock, stack, core_id, pc, depth>>
mode == <<lapic, trylocks>>
vars == <<spin_lock, stack, core_id, pc, depth, lapic, trylocks>>

SL_EBUSY == 1

(* "idle": outside; "cs": between a lock and the next call of the client.  *)
Labels == {"idle", "reenter", "xchg", "spin", "count", "own", "cs",
           "dec", "release", "clear"}

TypeOK == /\ spin_lock \in {0, SL_EBUSY}
          /\ stack \in 0 .. Uint16 - 1
          /\ core_id \in Cores \cup {NoCore}
          /\ pc \in [Cores -> Labels]
          /\ depth \in [Cores -> 0 .. MaxDepth]
          /\ lapic \in BOOLEAN /\ trylocks \in BOOLEAN

\* spinlock_init
Init == /\ spin_lock = 0
        /\ stack = 0
        /\ core_id = NoCore
        /\ pc = [c \in Cores |-> "idle"]
        /\ depth = [c \in Cores |-> 0]
        /\ lapic \in BOOLEAN /\ trylocks \in BOOLEAN

Goto(c, label) == pc' = [pc EXCEPT ![c] = label]

\* c's unlock returns: back to the caller, who is outside after the last one.
Returned(c) == /\ depth' = [depth EXCEPT ![c] = @ - 1]
               /\ Goto(c, IF depth[c] = 1 THEN "idle" ELSE "cs")

-----------------------------------------------------------------------------
(* spinlock_lock *)

\* The re-entrancy test.  Only the re-entrant mode lets a holder call again.
LockTest(c) == /\ \/ pc[c] = "idle"
                  \/ pc[c] = "cs" /\ lapic /\ depth[c] < MaxDepth
               /\ Goto(c, IF lapic /\ core_id = c THEN "reenter" ELSE "xchg")
               /\ UNCHANGED <<spin_lock, stack, core_id, depth>>

\* stack++; return
Reenter(c) == /\ pc[c] = "reenter"
              /\ stack' = (stack + 1) % Uint16
              /\ depth' = [depth EXCEPT ![c] = @ + 1]
              /\ Goto(c, "cs")
              /\ UNCHANGED <<spin_lock, core_id>>

\* Mutant: a plain store after the spin loop, the old value never tested.
XchgUntested(c) == /\ pc[c] = "xchg"
                   /\ spin_lock' = SL_EBUSY
                   /\ depth' = [depth EXCEPT ![c] = @ + 1]
                   /\ Goto(c, "count")
                   /\ UNCHANGED <<stack, core_id>>

\* spinlock_xchg_32(&spin_lock, SL_EBUSY): stores SL_EBUSY, tests the old value
Xchg(c) == /\ pc[c] = "xchg"
           /\ spin_lock' = SL_EBUSY
           /\ \/ /\ spin_lock = 0
                 /\ depth' = [depth EXCEPT ![c] = @ + 1]
                 /\ Goto(c, "count")
              \/ /\ spin_lock # 0
                 /\ Goto(c, "spin")
                 /\ UNCHANGED depth
           /\ UNCHANGED <<stack, core_id>>

\* while (spin_lock) cpu_relax()
SpinExit(c) == /\ pc[c] = "spin"
               /\ spin_lock = 0
               /\ Goto(c, "xchg")
               /\ UNCHANGED <<spin_lock, stack, core_id, depth>>

Count(c) == /\ pc[c] = "count"
            /\ stack' = (stack + 1) % Uint16
            /\ Goto(c, IF lapic THEN "own" ELSE "cs")
            /\ UNCHANGED <<spin_lock, core_id, depth>>

Own(c) == /\ pc[c] = "own"
          /\ core_id' = c
          /\ Goto(c, "cs")
          /\ UNCHANGED <<spin_lock, stack, depth>>

-----------------------------------------------------------------------------
(* spinlock_unlock *)

\* Another owner recorded: return without unlocking.
UnlockForeign(c) == /\ pc[c] = "cs"
                    /\ lapic /\ core_id # c
                    /\ Returned(c)
                    /\ UNCHANGED <<spin_lock, stack, core_id>>

UnlockTest(c) == /\ pc[c] = "cs"
                 /\ ~ (lapic /\ core_id # c)
                 /\ Goto(c, "dec")
                 /\ UNCHANGED <<spin_lock, stack, core_id, depth>>

\* Mutant: every unlock releases, the nesting count ignored.
DecAlwaysReleases(c) == /\ pc[c] = "dec"
                        /\ stack' = (stack - 1) % Uint16
                        /\ Goto(c, "release")
                        /\ UNCHANGED <<spin_lock, core_id, depth>>

\* stack--; if (stack == 0)
Dec(c) == /\ pc[c] = "dec"
          /\ stack' = (stack - 1) % Uint16
          /\ \/ stack' = 0 /\ Goto(c, "release") /\ UNCHANGED depth
             \/ stack' # 0 /\ Returned(c)
          /\ UNCHANGED <<spin_lock, core_id>>

\* Mutant: the store that frees the lock word is missing.
ReleaseForgotten(c) == /\ pc[c] = "release"
                       /\ depth' = [depth EXCEPT ![c] = @ - 1]
                       /\ Goto(c, "clear")
                       /\ UNCHANGED <<spin_lock, stack, core_id>>

\* spin_lock = 0: from here on another core can be in
Release(c) == /\ pc[c] = "release"
              /\ spin_lock' = 0
              /\ depth' = [depth EXCEPT ![c] = @ - 1]
              /\ Goto(c, "clear")
              /\ UNCHANGED <<stack, core_id>>

\* core_id = 0, after the lock is already free
Clear(c) == /\ pc[c] = "clear"
            /\ core_id' = NoCore
            /\ Goto(c, IF depth[c] = 0 THEN "idle" ELSE "cs")
            /\ UNCHANGED <<spin_lock, stack, depth>>

-----------------------------------------------------------------------------
(* spinlock_trylock by a client outside: 0 (the old value) means taken.    *)
(* It neither counts in "stack" nor records an owner.                      *)
TryLock(c) == /\ trylocks
              /\ pc[c] = "idle"
              /\ ~ (lapic /\ core_id = c)
              /\ spin_lock = 0
              /\ spin_lock' = SL_EBUSY
              /\ depth' = [depth EXCEPT ![c] = @ + 1]
              /\ Goto(c, "cs")
              /\ UNCHANGED <<stack, core_id>>

-----------------------------------------------------------------------------
Lock(c) == LockTest(c) \/ Reenter(c) \/ Xchg(c) \/ SpinExit(c) \/ Count(c)
           \/ Own(c)

Unlock(c) == UnlockForeign(c) \/ UnlockTest(c) \/ Dec(c) \/ Release(c)
             \/ Clear(c)

Next == /\ \E c \in Cores : Lock(c) \/ Unlock(c) \/ TryLock(c)
        /\ UNCHANGED mode

Spec == Init /\ [][Next]_vars

(* A core inside spinlock_lock or spinlock_unlock keeps executing, and the *)
(* critical sections of the kernel are straight-line code that ends in     *)
(* spinlock_unlock.  Nobody is obliged to call spinlock_lock.              *)
Fairness == \A c \in Cores :
              /\ WF_lockvars(Xchg(c) \/ SpinExit(c) \/ Count(c) \/ Own(c)
                             \/ Reenter(c))
              /\ WF_lockvars(Unlock(c))

FairSpec == Spec /\ Fairness

-----------------------------------------------------------------------------
(* Properties *)

Holds(c) == depth[c] > 0

(* Two cores never both hold the lock, whatever the interleaving of the    *)
(* xchg, the counter and the unlocking stores; in re-entrant mode and with *)
(* trylock too.                                                            *)
MutualExclusion == \A c, d \in Cores : Holds(c) /\ Holds(d) => c = d

(* The inductive strengthening: the lock word is set while somebody holds  *)
(* the lock; core_id names a core only between its lock and the end of its *)
(* unlock; "stack" counts the calls of a holder that core_id names, so it  *)
(* reaches 0 on the last unlock and not before.  A trylock is never        *)
(* counted, and a late core_id = 0 can hide the holder from its unlock:    *)
(* both leave the lock taken for ever, neither lets a second core in.      *)
InStep(c) == stack = depth[c] \/ (~lapic /\ stack = 0 /\ depth[c] = 1)

Counted(c) == /\ pc[c] \in {"idle", "clear"} => depth[c] = 0
              /\ pc[c] \in {"reenter", "dec", "cs", "own"} => Holds(c)
              /\ pc[c] = "count" => depth[c] = 1 /\ stack = 0
              /\ pc[c] = "release" => depth[c] = 1 /\ stack = 0
              /\ pc[c] = "reenter" => lapic /\ depth[c] < MaxDepth
              /\ pc[c] \in {"xchg", "spin"} => depth[c] < MaxDepth
              /\ pc[c] \in {"xchg", "spin"} /\ Holds(c) => lapic
              /\ lapic /\ core_id = c =>
                   /\ Holds(c) \/ pc[c] = "clear"
                   /\ pc[c] \notin {"xchg", "spin", "count", "own"}
              /\ Holds(c) => spin_lock = SL_EBUSY
              /\ pc[c] = "own" => stack = depth[c]
              /\ pc[c] \in {"dec", "reenter"} => InStep(c)
              /\ pc[c] = "cs" => InStep(c) \/ (lapic /\ core_id # c)

LockInv == /\ MutualExclusion
           /\ spin_lock = 0 => stack = 0
           /\ \A c \in Cores : Counted(c)

(* A core that waits in spinlock_lock does so only until some core, not    *)
(* necessarily this one, gets the lock: no lost release, no deadlock (in   *)
(* the mode the kernel runs).                                              *)
SomeoneGetsIn ==
  (~lapic /\ ~trylocks /\ \E c \in Cores : pc[c] \in {"xchg", "spin"})
    ~> (\E c \in Cores : pc[c] = "count")

(* The algorithm implements the lock that its clients rely on: the holder  *)
(* is the abstract owner.                                                  *)
Holder == IF \E c \in Cores : Holds(c) THEN CHOOSE c \in Cores : Holds(c)
                                       ELSE NoCore
Abstract == INSTANCE Mutex WITH owner <- Holder
ImplementsMutex == Abstract!Spec
=============================================================================
