------------------------------- MODULE CxaGuard -------------------------------
(***************************************************************************)
(* One function-local static and its guard: the freestanding               *)
(* __cxa_guard_acquire / __cxa_guard_release of src/src/sys/sys_entry.cpp, *)
(* called by threads started with raw_clone.  The two bytes of the guard   *)
(* are `done' and `busy' (in_progress).  The constructor's stores and the  *)
(* plain volatile store of guard_release reach memory through the store    *)
(* buffer of the x86-64 processor, in program order; the compare-exchange  *)
(* is a locked instruction and waits for the buffer to drain.              *)
(***************************************************************************)
EXTENDS Naturals

CONSTANT Callers   \* the threads that reach the accessor

VARIABLES
  done,    \* byte 0 of the guard, in memory
  busy,    \* byte 1 of the guard, in memory
  object,  \* the static object, in memory: "raw" or "built"
  pend,    \* pend[t]: stores of t not yet in memory
  where,   \* where[t]: where t is in the accessor
  builds   \* how often the constructor has run

guardvars == <<done, busy, object, pend, where, builds>>

Places == {"idle", "load", "cas", "spin", "construct", "release", "use"}
-------------------------------------------------------------------------------
GuardInit ==
  /\ done = FALSE /\ busy = FALSE /\ object = "raw"
  /\ pend = [t \in Callers |-> {}]
  /\ where = [t \in Callers |-> "idle"]
  /\ builds = 0

MoveTo(t, l) == where' = [where EXCEPT ![t] = l]

\* What t reads: memory, or its own pending store.
SeesDone(t)  == done \/ "guard" \in pend[t]
SeesBuilt(t) == object = "built" \/ "object" \in pend[t]

Access(t) ==
  /\ where[t] = "idle" /\ MoveTo(t, "load")
  /\ UNCHANGED <<done, busy, object, pend, builds>>

\* The first load of `done'.
LoadDone(t) ==
  /\ where[t] = "load"
  /\ MoveTo(t, IF SeesDone(t) THEN "use" ELSE "cas")
  /\ UNCHANGED <<done, busy, object, pend, builds>>

\* Seeded fault: the result of the exchange is not tested.
CompareExchangeUntested(t) ==
  /\ where[t] = "cas" /\ pend[t] = {}
  /\ busy' = TRUE
  /\ MoveTo(t, "construct")
  /\ UNCHANGED <<done, object, pend, builds>>

\* The compare-exchange on in_progress: the winner constructs, the others spin.
CompareExchange(t) ==
  /\ where[t] = "cas" /\ pend[t] = {}
  /\ busy' = TRUE
  /\ MoveTo(t, IF busy THEN "spin" ELSE "construct")
  /\ UNCHANGED <<done, object, pend, builds>>

\* while (load(g) == 0) spinlock_yield();
Spin(t) ==
  /\ where[t] = "spin"
  /\ IF SeesDone(t) THEN MoveTo(t, "use") ELSE UNCHANGED where
  /\ UNCHANGED <<done, busy, object, pend, builds>>

\* The compiler's call of the constructor, between acquire and release.
Construct(t) ==
  /\ where[t] = "construct"
  /\ builds' = builds + 1
  /\ pend' = [pend EXCEPT ![t] = @ \cup {"object"}]
  /\ MoveTo(t, "release")
  /\ UNCHANGED <<done, busy, object>>

\* Seeded fault: the guard is not set.
ReleaseForgets(t) ==
  /\ where[t] = "release"
  /\ MoveTo(t, "use")
  /\ UNCHANGED <<done, busy, object, pend, builds>>

\* __cxa_guard_release.
Release(t) ==
  /\ where[t] = "release"
  /\ pend' = [pend EXCEPT ![t] = @ \cup {"guard"}]
  /\ MoveTo(t, "use")
  /\ UNCHANGED <<done, busy, object, builds>>

\* The accessor returns the object, the caller uses it.
Use(t) ==
  /\ where[t] = "use" /\ MoveTo(t, "idle")
  /\ UNCHANGED <<done, busy, object, pend, builds>>

\* The oldest store in t's buffer reaches memory.
DrainObject(t) ==
  /\ "object" \in pend[t]
  /\ object' = "built"
  /\ pend' = [pend EXCEPT ![t] = @ \ {"object"}]
  /\ UNCHANGED <<done, busy, where, builds>>

\* Seeded fault: the guard overtakes the object, as on a weakly ordered machine.
DrainGuardEarly(t) ==
  /\ "guard" \in pend[t]
  /\ done' = TRUE
  /\ pend' = [pend EXCEPT ![t] = @ \ {"guard"}]
  /\ UNCHANGED <<busy, object, where, builds>>

DrainGuard(t) ==
  /\ "guard" \in pend[t] /\ "object" \notin pend[t]
  /\ done' = TRUE
  /\ pend' = [pend EXCEPT ![t] = @ \ {"guard"}]
  /\ UNCHANGED <<busy, object, where, builds>>

Step(t) ==
  LoadDone(t) \/ CompareExchange(t) \/ Spin(t) \/ Construct(t) \/ Release(t) \/ Use(t)
Drain(t) == DrainObject(t) \/ DrainGuard(t)

GuardNext == \E t \in Callers : Access(t) \/ Step(t) \/ Drain(t)

\* A thread inside the accessor keeps running, and a store buffer drains.
Fairness == \A t \in Callers : WF_guardvars(Step(t)) /\ WF_guardvars(Drain(t))

GuardSpec == GuardInit /\ [][GuardNext]_guardvars
FairSpec == GuardSpec /\ Fairness
-------------------------------------------------------------------------------
GuardTypeOK ==
  /\ done \in BOOLEAN /\ busy \in BOOLEAN /\ object \in {"raw", "built"}
  /\ pend \in [Callers -> SUBSET {"object", "guard"}]
  /\ where \in [Callers -> Places] /\ builds \in Nat

\* The constructor runs at most once, however the threads interleave between
\* the first load, the compare-exchange and the release.
BuiltOnce == builds <= 1

\* A thread that leaves __cxa_guard_acquire with 0, or has released the guard
\* itself, sees the object fully constructed.
UsersSeeBuilt == \A t \in Callers : where[t] = "use" => SeesBuilt(t)

\* Nobody spins forever: every call of the accessor reaches the object.
EveryCallReturns == \A t \in Callers : where[t] = "load" ~> where[t] = "use"
===============================================================================
