------------------------------ MODULE SlotGate ------------------------------
(***************************************************************************)
(* The gate scans pass before they may send traffic: the admission check   *)
(* of POST /api/scans and the slots of webui/hosted_server.py, guarded by  *)
(* one threading.Condition.                                                *)
(*                                                                         *)
(* A critical section of the code is one step here.  Condition.wait() and  *)
(* notify() are Python's: a notified thread leaves the wait set at once    *)
(* and runs later; a thread whose wait timed out stays in the wait set     *)
(* until it has the lock again, so a notification may still be spent on it.*)
(***************************************************************************)
EXTENDS Naturals, FiniteSets

CONSTANTS
    Jobs,                 \* the job ids a run of the server may hand out
    MaxConcurrentScans,   \* VULNORAIQ_MAX_CONCURRENT_SCANS
    ScanQueueLimit        \* VULNORAIQ_SCAN_QUEUE_LIMIT

ASSUME JobsFinite == IsFiniteSet(Jobs)
ASSUME SlotsPositive == MaxConcurrentScans \in Nat \ {0}
ASSUME QueueLimitPositive == ScanQueueLimit \in Nat \ {0}

VARIABLES
    activeScans,   \* _active_scans
    queuedScans,   \* _queued_scans
    waiters,       \* threads listed in the condition's wait set
    gate           \* how far each job has got

gateVars == <<activeScans, queuedScans, waiters, gate>>

(* "admitted": the handler passed the capacity check, has not enqueued.    *)
(* "enqueued": listed, its thread has yet to take the lock.                *)
(* "waiting" sleeps; "expired" and "notified" are awake, without the lock. *)
(* "lost": listed, but its thread could not be started.                    *)
GateState == {"out", "admitted", "enqueued", "waiting", "expired", "notified",
              "held", "left", "lost"}

Init ==
    /\ activeScans = {}
    /\ queuedScans = {}
    /\ waiters = {}
    /\ gate = [j \in Jobs |-> "out"]
-----------------------------------------------------------------------------
(* Admission: the check is one critical section, the enqueue another.      *)

Admit(j) ==
    /\ gate[j] = "out"
    /\ Cardinality(activeScans) + Cardinality(queuedScans) < ScanQueueLimit
    /\ gate' = [gate EXCEPT ![j] = "admitted"]
    /\ UNCHANGED <<activeScans, queuedScans, waiters>>

(* JOB_STORE.create raised: the handler answers 500 and nothing is listed. *)
Abandon(j) ==
    /\ gate[j] = "admitted"
    /\ gate' = [gate EXCEPT ![j] = "left"]
    /\ UNCHANGED <<activeScans, queuedScans, waiters>>

Enqueue(j) ==
    /\ gate[j] = "admitted"
    /\ queuedScans' = queuedScans \union {j}
    /\ gate' = [gate EXCEPT ![j] = "enqueued"]
    /\ UNCHANGED <<activeScans, waiters>>

(* Thread.start() raised after the job was listed. *)
StartFails(j) ==
    /\ gate[j] = "enqueued"
    /\ gate' = [gate EXCEPT ![j] = "lost"]
    /\ UNCHANGED <<activeScans, queuedScans, waiters>>
-----------------------------------------------------------------------------
(* _acquire_scan_slot: each pass of its loop, taken with the lock held.    *)

(* Mutant: the loop condition off by one. *)
AtCapacityOffByOne == Cardinality(activeScans) > MaxConcurrentScans

AtCapacity == Cardinality(activeScans) >= MaxConcurrentScans

Awake(j) == gate[j] \in {"enqueued", "notified", "expired"}

TakeSlot(j) ==
    /\ Awake(j)
    /\ ~AtCapacity
    /\ queuedScans' = queuedScans \ {j}
    /\ activeScans' = activeScans \union {j}
    /\ waiters' = waiters \ {j}
    /\ gate' = [gate EXCEPT ![j] = "held"]

Wait(j) ==
    /\ gate[j] \in {"enqueued", "notified"}
    /\ AtCapacity
    /\ waiters' = waiters \union {j}
    /\ gate' = [gate EXCEPT ![j] = "waiting"]
    /\ UNCHANGED <<activeScans, queuedScans>>

WaitTimesOut(j) ==
    /\ gate[j] = "waiting"
    /\ gate' = [gate EXCEPT ![j] = "expired"]
    /\ UNCHANGED <<activeScans, queuedScans, waiters>>

(* Mutant: giving up leaves the job in a state nothing handles. *)
GiveUpUnknown(j) ==
    /\ Awake(j)
    /\ AtCapacity
    /\ queuedScans' = queuedScans \ {j}
    /\ waiters' = waiters \ {j}
    /\ gate' = [gate EXCEPT ![j] = "refused"]
    /\ UNCHANGED activeScans

(* Mutant: giving up without leaving _queued_scans. *)
GiveUpStillListed(j) ==
    /\ Awake(j)
    /\ AtCapacity
    /\ waiters' = waiters \ {j}
    /\ gate' = [gate EXCEPT ![j] = "left"]
    /\ UNCHANGED <<activeScans, queuedScans>>

(* remaining <= 0: the call returns False. *)
GiveUp(j) ==
    /\ Awake(j)
    /\ AtCapacity
    /\ queuedScans' = queuedScans \ {j}
    /\ waiters' = waiters \ {j}
    /\ gate' = [gate EXCEPT ![j] = "left"]
    /\ UNCHANGED activeScans

(* Mutant: the slot is handed back and nobody is told. *)
ReleaseWithoutNotify(j) ==
    /\ gate[j] = "held"
    /\ activeScans' = activeScans \ {j}
    /\ gate' = [gate EXCEPT ![j] = "left"]
    /\ UNCHANGED <<queuedScans, waiters>>

(* _release_scan_slot: notify() takes some listed thread off the wait set; *)
(* if that thread had already timed out the notification is spent on it.   *)
Release(j) ==
    /\ gate[j] = "held"
    /\ activeScans' = activeScans \ {j}
    /\ \/ /\ waiters = {}
          /\ gate' = [gate EXCEPT ![j] = "left"]
          /\ UNCHANGED waiters
       \/ \E w \in waiters :
             /\ waiters' = waiters \ {w}
             /\ gate' = [gate EXCEPT ![j] = "left",
                                     ![w] = IF @ = "waiting" THEN "notified" ELSE @]
    /\ UNCHANGED queuedScans

(* The process ends: the sets and the threads are gone with it. *)
Reset ==
    /\ activeScans' = {}
    /\ queuedScans' = {}
    /\ waiters' = {}
    /\ gate' = [j \in Jobs |-> IF gate[j] = "out" THEN "out" ELSE "left"]
-----------------------------------------------------------------------------
WorkerStep(j) == TakeSlot(j) \/ Wait(j) \/ WaitTimesOut(j) \/ GiveUp(j) \/ Release(j)

Step(j) == Admit(j) \/ Abandon(j) \/ Enqueue(j) \/ StartFails(j) \/ WorkerStep(j)

Next == Reset \/ \E j \in Jobs : Step(j)

Spec == Init /\ [][Next]_gateVars
-----------------------------------------------------------------------------
(* Every variable has its type. *)
TypeOK ==
    /\ activeScans \subseteq Jobs
    /\ queuedScans \subseteq Jobs
    /\ waiters \subseteq Jobs
    /\ gate \in [Jobs -> GateState]

(* No more than MAX_CONCURRENT_SCANS jobs hold a slot. *)
ActiveBound == Cardinality(activeScans) <= MaxConcurrentScans

Trying == {j \in Jobs : gate[j] \in {"enqueued", "waiting", "notified", "expired"}}

(* Their thread could not be started: nothing takes them off _queued_scans. *)
NeverStarted == {j \in Jobs : gate[j] = "lost"}

(* The two sets account for the jobs exactly: a slot is listed for the jobs  *)
(* that hold one, and a queue seat for those still trying to get one and for *)
(* those whose thread could not be started.  A job that gave up, failed or   *)
(* released its slot keeps neither; the seat of one that never started leaks *)
(* until a restart (hosted_server.py:865-868) and no other one does.         *)
SeatsAccounted ==
    /\ activeScans = {j \in Jobs : gate[j] = "held"}
    /\ queuedScans = Trying \union NeverStarted
    /\ {j \in Jobs : gate[j] = "waiting"} \subseteq waiters
    /\ \A j \in waiters : gate[j] \in {"waiting", "expired"}

(* Threads that are awake and that a later notify() can no longer pick. *)
Roused == {j \in Jobs \ waiters : gate[j] \in {"notified", "expired"}}

(* No lost wakeup: while threads are listed in the wait set, every free slot *)
(* is matched by a thread already roused to look at it, although notify()    *)
(* wakes one thread only and may be spent on one that has timed out.         *)
NoLostWakeup ==
    waiters # {} => MaxConcurrentScans <= Cardinality(activeScans) + Cardinality(Roused)

(* The limit docs/reference/environment-variables.md:49 states: scans        *)
(* admitted (running plus waiting) before new requests are refused.          *)
AdmittedWithinLimit ==
    Cardinality(activeScans) + Cardinality(queuedScans) <= ScanQueueLimit
=============================================================================
