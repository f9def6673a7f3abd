--------------------------- MODULE SlotGateProofs ---------------------------
(***************************************************************************)
(* SlotGate for any number of jobs and any limits: the slot bound holds,   *)
(* the seats are accounted for and no wakeup is lost.                      *)
(***************************************************************************)
EXTENDS SlotGate, FiniteSetTheorems, TLAPS

LEMMA SubsetsFinite ==
    ASSUME NEW S \in SUBSET Jobs
    PROVE  IsFiniteSet(S) /\ Cardinality(S) \in Nat
BY JobsFinite, FS_Subset, FS_CardinalityType

LEMMA OneMore ==
    ASSUME NEW S \in SUBSET Jobs, NEW x \in Jobs, x \notin S
    PROVE  Cardinality(S \union {x}) = Cardinality(S) + 1
BY SubsetsFinite, FS_AddElement

LEMMA OneLess ==
    ASSUME NEW S \in SUBSET Jobs, NEW x \in S
    PROVE  Cardinality(S \ {x}) = Cardinality(S) - 1
BY SubsetsFinite, FS_RemoveElement
-----------------------------------------------------------------------------
LEMMA TypeInductive == TypeOK /\ [Next]_gateVars => TypeOK'
<1> SUFFICES ASSUME TypeOK, [Next]_gateVars
             PROVE  TypeOK'
  OBVIOUS
<1> USE DEF TypeOK, GateState
<1>1. CASE Reset
  BY <1>1 DEF Reset
<1>2. ASSUME NEW j \in Jobs, Admit(j) \/ Abandon(j) \/ Enqueue(j) \/ StartFails(j)
      PROVE  TypeOK'
  BY <1>2 DEF Admit, Abandon, Enqueue, StartFails
<1>3. ASSUME NEW j \in Jobs, TakeSlot(j) \/ Wait(j) \/ WaitTimesOut(j) \/ GiveUp(j)
      PROVE  TypeOK'
  BY <1>3 DEF TakeSlot, Wait, WaitTimesOut, GiveUp
<1>4. ASSUME NEW j \in Jobs, Release(j)
      PROVE  TypeOK'
  BY <1>4 DEF Release
<1>5. CASE UNCHANGED gateVars
  BY <1>5 DEF gateVars
<1> QED
  BY <1>1, <1>2, <1>3, <1>4, <1>5 DEF Next, Step, WorkerStep

(* Type correctness of the gate's sets and of every job's progress. *)
THEOREM TypeCorrect == Spec => []TypeOK
<1>1. Init => TypeOK
  BY DEF Init, TypeOK, GateState
<1> QED
  BY <1>1, TypeInductive, PTL DEF Spec
-----------------------------------------------------------------------------
(* What the two sets and the wait set say of a job is what the job is doing. *)
LEMMA SeatsInductive ==
    TypeOK /\ SeatsAccounted /\ [Next]_gateVars => SeatsAccounted'
<1> SUFFICES ASSUME TypeOK, SeatsAccounted, [Next]_gateVars
             PROVE  SeatsAccounted'
  OBVIOUS
<1> USE DEF TypeOK, GateState, SeatsAccounted, Trying, NeverStarted
<1>1. CASE Reset
  BY <1>1 DEF Reset
<1>2. ASSUME NEW j \in Jobs, Admit(j) \/ Abandon(j) \/ Enqueue(j) \/ StartFails(j)
      PROVE  SeatsAccounted'
  BY <1>2 DEF Admit, Abandon, Enqueue, StartFails
<1>3. ASSUME NEW j \in Jobs, TakeSlot(j)
      PROVE  SeatsAccounted'
  BY <1>3 DEF TakeSlot, Awake
<1>4. ASSUME NEW j \in Jobs, Wait(j) \/ WaitTimesOut(j)
      PROVE  SeatsAccounted'
  BY <1>4 DEF Wait, WaitTimesOut
<1>5. ASSUME NEW j \in Jobs, GiveUp(j)
      PROVE  SeatsAccounted'
  BY <1>5 DEF GiveUp, Awake
<1>6. ASSUME NEW j \in Jobs, Release(j)
      PROVE  SeatsAccounted'
  BY <1>6 DEF Release
<1>7. CASE UNCHANGED gateVars
  BY <1>7 DEF gateVars
<1> QED
  BY <1>1, <1>2, <1>3, <1>4, <1>5, <1>6, <1>7 DEF Next, Step, WorkerStep

(* _active_scans lists the jobs that hold a slot, _queued_scans those that try *)
(* for one and those whose thread could not be started, and no other.          *)
THEOREM SeatsAreAccounted == Spec => []SeatsAccounted
<1>1. Init => SeatsAccounted
  BY DEF Init, SeatsAccounted, Trying, NeverStarted
<1> QED
  BY <1>1, SeatsInductive, TypeCorrect, PTL DEF Spec
-----------------------------------------------------------------------------
(* The slot bound survives every step: a slot is taken only below it. *)
LEMMA BoundInductive ==
    TypeOK /\ ActiveBound /\ [Next]_gateVars => ActiveBound'
<1> SUFFICES ASSUME TypeOK, ActiveBound, [Next]_gateVars
             PROVE  ActiveBound'
  OBVIOUS
<1> USE SlotsPositive DEF ActiveBound
<1>1. CASE Reset
  BY <1>1, FS_EmptySet DEF Reset
<1>2. ASSUME NEW j \in Jobs, TakeSlot(j)
      PROVE  ActiveBound'
  <2>1. activeScans \in SUBSET Jobs
    BY DEF TypeOK
  <2>2. Cardinality(activeScans) \in Nat /\ Cardinality(activeScans) < MaxConcurrentScans
    BY <1>2, <2>1, SubsetsFinite DEF TakeSlot, AtCapacity
  <2>3. CASE j \in activeScans
    <3>1. activeScans \union {j} = activeScans
      BY <2>3
    <3> QED
      BY <1>2, <3>1 DEF TakeSlot
  <2>4. CASE j \notin activeScans
    BY <1>2, <2>1, <2>2, <2>4, OneMore DEF TakeSlot
  <2> QED
    BY <2>3, <2>4
<1>3. ASSUME NEW j \in Jobs, Release(j)
      PROVE  ActiveBound'
  <2>1. activeScans \in SUBSET Jobs /\ activeScans \ {j} \in SUBSET activeScans
    BY DEF TypeOK
  <2>2. Cardinality(activeScans \ {j}) <= Cardinality(activeScans)
    BY <2>1, SubsetsFinite, FS_Subset
  <2>3. Cardinality(activeScans \ {j}) \in Nat /\ Cardinality(activeScans) \in Nat
    BY <2>1, SubsetsFinite
  <2> QED
    BY <1>3, <2>2, <2>3 DEF Release
<1>4. CASE activeScans' = activeScans
  BY <1>4
<1> QED
  BY <1>1, <1>2, <1>3, <1>4
     DEF Next, Step, WorkerStep, Admit, Abandon, Enqueue, StartFails, Wait,
         WaitTimesOut, GiveUp, gateVars

(* At most MAX_CONCURRENT_SCANS jobs ever hold a slot. *)
THEOREM SlotBound == Spec => []ActiveBound
<1>1. Init => ActiveBound
  BY SlotsPositive, FS_EmptySet DEF Init, ActiveBound
<1> QED
  BY <1>1, BoundInductive, TypeCorrect, PTL DEF Spec
-----------------------------------------------------------------------------
(* No step can use up a wakeup: the slots freed never outnumber the threads  *)
(* roused to take them, as long as somebody is still listed in the wait set. *)
LEMMA WakeupsInductive ==
    TypeOK /\ SeatsAccounted /\ NoLostWakeup /\ [Next]_gateVars => NoLostWakeup'
<1> SUFFICES ASSUME TypeOK, SeatsAccounted, NoLostWakeup, [Next]_gateVars,
                    waiters' # {}
             PROVE  MaxConcurrentScans <= Cardinality(activeScans')
                                          + Cardinality(Roused')
  BY DEF NoLostWakeup
<1>1. /\ activeScans \in SUBSET Jobs /\ activeScans' \in SUBSET Jobs
      /\ Roused \in SUBSET Jobs /\ Roused' \in SUBSET Jobs
  BY TypeInductive DEF TypeOK, Roused
<1>2. /\ Cardinality(activeScans) \in Nat /\ Cardinality(activeScans') \in Nat
      /\ Cardinality(Roused) \in Nat /\ Cardinality(Roused') \in Nat
  BY <1>1, SubsetsFinite
<1> USE SlotsPositive
(* A full gate leaves no slot to be woken for. *)
<1>3. ASSUME AtCapacity, activeScans' = activeScans
      PROVE  MaxConcurrentScans <= Cardinality(activeScans') + Cardinality(Roused')
  BY <1>2, <1>3 DEF AtCapacity
<1>4. ASSUME activeScans' = activeScans, Roused' = Roused, waiters # {}
      PROVE  MaxConcurrentScans <= Cardinality(activeScans') + Cardinality(Roused')
  BY <1>4 DEF NoLostWakeup
<1>5. CASE Reset
  BY <1>5 DEF Reset
<1>6. ASSUME NEW j \in Jobs, Admit(j) \/ Abandon(j) \/ Enqueue(j) \/ StartFails(j)
      PROVE  MaxConcurrentScans <= Cardinality(activeScans') + Cardinality(Roused')
  <2>1. Roused' = Roused
    BY <1>6 DEF Roused, Admit, Abandon, Enqueue, StartFails, TypeOK
  <2> QED
    BY <1>4, <1>6, <2>1 DEF Admit, Abandon, Enqueue, StartFails
<1>7. ASSUME NEW j \in Jobs, WaitTimesOut(j)
      PROVE  MaxConcurrentScans <= Cardinality(activeScans') + Cardinality(Roused')
  <2>1. j \in waiters
    BY <1>7 DEF WaitTimesOut, SeatsAccounted
  <2>2. Roused' = Roused
    BY <1>7, <2>1 DEF Roused, WaitTimesOut, TypeOK
  <2> QED
    BY <1>4, <1>7, <2>1, <2>2 DEF WaitTimesOut
<1>8. ASSUME NEW j \in Jobs, Wait(j) \/ GiveUp(j)
      PROVE  MaxConcurrentScans <= Cardinality(activeScans') + Cardinality(Roused')
  BY <1>3, <1>8 DEF Wait, GiveUp
<1>9. ASSUME NEW j \in Jobs, TakeSlot(j)
      PROVE  MaxConcurrentScans <= Cardinality(activeScans') + Cardinality(Roused')
  <2>1. waiters # {} /\ j \notin activeScans
    BY <1>9 DEF TakeSlot, Awake, SeatsAccounted
  <2>2. Cardinality(activeScans') = Cardinality(activeScans) + 1
    BY <1>1, <1>9, <2>1, OneMore DEF TakeSlot
  <2>3. Roused' = Roused \ {j}
    BY <1>9 DEF Roused, TakeSlot, TypeOK
  <2>4. Cardinality(Roused') >= Cardinality(Roused) - 1
    BY <1>1, <2>3, SubsetsFinite, FS_RemoveElement
  <2> QED
    BY <1>2, <2>1, <2>2, <2>4 DEF NoLostWakeup
<1>10. ASSUME NEW j \in Jobs, Release(j)
       PROVE  MaxConcurrentScans <= Cardinality(activeScans') + Cardinality(Roused')
  <2>1. j \in activeScans /\ j \notin waiters
    BY <1>10 DEF Release, SeatsAccounted
  <2>2. Cardinality(activeScans') = Cardinality(activeScans) - 1
    BY <1>1, <1>10, <2>1, OneLess DEF Release
  <2>3. PICK w \in waiters :
          /\ waiters' = waiters \ {w}
          /\ gate' = [gate EXCEPT ![j] = "left",
                                  ![w] = IF @ = "waiting" THEN "notified" ELSE @]
    BY <1>10 DEF Release
  <2>4. w \in Jobs /\ w # j /\ gate[w] \in {"waiting", "expired"} /\ w \notin Roused
    BY <2>1, <2>3 DEF SeatsAccounted, TypeOK, Roused
  <2>5. gate'[w] \in {"notified", "expired"} /\ gate[j] = "held" /\ gate'[j] = "left"
    BY <1>10, <2>3, <2>4 DEF TypeOK, Release
  <2>6. \A k \in Jobs \ {j, w} : gate'[k] = gate[k]
    BY <2>3 DEF TypeOK
  <2>7. Roused' = Roused \union {w}
    BY <2>3, <2>4, <2>5, <2>6 DEF Roused
  <2>8. Cardinality(Roused') = Cardinality(Roused) + 1
    BY <1>1, <2>4, <2>7, OneMore
  <2> QED
    BY <1>2, <2>2, <2>3, <2>8 DEF NoLostWakeup
<1>11. CASE UNCHANGED gateVars
  BY <1>4, <1>11 DEF gateVars, Roused
<1> QED
  BY <1>5, <1>6, <1>7, <1>8, <1>9, <1>10, <1>11 DEF Next, Step, WorkerStep

(* A freed slot is never slept past: whatever the order of releases,         *)
(* timeouts and arrivals, one notify() per release is enough.                *)
THEOREM WakeupsNeverLost == Spec => []NoLostWakeup
<1>1. Init => NoLostWakeup
  BY DEF Init, NoLostWakeup
<1> QED
  BY <1>1, WakeupsInductive, TypeCorrect, SeatsAreAccounted, PTL DEF Spec
=============================================================================
