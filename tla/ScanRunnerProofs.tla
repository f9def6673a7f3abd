-------------------------- MODULE ScanRunnerProofs --------------------------
(***************************************************************************)
(* ScanRunner for any number of jobs, operators, slots, payloads and       *)
(* attempts: it uses the gate as SlotGate says and writes the record as    *)
(* RunRecord says, its traffic stays behind the slots, a stop that came in *)
(* time is heeded, and no run is left to itself.                           *)
(*                                                                         *)
(* One inductive invariant carries all of it.  It says, job by job, how    *)
(* the place of the job's handler and worker, its seat at the gate, its    *)
(* stored status and rows, its counters and its token fit together.        *)
(***************************************************************************)
EXTENDS ScanRunner, FiniteSetTheorems, TLAPS

GateFacts == INSTANCE SlotGateProofs
RecordFacts == INSTANCE RunRecordProofs

(* Places of a worker, by how far its run has got. *)
BeforeClaim == {"adopt", "slot", "slot_lost", "entry", "claim"}
Scanning == {"validate", "reject", "check", "send", "inflight", "settle", "analyse"}
Reporting == {"report", "finish"}
Leaving == {"discard", "release"}
WithSlot == {"entry", "claim", "fail"} \union Scanning \union Reporting \union Leaving

(* The seat a job has at the gate is the one its handler or worker relies on. *)
SeatFits(j) ==
    /\ post[j] # "done" => run[j].at = "none"
    /\ post[j] = "idle" => gate[j] = "out"
    /\ post[j] \in {"create", "register", "enqueue"} => gate[j] = "admitted"
    /\ post[j] = "start" \/ run[j].at = "adopt" => gate[j] = "enqueued"
    /\ run[j].at = "slot" => gate[j] \in {"enqueued", "waiting", "notified", "expired"}
    /\ run[j].at \in WithSlot => gate[j] = "held"

(* The stored status is the one the place of the handler or worker implies, *)
(* or the run has been ended behind its back.                               *)
StatusFits(j) ==
    /\ post[j] \in {"idle", "create"} => status[j] = "absent"
    /\ post[j] \in {"register", "enqueue", "start"} \/ run[j].at \in BeforeClaim =>
          status[j] = "queued" \/ IsTerminal(status[j])
    /\ run[j].at \in Scanning => status[j] = "running" \/ IsTerminal(status[j])
    /\ run[j].at \in Reporting => status[j] = "analysing" \/ IsTerminal(status[j])
    /\ run[j].at = "fail" => status[j] # "absent"
    /\ run[j].at \in Leaving => IsTerminal(status[j]) \/ j \in stranded

(* A worker that scans or reports has its running row. *)
RowsFit(j) ==
    /\ run[j].at \in Scanning \union Reporting => "running" \in Record!Visited(j)
    /\ run[j].at = "finish" => j \in reports

(* The worker's counters. *)
CountsFit(j) ==
    /\ run[j].at \in {"check", "send", "inflight"} => run[j].left >= 1
    /\ run[j].at \in {"none", "validate", "check"} \union BeforeClaim => run[j].tries = 0
    /\ run[j].at = "send" => run[j].tries < Attempts
    /\ run[j].at = "inflight" => run[j].tries >= 1

(* Requests begun after the stop all belong to the payload under way. *)
LateFits(j) ==
    /\ lateSends[j] <= Attempts
    /\ lateSends[j] > 0 =>
          \/ token[j] = "stopped" /\ run[j].at \in {"check", "send", "inflight", "settle",
                                                    "fail", "discard"}
          \/ run[j].at \in {"release", "done"}
    /\ run[j].at \in {"send", "inflight"} => lateSends[j] <= run[j].tries

(* A stop that came in time stays on the token until the worker looks. *)
StopFits(j) ==
    /\ post[j] \in {"idle", "create", "register"} => token[j] = "none" /\ stopAsked[j] = "no"
    /\ j \in reports => run[j].at \in {"finish", "fail", "discard", "release", "done"}
    /\ stopAsked[j] = "timely" =>
          /\ status[j] # "completed"
          /\ j \notin reports
          /\ run[j].at \notin {"analyse", "report", "finish"}
          /\ post[j] \in {"enqueue", "start"} \/ run[j].at \in StillChecking \ {"none"} =>
                token[j] = "stopped"
-----------------------------------------------------------------------------
(* Every step of the runner is a step of the gate, or leaves the gate alone. *)
LEMMA GateStep == [Next]_vars => [Gate!Next]_gateVars
<1> SUFFICES ASSUME [Next]_vars
             PROVE  Gate!Next \/ UNCHANGED gateVars
  OBVIOUS
<1> USE DEF gateVars
<1>1. ASSUME NEW j \in Jobs, Gate!Step(j)
      PROVE  Gate!Next
  BY <1>1 DEF Gate!Next
<1>2. ASSUME NEW j \in Jobs, Posting(j)
      PROVE  Gate!Step(j) \/ UNCHANGED gateVars
  BY <1>2 DEF Posting, PostAdmit, PostCreate, PostCreateRaises, PostRegister,
              PostEnqueue, PostStart, PostStartRaises, Gate!Step
<1>3. ASSUME NEW j \in Jobs, AcquireSlot(j) \/ ReleaseSlot(j)
      PROVE  Gate!Step(j) \/ UNCHANGED gateVars
  BY <1>3 DEF AcquireSlot, ReleaseSlot, Gate!Step, Gate!WorkerStep
<1>4. ASSUME NEW j \in Jobs, Working(j), ~AcquireSlot(j), ~ReleaseSlot(j)
      PROVE  UNCHANGED gateVars
  BY <1>4 DEF Working, AdoptToken, SlotLost, Enter, Claim, Validate, Reject,
              CheckPayload, SendRequest, RequestEnds, Settle, Analyse, Report, Finish,
              BodyRaises, FailJob, TerminalWriteRaises, DiscardToken
<1>5. ASSUME NEW o \in Operators, Cancelling(o)
      PROVE  UNCHANGED gateVars
  BY <1>5 DEF Cancelling, CancelFlag, CancelRecord, CancelRead
<1>6. CASE Crash
  BY <1>6 DEF Crash, Gate!Next
<1>7. CASE Restarting
  BY <1>7 DEF Restarting, Serve, Reconcile
<1>8. CASE UNCHANGED vars
  BY <1>8 DEF vars
<1> QED
  BY <1>1, <1>2, <1>3, <1>4, <1>5, <1>6, <1>7, <1>8 DEF Next

(* FiniteSets is the same library in every instance. *)
LEMMA SameSets ==
    /\ \A S : Gate!Cardinality(S) = Cardinality(S)
    /\ \A S : GateFacts!Cardinality(S) = Cardinality(S)
    /\ \A S : GateFacts!IsFiniteSet(S) <=> IsFiniteSet(S)
<1>1. \A S : Gate!Cardinality(S) = Cardinality(S)
  BY DEF Gate!Cardinality, Cardinality
<1>2. \A S : GateFacts!Cardinality(S) = Cardinality(S)
  BY DEF GateFacts!Cardinality, Cardinality
<1>3. \A S : GateFacts!IsFiniteSet(S) <=> IsFiniteSet(S)
  BY DEF GateFacts!IsFiniteSet, IsFiniteSet
<1> QED
  BY <1>1, <1>2, <1>3

(* The gate's own invariants, as the runner's instance of it states them. *)
LEMMA GateInductive ==
    ASSUME Gate!TypeOK, Gate!SeatsAccounted, Gate!ActiveBound, Gate!NoLostWakeup,
           [Gate!Next]_gateVars
    PROVE  Gate!TypeOK' /\ Gate!SeatsAccounted' /\ Gate!ActiveBound' /\ Gate!NoLostWakeup'
<1> USE SameSets
<1>1. /\ GateFacts!TypeOK /\ GateFacts!SeatsAccounted
      /\ GateFacts!ActiveBound /\ GateFacts!NoLostWakeup
  BY DEF Gate!TypeOK, Gate!SeatsAccounted, Gate!ActiveBound, Gate!NoLostWakeup,
         Gate!GateState, Gate!Roused, Gate!Trying, Gate!NeverStarted, GateFacts!TypeOK,
         GateFacts!SeatsAccounted, GateFacts!ActiveBound, GateFacts!NoLostWakeup,
         GateFacts!GateState, GateFacts!Roused, GateFacts!Trying, GateFacts!NeverStarted
<1>2. [GateFacts!Next]_GateFacts!gateVars
  BY DEF gateVars, GateFacts!gateVars, 
         Gate!Next, Gate!Step, Gate!WorkerStep, Gate!Reset, Gate!Admit, Gate!Abandon,
         Gate!Enqueue, Gate!StartFails, Gate!TakeSlot, Gate!Wait, Gate!WaitTimesOut,
         Gate!GiveUp, Gate!Release, Gate!Awake, Gate!AtCapacity,
         GateFacts!Next, GateFacts!Step, GateFacts!WorkerStep, GateFacts!Reset,
         GateFacts!Admit, GateFacts!Abandon, GateFacts!Enqueue, GateFacts!StartFails,
         GateFacts!TakeSlot, GateFacts!Wait, GateFacts!WaitTimesOut, GateFacts!GiveUp,
         GateFacts!Release, GateFacts!Awake, GateFacts!AtCapacity
<1>3. GateFacts!TypeOK' /\ GateFacts!SeatsAccounted' /\ GateFacts!ActiveBound'
      /\ GateFacts!NoLostWakeup'
  BY <1>1, <1>2, RunnerAssumption, GateFacts!TypeInductive, GateFacts!SeatsInductive,
     GateFacts!BoundInductive, GateFacts!WakeupsInductive
<1> QED
  BY <1>3
     DEF Gate!TypeOK, Gate!SeatsAccounted, Gate!ActiveBound, Gate!NoLostWakeup,
         Gate!GateState, Gate!Roused, Gate!Trying, Gate!NeverStarted, GateFacts!TypeOK,
         GateFacts!SeatsAccounted, GateFacts!ActiveBound, GateFacts!NoLostWakeup,
         GateFacts!GateState, GateFacts!Roused, GateFacts!Trying, GateFacts!NeverStarted
-----------------------------------------------------------------------------
(* The job's parts fit together. *)
AllFit == \A j \in Jobs : /\ SeatFits(j)
                          /\ StatusFits(j)
                          /\ RowsFit(j)
                          /\ CountsFit(j)
                          /\ LateFits(j)
                          /\ StopFits(j)

(* ScanState is the same table in every instance. *)
LEMMA SameTable ==
    /\ Record!ScanRunState = ScanRunState
    /\ \A s : Record!IsTerminal(s) <=> IsTerminal(s)
    /\ \A s, t : Record!MayMove(s, t) <=> MayMove(s, t)
BY DEF Record!ScanRunState, Record!IsTerminal, Record!MayMove, Record!TerminalStates,
       Record!AllowedTransitions, Record!StopStates, ScanRunState, IsTerminal, MayMove,
       TerminalStates, AllowedTransitions, StopStates

(* What the table allows, as the runner uses it. *)
LEMMA Moves ==
    /\ \A s, t : MayMove(s, t) => s \in ScanRunState /\ t \in ScanRunState /\ ~IsTerminal(s)
    /\ \A s \in ScanRunState, t \in StopStates : ~IsTerminal(s) => MayMove(s, t)
    /\ MayMove("queued", "running") /\ MayMove("running", "analysing")
    /\ MayMove("analysing", "completed")
    /\ \A s : MayMove(s, "running") => s = "queued"
    /\ \A s : MayMove(s, "analysing") => s = "running"
    /\ \A s : MayMove(s, "completed") => s = "analysing"
    /\ \A s : IsTerminal(s) <=> s \in {"completed", "cancelled", "timed_out", "failed"}
    /\ \A s \in ScanRunState : IsTerminal(s) \/ s \in {"queued", "running", "analysing"}
    /\ \A t : t \in StopStates <=> t \in {"cancelled", "timed_out", "failed"}
BY DEF MayMove, AllowedTransitions, ScanRunState, StopStates, TerminalStates, IsTerminal

(* A transition the runner asks for is a legal move of the record or nothing, *)
(* provided a completion comes with its reports.                              *)
LEMMA TransitionStep ==
    ASSUME NEW j \in Jobs, NEW target \in ScanRunState,
           target = "completed" => j \in reports,
           TransitionJob(j, target)
    PROVE  Record!Next \/ UNCHANGED recordVars
<1>1. CASE Record!Move(j, target)
  BY <1>1, SameTable DEF Record!Next
<1>2. CASE UNCHANGED recordVars
  BY <1>2
<1> QED
  BY <1>1, <1>2, SameTable DEF TransitionJob, Record!Move, recordVars

(* Every step of the runner is a step of the record, or leaves it alone. *)
LEMMA RecordStep ==
    ASSUME TypeOK, AllFit, [Next]_vars
    PROVE  [Record!Next]_recordVars
<1> SUFFICES Record!Next \/ UNCHANGED recordVars
  OBVIOUS
<1>1. ASSUME NEW j \in Jobs, Posting(j)
      PROVE  Record!Next \/ UNCHANGED recordVars
  <2>1. CASE PostCreate(j)
    BY <2>1 DEF PostCreate, PostGoes, Record!Next, Record!Create, AllFit, StatusFits
  <2> QED
    BY <1>1, <2>1 DEF Posting, PostAdmit, PostCreateRaises, PostRegister,
              PostEnqueue, PostStart, PostStartRaises
<1>2. ASSUME NEW j \in Jobs, SlotLost(j) \/ Claim(j) \/ Reject(j) \/ Analyse(j)
      PROVE  Record!Next \/ UNCHANGED recordVars
  BY <1>2, TransitionStep DEF SlotLost, Claim, Reject, Analyse, ScanRunState
<1>3. ASSUME NEW j \in Jobs, Finish(j)
      PROVE  Record!Next \/ UNCHANGED recordVars
  BY <1>3, TransitionStep DEF Finish, At, AllFit, RowsFit, ScanRunState
<1>4. ASSUME NEW j \in Jobs, FailJob(j)
      PROVE  Record!Next \/ UNCHANGED recordVars
  <2>1. run[j].ending \in StopStates
    BY DEF TypeOK, Worker
  <2> QED
    BY <1>4, <2>1, TransitionStep DEF FailJob, ScanRunState, StopStates, TerminalStates
<1>5. ASSUME NEW j \in Jobs, SendRequest(j) \/ Report(j)
      PROVE  Record!Next \/ UNCHANGED recordVars
  <2>1. "running" \in Record!Visited(j)
    BY <1>5 DEF SendRequest, Report, At, AllFit, RowsFit, Scanning, Reporting
  <2> QED
    BY <1>5, <2>1 DEF SendRequest, Report, Record!Next, Record!Send, Record!Publish
<1>6. ASSUME NEW j \in Jobs,
             \/ AdoptToken(j) \/ AcquireSlot(j) \/ Enter(j) \/ Validate(j)
             \/ CheckPayload(j) \/ RequestEnds(j) \/ Settle(j) \/ BodyRaises(j)
             \/ TerminalWriteRaises(j) \/ DiscardToken(j) \/ ReleaseSlot(j)
      PROVE  UNCHANGED recordVars
  BY <1>6 DEF AdoptToken, AcquireSlot, Enter, Validate, CheckPayload, RequestEnds,
              Settle, BodyRaises, TerminalWriteRaises, DiscardToken, ReleaseSlot
<1>7. ASSUME NEW o \in Operators, Cancelling(o)
      PROVE  Record!Next \/ UNCHANGED recordVars
  <2>1. CASE CancelRecord(o)
    <3>1. cancel[o].job \in Jobs
      BY <2>1 DEF CancelRecord, TypeOK, Handler
    <3> QED
      BY <2>1, <3>1, TransitionStep DEF CancelRecord, ScanRunState
  <2> QED
    BY <1>7, <2>1 DEF Cancelling, CancelFlag, CancelRead
<1>8. CASE Crash
  BY <1>8 DEF Crash
<1>9. CASE Restarting
  <2>1. ASSUME NEW j \in Jobs, Reconcile(j)
        PROVE  Record!Next \/ UNCHANGED recordVars
    BY <2>1, TransitionStep DEF Reconcile, ScanRunState
  <2> QED
    BY <1>9, <2>1 DEF Restarting, Serve
<1>10. CASE UNCHANGED vars
  BY <1>10 DEF vars, recordVars
<1> QED
  BY <1>1, <1>2, <1>3, <1>4, <1>5, <1>6, <1>7, <1>8, <1>9, <1>10 DEF Next, Working
-----------------------------------------------------------------------------
(* The record's own invariants, as the runner's instance of it states them. *)
LEMMA RecordInductive ==
    ASSUME Record!TypeOK, Record!TransitionsChain, Record!RecordCoversTraffic,
           [Record!Next]_recordVars
    PROVE  /\ Record!TypeOK' /\ Record!TransitionsChain' /\ Record!RecordCoversTraffic'
           /\ \A j \in Jobs : Record!IsTerminal(status[j]) =>
                 status'[j] = status[j] /\ transitions'[j] = transitions[j]
<1> USE DEF Record!Row, RecordFacts!Row, Record!ScanRunState, RecordFacts!ScanRunState,
            Record!Visited, RecordFacts!Visited, Record!MayMove, RecordFacts!MayMove,
            Record!AllowedTransitions, RecordFacts!AllowedTransitions,
            Record!StopStates, RecordFacts!StopStates, Record!TerminalStates,
            RecordFacts!TerminalStates
<1>1. RecordFacts!TypeOK <=> Record!TypeOK
  BY DEF Record!TypeOK, RecordFacts!TypeOK
<1>2. RecordFacts!TransitionsChain <=> Record!TransitionsChain
  BY DEF Record!TransitionsChain, RecordFacts!TransitionsChain, Record!HistoryOf,
         RecordFacts!HistoryOf
<1>3. RecordFacts!RecordCoversTraffic <=> Record!RecordCoversTraffic
  BY DEF Record!RecordCoversTraffic, RecordFacts!RecordCoversTraffic
<1>4. \A s : RecordFacts!IsTerminal(s) <=> Record!IsTerminal(s)
  BY DEF Record!IsTerminal, RecordFacts!IsTerminal
<1>5. [RecordFacts!Next]_RecordFacts!recordVars
  <2>1. ASSUME NEW j \in Jobs
        PROVE  /\ Record!Create(j) => RecordFacts!Create(j)
               /\ Record!Send(j) => RecordFacts!Send(j)
               /\ Record!Publish(j) => RecordFacts!Publish(j)
    BY DEF Record!Create, RecordFacts!Create, Record!Send, RecordFacts!Send,
           Record!Publish, RecordFacts!Publish
  <2>2. ASSUME NEW j \in Jobs, NEW t \in Record!ScanRunState, Record!Move(j, t)
        PROVE  RecordFacts!Move(j, t)
    BY <2>2 DEF Record!Move, RecordFacts!Move
  <2>3. Record!Next => RecordFacts!Next
    BY <2>1, <2>2 DEF Record!Next, RecordFacts!Next
  <2> QED
    BY <2>3 DEF RecordFacts!recordVars, recordVars
<1>6. /\ RecordFacts!TypeOK' /\ RecordFacts!TransitionsChain'
      /\ RecordFacts!RecordCoversTraffic'
  BY <1>1, <1>2, <1>3, <1>5, RecordFacts!TypeInductive, RecordFacts!ChainInductive,
     RecordFacts!CoverInductive
<1>7. \A j \in Jobs : Record!IsTerminal(status[j]) =>
         status'[j] = status[j] /\ transitions'[j] = transitions[j]
  BY <1>1, <1>4, <1>5, RecordFacts!OverStays
<1>8. /\ RecordFacts!TypeOK' <=> Record!TypeOK'
      /\ RecordFacts!TransitionsChain' <=> Record!TransitionsChain'
      /\ RecordFacts!RecordCoversTraffic' <=> Record!RecordCoversTraffic'
  BY DEF Record!TypeOK, RecordFacts!TypeOK, Record!TransitionsChain,
         RecordFacts!TransitionsChain, Record!HistoryOf, RecordFacts!HistoryOf,
         Record!RecordCoversTraffic, RecordFacts!RecordCoversTraffic
<1> QED
  BY <1>6, <1>7, <1>8, Zenon

(* The inductive invariant. *)
IInv ==
    /\ TypeOK
    /\ Gate!SeatsAccounted
    /\ Gate!ActiveBound
    /\ Gate!NoLostWakeup
    /\ Record!TransitionsChain
    /\ Record!RecordCoversTraffic
    /\ AllFit

(* What a worker's step does to its own place, and to nobody else's. *)
LEMMA GoToEffect ==
    ASSUME run \in [Jobs -> Worker], NEW j \in Jobs, NEW s \in WorkerStep, GoTo(j, s)
    PROVE  /\ run' \in [Jobs -> Worker]
           /\ run'[j].at = s
           /\ run'[j].left = run[j].left /\ run'[j].tries = run[j].tries
           /\ \A k \in Jobs \ {j} : run'[k] = run[k]
<1>1. run[j] \in Worker /\ [run[j] EXCEPT !.at = s] \in Worker
  BY DEF Worker
<1>2. run' = [run EXCEPT ![j] = [run[j] EXCEPT !.at = s]]
  BY DEF GoTo
<1>3. /\ [run[j] EXCEPT !.at = s].at = s
      /\ [run[j] EXCEPT !.at = s].left = run[j].left
      /\ [run[j] EXCEPT !.at = s].tries = run[j].tries
  BY <1>1 DEF Worker
<1> QED
  BY <1>1, <1>2, <1>3

LEMMA UnwindEffect ==
    ASSUME run \in [Jobs -> Worker], NEW j \in Jobs, NEW e \in StopStates, Unwind(j, e)
    PROVE  /\ run' \in [Jobs -> Worker]
           /\ run'[j].at = "fail"
           /\ \A k \in Jobs \ {j} : run'[k] = run[k]
<1> DEFINE w == [run[j] EXCEPT !.at = "fail", !.ending = e]
<1>1. run[j] \in Worker /\ w \in Worker /\ w.at = "fail"
  BY DEF Worker, WorkerStep
<1>2. run' = [run EXCEPT ![j] = w]
  BY DEF Unwind
<1> HIDE DEF w
<1> QED
  BY <1>1, <1>2

(* Validation either rejects, or finds nothing to send, or at least one payload. *)
LEMMA ValidateEffect ==
    ASSUME run \in [Jobs -> Worker], NEW j \in Jobs, Validate(j)
    PROVE  /\ run[j].at = "validate"
           /\ UNCHANGED <<gateVars, recordVars, token, post, cancel, up, historyVars>>
           /\ run' \in [Jobs -> Worker]
           /\ run'[j].tries = run[j].tries
           /\ \/ run'[j].at \in {"reject", "settle"}
              \/ run'[j].at = "check" /\ run'[j].left >= 1
           /\ \A k \in Jobs \ {j} : run'[k] = run[k]
<1> USE RunnerAssumption
<1> DEFINE Effect == /\ run' \in [Jobs -> Worker]
                     /\ run'[j].tries = run[j].tries
                     /\ \/ run'[j].at \in {"reject", "settle"}
                        \/ run'[j].at = "check" /\ run'[j].left >= 1
                     /\ \A k \in Jobs \ {j} : run'[k] = run[k]
           Next_(n) == run' = [run EXCEPT ![j].at = IF n = 0 THEN "settle" ELSE "check",
                                          ![j].left = n]
<1>1. ASSUME GoTo(j, "reject")
      PROVE  Effect
  BY <1>1, GoToEffect DEF WorkerStep
<1>2. ASSUME NEW n \in 0..MaxPayloads, Next_(n)
      PROVE  Effect
  <2> DEFINE w == [run[j] EXCEPT !.at = IF n = 0 THEN "settle" ELSE "check", !.left = n]
  <2>1. /\ w \in Worker
        /\ w.at = (IF n = 0 THEN "settle" ELSE "check") /\ w.left = n /\ w.tries = run[j].tries
    BY DEF Worker, WorkerStep
  <2>2. run' = [run EXCEPT ![j] = w]
    BY <1>2
  <2> HIDE DEF w
  <2> QED
    BY <2>1, <2>2
<1>3. /\ run[j].at = "validate"
      /\ UNCHANGED <<gateVars, recordVars, token, post, cancel, up, historyVars>>
      /\ GoTo(j, "reject") \/ (\E n \in 0..MaxPayloads : Next_(n))
  BY DEF Validate, At
<1> HIDE DEF Next_, Effect
<1>4. Effect
  BY <1>1, <1>2, <1>3
<1> QED
  BY <1>3, <1>4 DEF Effect

(* A request is one more attempt at the same payload. *)
LEMMA SendEffect ==
    ASSUME run \in [Jobs -> Worker], NEW j \in Jobs, SendRequest(j), CountsFit(j)
    PROVE  /\ run[j].at = "send"
           /\ UNCHANGED <<gateVars, status, transitions, reports, token, post, cancel, up,
                          stopAsked, stranded>>
           /\ lateSends' = [lateSends EXCEPT ![j] = IF token[j] = "stopped" THEN @ + 1 ELSE @]
           /\ run' \in [Jobs -> Worker]
           /\ run'[j].at = "inflight"
           /\ run'[j].left = run[j].left /\ run'[j].tries = run[j].tries + 1
           /\ \A k \in Jobs \ {j} : run'[k] = run[k]
<1> DEFINE w == [run[j] EXCEPT !.at = "inflight", !.tries = run[j].tries + 1]
<1>1. run[j].tries + 1 \in 0..Attempts
  BY RunnerAssumption DEF SendRequest, At, CountsFit, Worker
<1>2. /\ w \in Worker
      /\ w.at = "inflight" /\ w.left = run[j].left /\ w.tries = run[j].tries + 1
  BY <1>1 DEF Worker, WorkerStep
<1>3. run' = [run EXCEPT ![j] = w]
  BY DEF SendRequest
<1>4. /\ run[j].at = "send"
      /\ UNCHANGED <<gateVars, status, transitions, reports, token, post, cancel, up,
                     stopAsked, stranded>>
      /\ lateSends' = [lateSends EXCEPT ![j] = IF token[j] = "stopped" THEN @ + 1 ELSE @]
  BY DEF SendRequest, At
<1> HIDE DEF w
<1> QED
  BY <1>2, <1>3, <1>4

(* A request that ends is retried, or leads to the next payload or to the end. *)
LEMMA AnswerEffect ==
    ASSUME run \in [Jobs -> Worker], NEW j \in Jobs, RequestEnds(j), CountsFit(j)
    PROVE  /\ run[j].at = "inflight"
           /\ UNCHANGED <<gateVars, recordVars, token, post, cancel, up, historyVars>>
           /\ run' \in [Jobs -> Worker]
           /\ \/ run'[j].at = "settle"
              \/ run'[j].at = "check" /\ run'[j].tries = 0 /\ run'[j].left >= 1
              \/ /\ run'[j].at = "send" /\ run[j].tries < Attempts
                 /\ run'[j].tries = run[j].tries /\ run'[j].left = run[j].left
           /\ \A k \in Jobs \ {j} : run'[k] = run[k]
<1> USE RunnerAssumption
<1> DEFINE Effect == /\ run' \in [Jobs -> Worker]
                     /\ \/ run'[j].at = "settle"
                        \/ run'[j].at = "check" /\ run'[j].tries = 0 /\ run'[j].left >= 1
                        \/ /\ run'[j].at = "send" /\ run[j].tries < Attempts
                           /\ run'[j].tries = run[j].tries /\ run'[j].left = run[j].left
                     /\ \A k \in Jobs \ {j} : run'[k] = run[k]
           Retried == run[j].tries < Attempts /\ GoTo(j, "send")
           Answered == run' = [run EXCEPT ![j].at = AfterPayload(j), ![j].left = @ - 1,
                                          ![j].tries = 0]
<1>1. ASSUME Retried
      PROVE  Effect
  BY <1>1, GoToEffect DEF WorkerStep
<1>2. ASSUME Answered
      PROVE  Effect
  <2> DEFINE w1 == [run[j] EXCEPT !.at = AfterPayload(j)]
             w2 == [w1 EXCEPT !.left = run[j].left - 1]
             w == [w2 EXCEPT !.tries = 0]
  <2>1. run[j] \in Worker /\ run[j].left \in 1..MaxPayloads
    BY DEF RequestEnds, At, CountsFit, Worker
  <2>2. \/ AfterPayload(j) = "settle"
        \/ AfterPayload(j) = "check" /\ run[j].left # 1
    BY DEF AfterPayload
  <2>3. w1 \in Worker /\ w1.at = AfterPayload(j)
    BY <2>1, <2>2 DEF Worker, WorkerStep
  <2>4. w2 \in Worker /\ w2.at = w1.at /\ w2.left = run[j].left - 1
    <3> HIDE DEF w1
    <3> QED
      BY <2>1, <2>3 DEF Worker
  <2>5. w \in Worker /\ w.at = w2.at /\ w.left = w2.left /\ w.tries = 0
    <3> HIDE DEF w2
    <3> QED
      BY <2>4 DEF Worker
  <2>6. run' = [run EXCEPT ![j] = w]
    BY <1>2, Zenon
  <2> HIDE DEF w1, w2, w, Answered
  <2>7. run'[j] = w /\ run' \in [Jobs -> Worker] /\ \A k \in Jobs \ {j} : run'[k] = run[k]
    BY <2>5, <2>6
  <2>8. w.at = "settle" \/ (w.at = "check" /\ w.tries = 0 /\ w.left >= 1)
    BY <2>1, <2>2, <2>3, <2>4, <2>5
  <2> QED
    BY <2>7, <2>8
<1>3. /\ run[j].at = "inflight"
      /\ UNCHANGED <<gateVars, recordVars, token, post, cancel, up, historyVars>>
      /\ Answered \/ Retried
  BY DEF RequestEnds, At
<1> HIDE DEF Effect, Retried, Answered
<1>4. Effect
  BY <1>1, <1>2, <1>3
<1> QED
  BY <1>3, <1>4 DEF Effect

(* What _transition_job does: the move if it is legal, and its row with it. *)
LEMMA TransitionEffect ==
    ASSUME Record!TypeOK, NEW j \in Jobs, NEW target \in ScanRunState,
           TransitionJob(j, target)
    PROVE  /\ MayMove(status[j], target) =>
                 status'[j] = target /\ target \in Record!Visited(j)'
           /\ ~MayMove(status[j], target) => status'[j] = status[j]
           /\ Record!Visited(j) \subseteq Record!Visited(j)'
           /\ \A k \in Jobs \ {j} : status'[k] = status[k] /\ transitions'[k] = transitions[k]
           /\ reports' = reports
<1> USE DEF TransitionJob, Record!TypeOK
<1>1. CASE ~MayMove(status[j], target)
  BY <1>1 DEF Record!Visited
<1>2. CASE MayMove(status[j], target)
  <2> DEFINE row == [from_state |-> status[j], to_state |-> target]
  <2>1. row \in Record!Row /\ row.to_state = target
    BY <1>2, Moves, SameTable DEF Record!Row
  <2>2. status'[j] = target /\ transitions'[j] = Append(transitions[j], row)
    BY <1>2
  <2> HIDE DEF row
  <2>3. /\ \A i \in DOMAIN transitions[j] :
             i \in DOMAIN transitions'[j] /\ transitions'[j][i] = transitions[j][i]
        /\ Len(transitions[j]) + 1 \in DOMAIN transitions'[j]
        /\ transitions'[j][Len(transitions[j]) + 1] = row
    BY <2>1, <2>2
  <2>4. target \in Record!Visited(j)' /\ Record!Visited(j) \subseteq Record!Visited(j)'
    BY <2>1, <2>3 DEF Record!Visited
  <2> QED
    BY <1>2, <2>2, <2>4
<1> QED
  BY <1>1, <1>2

(* What is known of a job nobody has worked on. *)
Untouched(k) ==
    /\ run'[k] = run[k]
    /\ token'[k] = token[k]
    /\ status'[k] = status[k]
    /\ transitions'[k] = transitions[k]
    /\ lateSends'[k] = lateSends[k]
    /\ k \in reports' <=> k \in reports
    /\ k \in stranded' <=> k \in stranded

(* A worker's step keeps the worker's type and works on its own job only. *)
LEMMA WorkerFrame ==
    ASSUME TypeOK, AllFit, NEW j \in Jobs, Working(j)
    PROVE  /\ run' \in [Jobs -> Worker]
           /\ post' = post /\ cancel' = cancel /\ up' = up /\ stopAsked' = stopAsked
           /\ \A k \in Jobs \ {j} : Untouched(k)
<1> USE RunnerAssumption DEF TypeOK, historyVars, recordVars
<1>1. /\ run \in [Jobs -> Worker] /\ Record!TypeOK
      /\ \A s \in WorkerStep : GoTo(j, s) =>
           run' \in [Jobs -> Worker] /\ \A k \in Jobs \ {j} : run'[k] = run[k]
      /\ \A e \in StopStates : Unwind(j, e) =>
           run' \in [Jobs -> Worker] /\ \A k \in Jobs \ {j} : run'[k] = run[k]
  BY GoToEffect, UnwindEffect
<1>2. CASE AdoptToken(j) \/ DiscardToken(j) \/ TerminalWriteRaises(j) \/ Report(j)
  BY <1>1, <1>2 DEF AdoptToken, DiscardToken, TerminalWriteRaises, Report, WorkerStep, Untouched
<1>3. CASE AcquireSlot(j) \/ ReleaseSlot(j)
  BY <1>1, <1>3 DEF AcquireSlot, ReleaseSlot, WorkerStep, Untouched
<1>4. CASE SlotLost(j) \/ Reject(j) \/ Claim(j)
  BY <1>1, <1>4, TransitionEffect DEF SlotLost, Reject, Claim, WorkerStep, ScanRunState, Untouched
<1>5. CASE Analyse(j) \/ Finish(j)
  BY <1>1, <1>5, TransitionEffect DEF Analyse, Finish, WorkerStep, ScanRunState, Untouched
<1>6. CASE FailJob(j)
  <2>1. run[j].ending \in ScanRunState
    BY DEF Worker, ScanRunState, StopStates, TerminalStates
  <2> QED
    BY <1>1, <1>6, <2>1, TransitionEffect DEF FailJob, WorkerStep, Untouched
<1>7. CASE Enter(j) \/ CheckPayload(j) \/ Settle(j) \/ BodyRaises(j)
  BY <1>1, <1>7 DEF Enter, CheckPayload, Settle, BodyRaises, RaiseIfStopped, WorkerStep,
                    StopStates, TerminalStates, Untouched
<1>8. CASE Validate(j)
  BY <1>8, ValidateEffect DEF Untouched
<1>9. CASE SendRequest(j)
  BY <1>9, SendEffect DEF AllFit, Untouched
<1>10. CASE RequestEnds(j)
  BY <1>10, AnswerEffect DEF AllFit, Untouched
<1> QED
  BY <1>2, <1>3, <1>4, <1>5, <1>6, <1>7, <1>8, <1>9, <1>10 DEF Working
-----------------------------------------------------------------------------
(* Whoever moves, every variable keeps its type. *)
LEMMA TypeInductive == ASSUME IInv, [Next]_vars PROVE TypeOK'
<1> USE DEF IInv
<1>1. Gate!TypeOK'
  BY GateStep, GateInductive DEF TypeOK
<1>2. Record!TypeOK'
  BY RecordStep, RecordInductive DEF TypeOK
<1> DEFINE Handlers == post \in [Jobs -> PostStep] /\ cancel \in [Operators -> Handler]
                       /\ up \in BOOLEAN
           Histories == /\ stopAsked \in [Jobs -> {"no", "timely", "late"}]
                        /\ lateSends \in [Jobs -> Nat]
                        /\ stranded \subseteq Jobs
           Tokens == token \in [Jobs -> {"none", "clear", "stopped"}]
           Locals == Handlers /\ Histories /\ Tokens /\ run \in [Jobs -> Worker]
<1>3. Locals'
  <2>0. Locals
    BY DEF TypeOK
  <2>1. ASSUME NEW j \in Jobs, Posting(j), ~PostStart(j)
        PROVE  Locals'
    BY <2>0, <2>1 DEF Posting, PostAdmit, PostCreate, PostCreateRaises, PostRegister,
                PostEnqueue, PostStartRaises, PostGoes, PostStep, historyVars
  <2>2. ASSUME NEW j \in Jobs, PostStart(j)
        PROVE  Locals'
    <3>1. GoTo(j, "adopt")
      BY <2>2 DEF PostStart, GoTo
    <3> QED
      BY <2>0, <2>2, <3>1, GoToEffect DEF PostStart, PostGoes, PostStep, WorkerStep, historyVars
  <2>3. ASSUME NEW j \in Jobs, Working(j)
        PROVE  Locals'
    <3>1. Handlers' /\ stopAsked' = stopAsked /\ run' \in [Jobs -> Worker]
      BY <2>0, <2>3, WorkerFrame
    <3>2. Tokens' /\ lateSends' \in [Jobs -> Nat] /\ stranded' \subseteq Jobs
      BY <2>0, <2>3
         DEF Working, AdoptToken, AcquireSlot, SlotLost, Enter, Claim, Validate, Reject,
             CheckPayload, SendRequest, RequestEnds, Settle, Analyse, Report, Finish,
             BodyRaises, FailJob, TerminalWriteRaises, DiscardToken, ReleaseSlot,
             historyVars
    <3> QED
      BY <2>0, <3>1, <3>2
  <2>4. ASSUME NEW o \in Operators, CancelFlag(o)
        PROVE  Locals'
    <3>1. Handlers'
      BY <2>0, <2>4 DEF CancelFlag, Handler
    <3> QED
      BY <2>0, <2>4, <3>1 DEF CancelFlag
  <2>5. ASSUME NEW o \in Operators, CancelRecord(o) \/ \E j \in Jobs : CancelRead(o, j)
        PROVE  Locals'
    BY <2>0, <2>5 DEF CancelRecord, CancelRead, Handler, historyVars
  <2>6. CASE Crash
    <3>1. Handlers' /\ Histories' /\ Tokens'
      BY <2>0, <2>6 DEF Crash, PostStep, Handler
    <3>2. \A j \in Jobs : [run[j] EXCEPT !.at = "done"] \in Worker
      BY <2>0 DEF Worker, WorkerStep
    <3>3. run' \in [Jobs -> Worker]
      BY <2>0, <2>6, <3>2 DEF Crash
    <3> QED
      BY <3>1, <3>3
  <2>7. CASE Restarting
    BY <2>0, <2>7 DEF Restarting, Serve, Reconcile, historyVars
  <2>8. CASE UNCHANGED vars
    BY <2>0, <2>8 DEF vars, historyVars
  <2> QED
    BY <2>1, <2>2, <2>3, <2>4, <2>5, <2>6, <2>7, <2>8 DEF Next, Cancelling
<1> QED
  BY <1>1, <1>2, <1>3 DEF TypeOK
-----------------------------------------------------------------------------
(* Handler, worker and gate agree on how far a job has got, whoever moves. *)
LEMMA SeatsInductive == ASSUME IInv, [Next]_vars PROVE \A k \in Jobs : SeatFits(k)'
<1> USE DEF IInv, TypeOK, AllFit, SeatFits, WithSlot, BeforeClaim, Scanning, Reporting, Leaving
<1>0. gate \in [Jobs -> Gate!GateState]
  BY DEF Gate!TypeOK
<1>1. ASSUME NEW j \in Jobs, Posting(j), ~PostStart(j)
      PROVE  \A k \in Jobs : SeatFits(k)'
  BY <1>0, <1>1
     DEF Posting, PostAdmit, PostCreate, PostCreateRaises, PostRegister, PostEnqueue,
         PostStartRaises, PostGoes, gateVars, Gate!Admit, Gate!Abandon, Gate!Enqueue,
         Gate!StartFails
<1>2. ASSUME NEW j \in Jobs, PostStart(j)
      PROVE  \A k \in Jobs : SeatFits(k)'
  <2>1. GoTo(j, "adopt")
    BY <1>2 DEF PostStart, GoTo
  <2> QED
    BY <1>0, <1>2, <2>1, GoToEffect DEF PostStart, PostGoes, WorkerStep, gateVars
<1>3. ASSUME NEW j \in Jobs, Working(j)
      PROVE  \A k \in Jobs : SeatFits(k)'
  <2>1. post' = post /\ \A k \in Jobs \ {j} : run'[k] = run[k]
    BY <1>3, WorkerFrame DEF Untouched
  <2>2. CASE AcquireSlot(j)
    <3>1. \A k \in Jobs \ {j} : gate'[k] = gate[k]
      BY <1>0, <2>2 DEF AcquireSlot, Gate!TakeSlot, Gate!Wait, Gate!WaitTimesOut, Gate!GiveUp
    <3>2. SeatFits(j)'
      BY <1>0, <2>1, <2>2, GoToEffect
         DEF AcquireSlot, At, Gate!TakeSlot, Gate!Wait, Gate!WaitTimesOut, Gate!GiveUp, WorkerStep
    <3> QED
      BY <2>1, <3>1, <3>2
  <2>3. CASE ReleaseSlot(j)
    <3>1. \A k \in Jobs \ {j} :
              \/ gate'[k] = gate[k]
              \/ gate[k] = "waiting" /\ gate'[k] = "notified"
      BY <1>0, <2>3 DEF ReleaseSlot, Gate!Release
    <3>2. run'[j].at = "done" /\ run[j].at = "release"
      BY <2>3, GoToEffect DEF ReleaseSlot, At, WorkerStep
    <3>3. SeatFits(j)'
      BY <2>1, <3>2
    <3> QED
      BY <2>1, <3>1, <3>3
  <2>4. CASE ~AcquireSlot(j) /\ ~ReleaseSlot(j)
    <3>1. gate' = gate
      BY <1>3, <2>4
         DEF Working, AdoptToken, SlotLost, Enter, Claim, Validate, Reject, CheckPayload,
             SendRequest, RequestEnds, Settle, Analyse, Report, Finish, BodyRaises, FailJob,
             TerminalWriteRaises, DiscardToken, gateVars
    <3>2. \/ run[j].at = "adopt" /\ run'[j].at = "slot"
          \/ run[j].at = "slot_lost" /\ run'[j].at = "done"
          \/ run[j].at \in WithSlot /\ run'[j].at \in WithSlot
      <4> USE GoToEffect, UnwindEffect
              DEF At, WorkerStep, RaiseIfStopped, StopStates, TerminalStates
      <4>1. CASE AdoptToken(j) \/ SlotLost(j) \/ DiscardToken(j) \/ TerminalWriteRaises(j)
        BY <4>1 DEF AdoptToken, SlotLost, DiscardToken, TerminalWriteRaises
      <4>2. CASE Claim(j) \/ Reject(j) \/ Analyse(j) \/ Report(j) \/ Finish(j) \/ FailJob(j)
        BY <4>2 DEF Claim, Reject, Analyse, Report, Finish, FailJob
      <4>3. CASE Enter(j) \/ CheckPayload(j) \/ Settle(j) \/ BodyRaises(j)
        BY <4>3 DEF Enter, CheckPayload, Settle, BodyRaises
      <4>4. CASE Validate(j)
        BY <4>4, ValidateEffect
      <4>5. CASE SendRequest(j) \/ RequestEnds(j)
        BY <4>5, SendEffect, AnswerEffect
      <4> QED
        BY <1>3, <2>4, <4>1, <4>2, <4>3, <4>4, <4>5 DEF Working
    <3> QED
      BY <2>1, <3>1, <3>2
  <2> QED
    BY <2>2, <2>3, <2>4
<1>4. ASSUME NEW o \in Operators, Cancelling(o)
      PROVE  \A k \in Jobs : SeatFits(k)'
  BY <1>4 DEF Cancelling, CancelFlag, CancelRecord, CancelRead, gateVars
<1>5. CASE Crash
  BY <1>5 DEF Crash, Gate!Reset
<1>6. CASE Restarting
  BY <1>6 DEF Restarting, Serve, Reconcile, gateVars
<1>7. CASE UNCHANGED vars
  BY <1>7 DEF vars, gateVars
<1> QED
  BY <1>1, <1>2, <1>3, <1>4, <1>5, <1>6, <1>7 DEF Next
-----------------------------------------------------------------------------
(* Nothing done to the record behind a worker's back breaks what it expects: *)
(* a run is only ever ended, and never started twice.                        *)
LEMMA StatusInductive == ASSUME IInv, [Next]_vars PROVE \A k \in Jobs : StatusFits(k)'
<1> USE Moves
        DEF IInv, TypeOK, AllFit, StatusFits, BeforeClaim, Scanning, Reporting, Leaving
<1>0. status \in [Jobs -> {"absent"} \union ScanRunState]
  BY SameTable DEF Record!TypeOK
<1>1. ASSUME NEW j \in Jobs, Posting(j), ~PostStart(j)
      PROVE  \A k \in Jobs : StatusFits(k)'
  <2>1. run[j].at = "none"
    BY <1>1 DEF SeatFits, Posting, PostAdmit, PostCreate, PostCreateRaises, PostRegister,
                PostEnqueue, PostStartRaises, PostGoes
  <2> QED
    BY <1>0, <1>1, <2>1
       DEF Posting, PostAdmit, PostCreate, PostCreateRaises, PostRegister, PostEnqueue,
           PostStartRaises, PostGoes, recordVars, historyVars
<1>2. ASSUME NEW j \in Jobs, PostStart(j)
      PROVE  \A k \in Jobs : StatusFits(k)'
  <2>1. GoTo(j, "adopt")
    BY <1>2 DEF PostStart, GoTo
  <2> QED
    BY <1>2, <2>1, GoToEffect DEF PostStart, PostGoes, WorkerStep, recordVars, historyVars
<1>3. ASSUME NEW j \in Jobs, Working(j)
      PROVE  \A k \in Jobs : StatusFits(k)'
  <2>1. post' = post /\ \A k \in Jobs \ {j} : StatusFits(k)'
    BY <1>3, WorkerFrame DEF Untouched
  <2>2. post[j] = "done"
    BY <1>3 DEF SeatFits, Working, AdoptToken, AcquireSlot, SlotLost, Enter, Claim,
             Validate, Reject, CheckPayload, SendRequest, RequestEnds, Settle, Analyse, Report, Finish,
             BodyRaises, FailJob, TerminalWriteRaises, DiscardToken, ReleaseSlot, At
  <2>3. StatusFits(j)'
    <3> USE <2>1, <2>2, GoToEffect, UnwindEffect
            DEF At, WorkerStep, RaiseIfStopped, StopStates, TerminalStates, recordVars,
                historyVars
    <3>1. CASE AdoptToken(j) \/ AcquireSlot(j) \/ DiscardToken(j) \/ ReleaseSlot(j)
      BY <3>1 DEF AdoptToken, AcquireSlot, DiscardToken, ReleaseSlot
    <3>2. CASE TerminalWriteRaises(j)
      BY <1>0, <3>2 DEF TerminalWriteRaises
    <3>3. CASE SlotLost(j) \/ Claim(j)
      BY <1>0, <3>3, TransitionEffect DEF SlotLost, Claim, RunIsOver, ScanRunState
    <3>4. CASE Reject(j) \/ Analyse(j) \/ Finish(j)
      BY <1>0, <3>4, TransitionEffect DEF Reject, Analyse, Finish, ScanRunState
    <3>5. CASE FailJob(j)
      <4>1. run[j].ending \in StopStates
        BY DEF Worker
      <4> QED
        BY <1>0, <3>5, <4>1, TransitionEffect DEF FailJob, ScanRunState
    <3>6. CASE Enter(j) \/ CheckPayload(j) \/ Settle(j)
      BY <1>0, <3>6 DEF Enter, CheckPayload, Settle
    <3>7. CASE BodyRaises(j) \/ Report(j)
      BY <1>0, <3>7 DEF BodyRaises, Report
    <3>8. CASE Validate(j)
      BY <3>8, ValidateEffect
    <3>9. CASE SendRequest(j) \/ RequestEnds(j)
      BY <3>9, SendEffect, AnswerEffect
    <3> QED
      BY <1>3, <3>1, <3>2, <3>3, <3>4, <3>5, <3>6, <3>7, <3>8, <3>9 DEF Working
  <2> QED
    BY <2>1, <2>3
<1>4. ASSUME NEW o \in Operators, CancelFlag(o) \/ \E j \in Jobs : CancelRead(o, j)
      PROVE  \A k \in Jobs : StatusFits(k)'
  BY <1>4 DEF CancelFlag, CancelRead, recordVars, historyVars
<1>5. ASSUME NEW o \in Operators, CancelRecord(o)
      PROVE  \A k \in Jobs : StatusFits(k)'
  <2>1. cancel[o].job \in Jobs
    BY <1>5 DEF CancelRecord, Handler
  <2> QED
    BY <1>0, <1>5, <2>1, TransitionEffect DEF CancelRecord, historyVars, ScanRunState
<1>6. CASE Crash
  BY <1>6 DEF Crash, recordVars
<1>7. ASSUME NEW j \in Jobs, Reconcile(j)
      PROVE  \A k \in Jobs : StatusFits(k)'
  BY <1>0, <1>7, TransitionEffect DEF Reconcile, Interrupted, historyVars, ScanRunState
<1>8. CASE Serve \/ UNCHANGED vars
  BY <1>8 DEF Serve, vars, recordVars, historyVars
<1> QED
  BY <1>1, <1>2, <1>3, <1>4, <1>5, <1>6, <1>7, <1>8 DEF Next, Cancelling, Restarting
-----------------------------------------------------------------------------
(* Rows and reports are never taken back. *)
LEMMA RowsStay ==
    ASSUME Record!TypeOK, [Record!Next]_recordVars
    PROVE  /\ reports \subseteq reports'
           /\ \A k \in Jobs : Record!Visited(k) \subseteq Record!Visited(k)'
<1>1. ASSUME NEW j \in Jobs, NEW target \in Record!ScanRunState, Record!Move(j, target)
      PROVE  /\ reports \subseteq reports'
             /\ \A k \in Jobs : Record!Visited(k) \subseteq Record!Visited(k)'
  <2>1. target \in ScanRunState /\ TransitionJob(j, target)
    BY <1>1, SameTable DEF Record!Move, TransitionJob
  <2>2. Record!Visited(j) \subseteq Record!Visited(j)' /\ reports' = reports
    BY <2>1, TransitionEffect
  <2>3. \A k \in Jobs \ {j} : transitions'[k] = transitions[k]
    BY <2>1, TransitionEffect
  <2>4. \A k \in Jobs \ {j} : Record!Visited(k)' = Record!Visited(k)
    BY <2>3 DEF Record!Visited
  <2> HIDE DEF Record!Visited
  <2> QED
    BY <2>2, <2>4
<1>2. ASSUME NEW j \in Jobs, Record!Create(j) \/ Record!Send(j) \/ Record!Publish(j)
      PROVE  /\ reports \subseteq reports'
             /\ \A k \in Jobs : Record!Visited(k) \subseteq Record!Visited(k)'
  BY <1>2 DEF Record!Create, Record!Send, Record!Publish, Record!Visited
<1> QED
  BY <1>1, <1>2 DEF Record!Next, recordVars, Record!Visited

(* So what a worker has on record stays there. *)
LEMMA RowsInductive == ASSUME IInv, [Next]_vars PROVE \A k \in Jobs : RowsFit(k)'
<1>0. reports \subseteq reports' /\ \A k \in Jobs : Record!Visited(k) \subseteq Record!Visited(k)'
  BY RecordStep, RowsStay DEF IInv, TypeOK
<1> USE <1>0 DEF IInv, TypeOK, AllFit, RowsFit, Scanning, Reporting
<1>1. ASSUME NEW j \in Jobs, Posting(j), ~PostStart(j)
      PROVE  \A k \in Jobs : RowsFit(k)'
  BY <1>1 DEF Posting, PostAdmit, PostCreate, PostCreateRaises, PostRegister, PostEnqueue,
              PostStartRaises, recordVars
<1>2. ASSUME NEW j \in Jobs, PostStart(j)
      PROVE  \A k \in Jobs : RowsFit(k)'
  <2>1. GoTo(j, "adopt")
    BY <1>2 DEF PostStart, GoTo
  <2> QED
    BY <1>2, <2>1, GoToEffect DEF PostStart, WorkerStep, recordVars
<1>3. ASSUME NEW j \in Jobs, Working(j)
      PROVE  \A k \in Jobs : RowsFit(k)'
  <2>1. \A k \in Jobs \ {j} : RowsFit(k)'
    BY <1>3, WorkerFrame DEF Untouched
  <2>2. RowsFit(j)'
    <3> USE GoToEffect, UnwindEffect
            DEF At, WorkerStep, RaiseIfStopped, StopStates, TerminalStates, recordVars,
                historyVars
    <3>1. CASE \/ AdoptToken(j) \/ AcquireSlot(j) \/ DiscardToken(j) \/ ReleaseSlot(j)
               \/ TerminalWriteRaises(j)
      BY <3>1 DEF AdoptToken, AcquireSlot, DiscardToken, ReleaseSlot, TerminalWriteRaises
    <3>2. CASE SlotLost(j) \/ Reject(j) \/ Finish(j)
      BY <3>2 DEF SlotLost, Reject, Finish
    <3>3. CASE Claim(j)
      <4>1. status[j] = "queued" \/ IsTerminal(status[j])
        BY <3>3 DEF Claim, StatusFits, BeforeClaim
      <4> QED
        BY <3>3, <4>1, Moves, TransitionEffect DEF Claim, RunIsOver, ScanRunState
    <3>4. CASE Analyse(j)
      BY <3>4, TransitionEffect DEF Analyse, ScanRunState
    <3>5. CASE FailJob(j) \/ BodyRaises(j)
      BY <3>5 DEF FailJob, BodyRaises
    <3>6. CASE Enter(j) \/ CheckPayload(j) \/ Settle(j) \/ Report(j)
      BY <3>6 DEF Enter, CheckPayload, Settle, Report
    <3>7. CASE Validate(j)
      BY <3>7, ValidateEffect
    <3>8. CASE SendRequest(j) \/ RequestEnds(j)
      BY <3>8, SendEffect, AnswerEffect
    <3> QED
      BY <1>3, <3>1, <3>2, <3>3, <3>4, <3>5, <3>6, <3>7, <3>8 DEF Working
  <2> QED
    BY <2>1, <2>2
<1>4. ASSUME NEW o \in Operators, CancelFlag(o) \/ \E j \in Jobs : CancelRead(o, j)
      PROVE  \A k \in Jobs : RowsFit(k)'
  BY <1>4 DEF CancelFlag, CancelRead
<1>5. ASSUME NEW o \in Operators, CancelRecord(o)
      PROVE  \A k \in Jobs : RowsFit(k)'
  BY <1>5 DEF CancelRecord
<1>6. CASE Crash
  BY <1>6 DEF Crash
<1>7. ASSUME NEW j \in Jobs, Reconcile(j)
      PROVE  \A k \in Jobs : RowsFit(k)'
  BY <1>7 DEF Reconcile
<1>8. CASE Serve \/ UNCHANGED vars
  BY <1>8 DEF Serve, vars
<1> QED
  BY <1>1, <1>2, <1>3, <1>4, <1>5, <1>6, <1>7, <1>8 DEF Next, Cancelling, Restarting

(* A payload never has more attempts than the target allows. *)
LEMMA CountsInductive == ASSUME IInv, [Next]_vars PROVE \A k \in Jobs : CountsFit(k)'
<1> USE RunnerAssumption DEF IInv, TypeOK, AllFit, CountsFit, BeforeClaim
<1>1. ASSUME NEW j \in Jobs, Posting(j)
      PROVE  \A k \in Jobs : CountsFit(k)'
  <2>1. CASE PostStart(j)
    <3>1. GoTo(j, "adopt") /\ run[j].at = "none"
      BY <2>1 DEF PostStart, PostGoes, GoTo, SeatFits
    <3> QED
      BY <3>1, GoToEffect DEF WorkerStep
  <2> QED
    BY <1>1, <2>1 DEF Posting, PostAdmit, PostCreate, PostCreateRaises, PostRegister, PostEnqueue,
              PostStartRaises
<1>2. ASSUME NEW j \in Jobs, Working(j)
      PROVE  \A k \in Jobs : CountsFit(k)'
  <2>1. \A k \in Jobs \ {j} : CountsFit(k)'
    BY <1>2, WorkerFrame DEF Untouched
  <2>2. CountsFit(j)'
    <3> USE GoToEffect, UnwindEffect
            DEF At, WorkerStep, RaiseIfStopped, StopStates, TerminalStates
    <3>1. CASE AdoptToken(j) \/ AcquireSlot(j) \/ SlotLost(j) \/ Enter(j) \/ Claim(j)
      BY <3>1 DEF AdoptToken, AcquireSlot, SlotLost, Enter, Claim
    <3>2. CASE \/ Reject(j) \/ Settle(j) \/ Analyse(j) \/ Report(j) \/ Finish(j)
               \/ BodyRaises(j) \/ DiscardToken(j) \/ ReleaseSlot(j)
               \/ TerminalWriteRaises(j) \/ FailJob(j)
      BY <3>2 DEF Reject, Settle, Analyse, Report, Finish, BodyRaises, DiscardToken,
                  ReleaseSlot, TerminalWriteRaises, FailJob
    <3>3. CASE CheckPayload(j)
      BY <3>3 DEF CheckPayload
    <3>4. CASE Validate(j)
      BY <3>4, ValidateEffect
    <3>5. CASE SendRequest(j)
      <4>1. run[j].tries \in Nat
        BY DEF Worker
      <4>2. /\ run'[j].at = "inflight"
            /\ run'[j].left = run[j].left /\ run'[j].tries = run[j].tries + 1
        BY <3>5, SendEffect
      <4>3. run[j].left >= 1
        <5>1. run[j].at = "send"
          BY <3>5, SendEffect
        <5> QED
          BY <5>1
      <4>4. run[j].tries + 1 >= 1
        BY <4>1
      <4> QED
        BY <4>2, <4>3, <4>4
    <3>6. CASE RequestEnds(j)
      BY <3>6, AnswerEffect
    <3> QED
      BY <1>2, <3>1, <3>2, <3>3, <3>4, <3>5, <3>6 DEF Working
  <2> QED
    BY <2>1, <2>2
<1>3. CASE Crash
  BY <1>3 DEF Crash
<1>4. CASE (\E o \in Operators : Cancelling(o)) \/ Restarting \/ UNCHANGED vars
  BY <1>4 DEF Cancelling, CancelFlag, CancelRecord, CancelRead, Restarting, Serve, Reconcile, vars
<1> QED
  BY <1>1, <1>2, <1>3, <1>4 DEF Next

(* Once a stop is on the token no new payload is begun, so the requests begun *)
(* after it are attempts at one payload.                                      *)
LEMMA LateInductive == ASSUME IInv, [Next]_vars PROVE \A k \in Jobs : LateFits(k)'
<1> USE RunnerAssumption DEF IInv, TypeOK, AllFit, LateFits
<1>1. ASSUME NEW j \in Jobs, Posting(j)
      PROVE  \A k \in Jobs : LateFits(k)'
  <2>1. run[j].at = "none"
    BY <1>1 DEF SeatFits, Posting, PostAdmit, PostCreate, PostCreateRaises, PostRegister,
                PostEnqueue, PostStart, PostStartRaises, PostGoes
  <2>2. CASE PostStart(j)
    <3>1. GoTo(j, "adopt")
      BY <2>2 DEF PostStart, GoTo
    <3> QED
      BY <2>1, <2>2, <3>1, GoToEffect DEF PostStart, WorkerStep, historyVars
  <2> QED
    BY <1>1, <2>1, <2>2
       DEF Posting, PostAdmit, PostCreate, PostCreateRaises, PostRegister, PostEnqueue,
           PostStartRaises, historyVars
<1>2. ASSUME NEW j \in Jobs, Working(j)
      PROVE  \A k \in Jobs : LateFits(k)'
  <2>1. \A k \in Jobs \ {j} : LateFits(k)'
    BY <1>2, WorkerFrame DEF Untouched
  <2>2. LateFits(j)'
    <3> USE GoToEffect, UnwindEffect
            DEF At, WorkerStep, RaiseIfStopped, StopStates, TerminalStates, historyVars
    <3>1. CASE AdoptToken(j) \/ AcquireSlot(j) \/ SlotLost(j) \/ Enter(j) \/ Claim(j)
      BY <3>1 DEF AdoptToken, AcquireSlot, SlotLost, Enter, Claim
    <3>2. CASE \/ Reject(j) \/ Analyse(j) \/ Report(j) \/ Finish(j)
               \/ BodyRaises(j) \/ FailJob(j)
      BY <3>2 DEF Reject, Analyse, Report, Finish, BodyRaises, FailJob
    <3>3. CASE DiscardToken(j) \/ ReleaseSlot(j) \/ TerminalWriteRaises(j)
      BY <3>3 DEF DiscardToken, ReleaseSlot, TerminalWriteRaises
    <3>4. CASE CheckPayload(j) \/ Settle(j)
      <4>1. /\ token[j] = "stopped" => run'[j].at = "fail"
            /\ run'[j].at \in {"fail", "send", "analyse"}
            /\ run[j].at \in {"check", "settle"}
            /\ lateSends' = lateSends /\ token' = token
        BY <3>4 DEF CheckPayload, Settle
      <4>2. token[j] # "stopped" => lateSends[j] = 0
        BY <4>1
      <4>3. run'[j].tries \in Nat
        BY <1>2, WorkerFrame DEF Worker
      <4> QED
        BY <4>1, <4>2, <4>3
    <3>5. CASE Validate(j)
      BY <3>5, ValidateEffect
    <3>6. CASE SendRequest(j)
      <4>1. /\ run'[j].at = "inflight" /\ run'[j].tries = run[j].tries + 1
            /\ run[j].at = "send" /\ run[j].tries \in Nat /\ run[j].tries < Attempts
        <5>1. run[j].at = "send"
          BY <3>6 DEF SendRequest
        <5>3. run[j].tries \in Nat
          BY DEF Worker
        <5>2. run'[j].at = "inflight" /\ run'[j].tries = run[j].tries + 1
          BY <3>6, SendEffect
        <5> QED
          BY <5>1, <5>2, <5>3 DEF CountsFit
      <4>2. /\ lateSends[j] \in Nat /\ token' = token
            /\ lateSends'[j] = IF token[j] = "stopped" THEN lateSends[j] + 1 ELSE lateSends[j]
        <5>1. lateSends \in [Jobs -> Nat]
          OBVIOUS
        <5>2. /\ lateSends' = [lateSends EXCEPT ![j] = IF token[j] = "stopped" THEN @ + 1 ELSE @]
              /\ token' = token
          BY <3>6, SendEffect
        <5> QED
          BY <5>1, <5>2
      <4>3. lateSends'[j] <= run'[j].tries /\ lateSends'[j] <= Attempts
        BY <4>1, <4>2
      <4>4. lateSends'[j] > 0 => token[j] = "stopped"
        BY <4>1, <4>2
      <4> QED
        BY <4>1, <4>2, <4>3, <4>4
    <3>7. CASE RequestEnds(j)
      BY <3>7, AnswerEffect
    <3> QED
      BY <1>2, <3>1, <3>2, <3>3, <3>4, <3>5, <3>6, <3>7 DEF Working
  <2> QED
    BY <2>1, <2>2
<1>3. ASSUME NEW o \in Operators, CancelFlag(o)
      PROVE  \A k \in Jobs : LateFits(k)'
  BY <1>3 DEF CancelFlag, Handler
<1>4. CASE Crash
  BY <1>4 DEF Crash
<1>5. ASSUME NEW o \in Operators, CancelRecord(o) \/ \E j \in Jobs : CancelRead(o, j)
      PROVE  \A k \in Jobs : LateFits(k)'
  BY <1>5 DEF CancelRecord, CancelRead, historyVars
<1>6. CASE Restarting \/ UNCHANGED vars
  BY <1>6 DEF Restarting, Serve, Reconcile, vars, historyVars
<1> QED
  BY <1>1, <1>2, <1>3, <1>4, <1>5, <1>6 DEF Next, Cancelling

(* A stop that was asked for in time survives every hand-over of the token, *)
(* so the worker meets it before it can analyse, report or complete.        *)
LEMMA StopInductive == ASSUME IInv, [Next]_vars PROVE \A k \in Jobs : StopFits(k)'
<1> USE DEF IInv, TypeOK, AllFit, StopFits, StillChecking
<1>0. status \in [Jobs -> {"absent"} \union ScanRunState]
  BY SameTable DEF Record!TypeOK
<1>1. ASSUME NEW j \in Jobs, Posting(j)
      PROVE  \A k \in Jobs : StopFits(k)'
  <2>1. run[j].at = "none"
    BY <1>1 DEF SeatFits, Posting, PostAdmit, PostCreate, PostCreateRaises, PostRegister,
                PostEnqueue, PostStart, PostStartRaises, PostGoes
  <2>2. CASE PostStart(j)
    <3>1. GoTo(j, "adopt")
      BY <2>2 DEF PostStart, GoTo
    <3> QED
      BY <2>1, <2>2, <3>1, GoToEffect
         DEF PostStart, PostGoes, WorkerStep, historyVars, recordVars
  <2>3. CASE PostCreate(j)
    BY <1>0, <2>1, <2>3 DEF PostCreate, PostGoes, historyVars
  <2>4. CASE PostRegister(j)
    BY <2>1, <2>4 DEF PostRegister, PostGoes, historyVars, recordVars
  <2>5. CASE PostAdmit(j) \/ PostCreateRaises(j) \/ PostEnqueue(j) \/ PostStartRaises(j)
    BY <2>1, <2>5
       DEF PostAdmit, PostCreateRaises, PostEnqueue, PostStartRaises, PostGoes, historyVars,
           recordVars
  <2> QED
    BY <1>1, <2>2, <2>3, <2>4, <2>5 DEF Posting
<1>2. ASSUME NEW j \in Jobs, Working(j)
      PROVE  \A k \in Jobs : StopFits(k)'
  <2>1. post' = post /\ stopAsked' = stopAsked /\ \A k \in Jobs \ {j} : StopFits(k)'
    BY <1>2, WorkerFrame DEF Untouched
  <2>2. post[j] = "done"
    BY <1>2 DEF SeatFits, Working, AdoptToken, AcquireSlot, SlotLost, Enter, Claim, Validate,
             Reject, CheckPayload, SendRequest, RequestEnds, Settle, Analyse, Report, Finish,
             BodyRaises, FailJob, TerminalWriteRaises, DiscardToken, ReleaseSlot, At
  <2>3. StopFits(j)'
    <3> USE <2>1, <2>2, GoToEffect, UnwindEffect
            DEF At, WorkerStep, RaiseIfStopped, StopStates, TerminalStates, recordVars
    <3>1. CASE AdoptToken(j) \/ AcquireSlot(j) \/ DiscardToken(j) \/ ReleaseSlot(j)
      BY <3>1 DEF AdoptToken, AcquireSlot, DiscardToken, ReleaseSlot
    <3>2. CASE TerminalWriteRaises(j) \/ BodyRaises(j)
      BY <3>2 DEF TerminalWriteRaises, BodyRaises
    <3>3. CASE SlotLost(j) \/ Claim(j) \/ Reject(j)
      BY <3>3, TransitionEffect DEF SlotLost, Claim, Reject, ScanRunState
    <3>4. CASE Analyse(j) \/ Finish(j)
      BY <3>4, TransitionEffect DEF Analyse, Finish, ScanRunState
    <3>5. CASE FailJob(j)
      <4>1. run[j].ending \in StopStates
        BY DEF Worker
      <4> QED
        BY <3>5, <4>1, TransitionEffect DEF FailJob, ScanRunState
    <3>6. CASE Enter(j) \/ CheckPayload(j) \/ Settle(j)
      BY <3>6 DEF Enter, CheckPayload, Settle
    <3>7. CASE Report(j)
      BY <3>7 DEF Report
    <3>8. CASE Validate(j)
      BY <3>8, ValidateEffect
    <3>9. CASE SendRequest(j)
      BY <3>9, SendEffect
    <3>10. CASE RequestEnds(j)
      BY <3>10, AnswerEffect
    <3> QED
      BY <1>2, <3>1, <3>2, <3>3, <3>4, <3>5, <3>6, <3>7, <3>8, <3>9, <3>10 DEF Working
  <2> QED
    BY <2>1, <2>3
<1>3. ASSUME NEW o \in Operators, CancelFlag(o)
      PROVE  \A k \in Jobs : StopFits(k)'
  <2>1. PICK j \in Jobs : j = cancel[o].job
    BY <1>3 DEF CancelFlag, Handler
  <2>2. UNCHANGED <<post, run, status, reports>>
    BY <1>3 DEF CancelFlag, recordVars
  <2>3. CASE token[j] = "clear"
    <3>1. \A k \in Jobs \ {j} : token'[k] = token[k] /\ stopAsked'[k] = stopAsked[k]
      BY <1>3, <2>1, <2>3 DEF CancelFlag
    <3>2. token'[j] = "stopped" /\ post[j] \notin {"idle", "create", "register"}
      BY <1>3, <2>1, <2>3 DEF CancelFlag
    <3>3. stopAsked'[j] = "timely" =>
             \/ stopAsked[j] = "timely"
             \/ status[j] \notin TerminalStates /\ run[j].at \in StillChecking
      BY <1>3, <2>1, <2>3 DEF CancelFlag, IsTerminal
    <3>4. status[j] \notin TerminalStates => status[j] # "completed"
      BY DEF TerminalStates
    <3>5. StopFits(j)'
      BY <2>2, <3>2, <3>3, <3>4
    <3> QED
      BY <2>2, <3>1, <3>5
  <2>4. CASE token[j] # "clear"
    BY <1>3, <2>1, <2>2, <2>4 DEF CancelFlag
  <2> QED
    BY <2>3, <2>4
<1>4. ASSUME NEW o \in Operators, \E j \in Jobs : CancelRead(o, j)
      PROVE  \A k \in Jobs : StopFits(k)'
  BY <1>4 DEF CancelRead, recordVars, historyVars
<1>5. ASSUME NEW o \in Operators, CancelRecord(o)
      PROVE  \A k \in Jobs : StopFits(k)'
  <2>1. cancel[o].job \in Jobs
    BY <1>5 DEF CancelRecord, Handler
  <2> QED
    BY <1>5, <2>1, TransitionEffect DEF CancelRecord, historyVars, ScanRunState
<1>6. CASE Crash
  BY <1>6 DEF Crash, recordVars
<1>7. ASSUME NEW j \in Jobs, Reconcile(j)
      PROVE  \A k \in Jobs : StopFits(k)'
  BY <1>7, TransitionEffect DEF Reconcile, historyVars, ScanRunState
<1>8. CASE Serve \/ UNCHANGED vars
  BY <1>8 DEF Serve, vars, recordVars, historyVars
<1> QED
  BY <1>1, <1>2, <1>3, <1>4, <1>5, <1>6, <1>7, <1>8 DEF Next, Cancelling, Restarting
-----------------------------------------------------------------------------
(* The invariant holds from the first state on. *)
LEMMA InvariantHolds == Spec => []IInv
<1>1. Init => IInv
  <2> SUFFICES ASSUME Init
               PROVE  IInv
    OBVIOUS
  <2>1. Gate!TypeOK /\ Gate!SeatsAccounted /\ Gate!ActiveBound /\ Gate!NoLostWakeup
    <3>1. Cardinality({}) = 0
      BY FS_EmptySet
    <3> QED
      BY <3>1, SameSets, RunnerAssumption
         DEF Init, Gate!Init, Gate!TypeOK, Gate!SeatsAccounted, Gate!ActiveBound,
             Gate!NoLostWakeup, Gate!GateState, Gate!Trying, Gate!NeverStarted
  <2>2. Record!TypeOK /\ Record!TransitionsChain /\ Record!RecordCoversTraffic
    BY DEF Init, Record!Init, Record!TypeOK, Record!TransitionsChain, Record!HistoryOf,
           Record!RecordCoversTraffic
  <2>3. TypeOK
    BY <2>1, <2>2, RunnerAssumption
       DEF Init, TypeOK, PostStep, Worker, WorkerStep, Handler, StopStates, TerminalStates
  <2>4. AllFit
    BY RunnerAssumption
       DEF Init, Gate!Init, Record!Init, AllFit, SeatFits, StatusFits, RowsFit, CountsFit,
           LateFits, StopFits, WithSlot, BeforeClaim, Scanning, Reporting, Leaving
  <2> QED
    BY <2>1, <2>2, <2>3, <2>4 DEF IInv
<1>2. IInv /\ [Next]_vars => IInv'
  <2> SUFFICES ASSUME IInv, [Next]_vars
               PROVE  IInv'
    OBVIOUS
  <2>1. AllFit'
    BY SeatsInductive, StatusInductive, RowsInductive, CountsInductive, LateInductive,
       StopInductive DEF AllFit
  <2>2. Gate!SeatsAccounted' /\ Gate!ActiveBound' /\ Gate!NoLostWakeup'
    BY GateStep, GateInductive DEF IInv, TypeOK
  <2>3. Record!TransitionsChain' /\ Record!RecordCoversTraffic'
    BY RecordStep, RecordInductive DEF IInv, TypeOK
  <2> QED
    BY <2>1, <2>2, <2>3, TypeInductive DEF IInv
<1> QED
  BY <1>1, <1>2, PTL DEF Spec

(* Type correctness of the store, the registry, the gate, every handler and  *)
(* every worker.                                                             *)
THEOREM TypeCorrect == Spec => []TypeOK
<1>1. IInv => TypeOK
  BY DEF IInv
<1> QED
  BY <1>1, InvariantHolds, PTL

(* The admission check, the queue and the slots of hosted_server.py are used *)
(* by handlers and workers as SlotGate says, restarts included.              *)
THEOREM GateRefined == Spec => GateKept
<1>1. Init => Gate!Init
  BY DEF Init
<1>2. [Next]_vars => [Gate!Next]_Gate!gateVars
  BY GateStep DEF Gate!gateVars, gateVars
<1> QED
  BY <1>1, <1>2, PTL DEF Spec, GateKept, Gate!Spec

(* Hence in the running server the slot bound holds, every seat is accounted *)
(* for and no thread sleeps past a free slot.                                *)
THEOREM GatePromises ==
    Spec => [](Gate!ActiveBound /\ Gate!SeatsAccounted /\ Gate!NoLostWakeup)
<1>1. IInv => Gate!ActiveBound /\ Gate!SeatsAccounted /\ Gate!NoLostWakeup
  BY DEF IInv
<1> QED
  BY <1>1, InvariantHolds, PTL

(* Whatever handlers, workers, cancels and restarts write, and in whatever   *)
(* order, the record moves as RunRecord says.                                *)
THEOREM RecordRefined == Spec => RecordKept
<1>1. Init => Record!Init
  BY DEF Init
<1>2. IInv /\ [Next]_vars => [Record!Next]_Record!recordVars
  BY RecordStep DEF IInv, Record!recordVars, recordVars
<1> QED
  BY <1>1, <1>2, InvariantHolds, PTL DEF Spec, RecordKept, Record!Spec

(* Hence in the running server a run's rows are its history, traffic and     *)
(* reports have a running row behind them, and a run that is over stays as   *)
(* it ended, also under the worker, the cancel handlers and a restart that   *)
(* still write to it.                                                        *)
THEOREM RecordPromises ==
    Spec => /\ [](Record!TransitionsChain /\ Record!RecordCoversTraffic)
            /\ [][\A j \in Jobs : IsTerminal(status[j]) =>
                     status'[j] = status[j] /\ transitions'[j] = transitions[j]]_vars
<1>1. IInv => Record!TransitionsChain /\ Record!RecordCoversTraffic
  BY DEF IInv
<1>2. IInv /\ [Next]_vars =>
        [\A j \in Jobs : IsTerminal(status[j]) =>
            status'[j] = status[j] /\ transitions'[j] = transitions[j]]_vars
  BY RecordStep, RecordInductive, SameTable DEF IInv, TypeOK
<1> QED
  BY <1>1, <1>2, InvariantHolds, PTL DEF Spec
-----------------------------------------------------------------------------
(* A thread between two requests or inside one has its slot, and the slots   *)
(* bound the threads: never more than MAX_CONCURRENT_SCANS targets under     *)
(* test at once.                                                             *)
THEOREM TrafficNeedsSlot == Spec => []TrafficHoldsSlot
<1>1. IInv => TrafficHoldsSlot
  <2> SUFFICES ASSUME IInv
               PROVE  TrafficHoldsSlot
    OBVIOUS
  <2>1. activeScans \subseteq Jobs
    BY DEF IInv, TypeOK, Gate!TypeOK
  <2>2. \A j \in Jobs : run[j].at \in {"send", "inflight"} => j \in activeScans
    BY DEF IInv, AllFit, SeatFits, WithSlot, Scanning, Gate!SeatsAccounted
  <2>3. {j \in Jobs : run[j].at = "inflight"} \subseteq activeScans
    BY <2>2
  <2>4. IsFiniteSet(activeScans)
    BY <2>1, RunnerAssumption, FS_Subset
  <2>5. Cardinality({j \in Jobs : run[j].at = "inflight"}) <= Cardinality(activeScans)
    BY <2>3, <2>4, FS_Subset
  <2>6. /\ Cardinality(activeScans) \in Nat
        /\ Cardinality({j \in Jobs : run[j].at = "inflight"}) \in Nat
    BY <2>3, <2>4, FS_Subset, FS_CardinalityType
  <2>7. Cardinality(activeScans) <= MaxConcurrentScans
    BY SameSets DEF IInv, Gate!ActiveBound
  <2>8. Cardinality({j \in Jobs : run[j].at = "inflight"}) <= MaxConcurrentScans
    BY <2>5, <2>6, <2>7, RunnerAssumption
  <2> QED
    BY <2>2, <2>8 DEF TrafficHoldsSlot
<1> QED
  BY <1>1, InvariantHolds, PTL

(* A stop the worker could still see is never followed by a report or by a   *)
(* completion.                                                               *)
THEOREM TimelyStopsHeeded == Spec => []TimelyStopHeeded
<1>1. IInv => TimelyStopHeeded
  BY DEF IInv, AllFit, StopFits, TimelyStopHeeded
<1> QED
  BY <1>1, InvariantHolds, PTL

(* After a stop reached the token at most one payload still goes out: as     *)
(* many requests as retry.attempts allows it.                                *)
THEOREM LateRequestsBounded == Spec => [](\A j \in Jobs : lateSends[j] <= Attempts)
<1>1. IInv => \A j \in Jobs : lateSends[j] <= Attempts
  BY DEF IInv, AllFit, LateFits
<1> QED
  BY <1>1, InvariantHolds, PTL

(* The bound core/cancellation.py:18 promises holds when a target is not     *)
(* retried (the run retry_stop shows that it fails when it is).              *)
THEOREM OneLateRequest == ASSUME Attempts = 1 PROVE Spec => []AtMostOneLateRequest
<1>1. (\A j \in Jobs : lateSends[j] <= Attempts) => AtMostOneLateRequest
  BY DEF AtMostOneLateRequest
<1> QED
  BY <1>1, LateRequestsBounded, PTL
-----------------------------------------------------------------------------
(* No step drops a run that is in progress: a worker that leaves has ended   *)
(* it, or its last write raised.                                             *)
LEMMA OrphansInductive ==
    ASSUME IInv, NoOrphanRun, [Next]_vars
    PROVE  NoOrphanRun'
<1> USE DEF IInv, TypeOK, AllFit, NoOrphanRun, Interrupted
<1>0. status \in [Jobs -> {"absent"} \union ScanRunState]
  BY SameTable DEF Record!TypeOK
<1>1. ASSUME NEW j \in Jobs, Posting(j), ~PostStart(j)
      PROVE  NoOrphanRun'
  <2>1. CASE PostAdmit(j) \/ PostCreateRaises(j)
    BY <2>1 DEF StatusFits, PostAdmit, PostCreateRaises, PostGoes, recordVars, historyVars
  <2>2. CASE PostCreate(j)
    BY <1>0, <2>2 DEF PostCreate, PostGoes, historyVars
  <2>3. CASE PostRegister(j) \/ PostEnqueue(j) \/ PostStartRaises(j)
    BY <2>3 DEF PostRegister, PostEnqueue, PostStartRaises, PostGoes, recordVars, historyVars
  <2> QED
    BY <1>1, <2>1, <2>2, <2>3 DEF Posting
<1>2. ASSUME NEW j \in Jobs, PostStart(j)
      PROVE  NoOrphanRun'
  <2>1. GoTo(j, "adopt")
    BY <1>2 DEF PostStart, GoTo
  <2> QED
    BY <1>2, <2>1, GoToEffect DEF PostStart, PostGoes, WorkerStep, recordVars, historyVars
<1>3. ASSUME NEW j \in Jobs, Working(j)
      PROVE  NoOrphanRun'
  <2>1. /\ post' = post /\ up' = up
        /\ \A k \in Jobs \ {j} : Untouched(k)
    BY <1>3, WorkerFrame
  <2>2. \/ run'[j].at \notin {"none", "done"}
        \/ j \in stranded'
        \/ IsTerminal(status'[j])
    <3> USE GoToEffect, UnwindEffect
            DEF At, WorkerStep, RaiseIfStopped, StopStates, TerminalStates, historyVars
    <3>1. CASE SlotLost(j)
      BY <1>0, <3>1, Moves, TransitionEffect DEF SlotLost, StatusFits, BeforeClaim, ScanRunState
    <3>2. CASE ReleaseSlot(j)
      BY <3>2 DEF ReleaseSlot, StatusFits, Leaving, recordVars
    <3>3. CASE TerminalWriteRaises(j)
      BY <3>3 DEF TerminalWriteRaises
    <3>4. CASE \/ AdoptToken(j) \/ AcquireSlot(j) \/ Enter(j) \/ Claim(j) \/ Reject(j)
               \/ CheckPayload(j) \/ Settle(j) \/ Analyse(j)
      BY <3>4 DEF AdoptToken, AcquireSlot, Enter, Claim, Reject, CheckPayload, Settle, Analyse
    <3>5. CASE Report(j) \/ Finish(j) \/ BodyRaises(j) \/ FailJob(j) \/ DiscardToken(j)
      BY <3>5 DEF Report, Finish, BodyRaises, FailJob, DiscardToken
    <3>6. CASE Validate(j)
      BY <3>6, ValidateEffect
    <3>7. CASE SendRequest(j) \/ RequestEnds(j)
      BY <3>7, SendEffect, AnswerEffect
    <3> QED
      BY <1>3, <3>1, <3>2, <3>3, <3>4, <3>5, <3>6, <3>7 DEF Working
  <2> QED
    BY <2>1, <2>2 DEF Untouched
<1>4. ASSUME NEW o \in Operators, CancelFlag(o) \/ \E j \in Jobs : CancelRead(o, j)
      PROVE  NoOrphanRun'
  BY <1>4 DEF CancelFlag, CancelRead, recordVars, historyVars
<1>5. ASSUME NEW o \in Operators, CancelRecord(o)
      PROVE  NoOrphanRun'
  <2>1. cancel[o].job \in Jobs
    BY <1>5 DEF CancelRecord, Handler
  <2> QED
    BY <1>0, <1>5, <2>1, Moves, TransitionEffect DEF CancelRecord, historyVars, ScanRunState
<1>6. CASE Crash
  BY <1>6 DEF Crash
<1>7. ASSUME NEW j \in Jobs, Reconcile(j)
      PROVE  NoOrphanRun'
  BY <1>7 DEF Reconcile
<1>8. CASE Serve
  BY <1>8 DEF Serve, ReadyToServe, recordVars
<1>9. CASE UNCHANGED vars
  BY <1>9 DEF vars, recordVars, historyVars
<1> QED
  BY <1>1, <1>2, <1>3, <1>4, <1>5, <1>6, <1>7, <1>8, <1>9 DEF Next, Cancelling, Restarting

(* A run the record says is in progress is in somebody's hands, in           *)
(* particular after a restart.                                               *)
THEOREM NoRunOrphaned == Spec => []NoOrphanRun
<1>1. Init => NoOrphanRun
  BY DEF Init, Record!Init, NoOrphanRun, Interrupted
<1>2. IInv /\ NoOrphanRun /\ [Next]_vars => NoOrphanRun'
  BY OrphansInductive
<1> QED
  BY <1>1, <1>2, InvariantHolds, PTL DEF Spec
=============================================================================
