----------------------------- MODULE ScanRunner -----------------------------
(***************************************************************************)
(* A scan from POST /api/scans to its last write: the handler that admits  *)
(* it, the worker thread of run_scan_job, the operators that cancel it and *)
(* the restart of the server, over one job store, one registry of          *)
(* cancellation tokens and the slots of SlotGate.                          *)
(*                                                                         *)
(* A step of a thread ends where it lets others in: at a call on the store *)
(* or on the registry (each is atomic under its own lock), at a critical   *)
(* section of the gate and at a request to the target.                     *)
(***************************************************************************)
EXTENDS ScanState, Naturals, Sequences, FiniteSets

CONSTANTS
    Jobs,                 \* the job ids a run of the server may hand out
    Operators,            \* users who may press Stop, one request at a time each
    MaxConcurrentScans,
    ScanQueueLimit,
    MaxPayloads,          \* bound: the most payloads one scan sends
    Attempts,             \* retry.attempts of the target
    StoreMayFail          \* whether a write of a terminal state may raise

ASSUME RunnerAssumption ==
    /\ IsFiniteSet(Jobs)
    /\ MaxConcurrentScans \in Nat \ {0}
    /\ ScanQueueLimit \in Nat \ {0}
    /\ MaxPayloads \in Nat
    /\ Attempts \in Nat \ {0}
    /\ StoreMayFail \in BOOLEAN

VARIABLES
    activeScans, queuedScans, waiters, gate,   \* see SlotGate
    status, transitions, reports,              \* the job store, see RunRecord
    traffic,     \* history: jobs that have sent a request
    token,       \* CANCELLATIONS: "none", "clear" or "stopped" per job
    post,        \* the POST handler of each job: what it does next
    run,         \* the worker of each job: what it does next, and its locals
    cancel,      \* the cancel handler each operator is in
    up,          \* whether the server is serving
    stopAsked,   \* history: when a cancel reached the token of a run in progress
    lateSends,   \* history: requests begun after that
    stranded     \* history: jobs whose terminal write or thread start raised

Gate == INSTANCE SlotGate
Record == INSTANCE RunRecord

gateVars == <<activeScans, queuedScans, waiters, gate>>
recordVars == <<status, transitions, reports, traffic>>
historyVars == <<stopAsked, lateSends, stranded>>
vars == <<gateVars, recordVars, token, post, run, cancel, up, historyVars>>

PostStep == {"idle", "create", "register", "enqueue", "start", "done"}

WorkerStep == {"none", "adopt", "slot", "slot_lost", "entry", "claim", "validate",
               "reject", "check", "send", "inflight", "settle", "analyse", "report",
               "finish", "fail", "discard", "release", "done"}

(* The worker has yet to pass the last look at its token (the raise_if_stopped *)
(* that follows the scan).                                                     *)
StillChecking == WorkerStep \ {"analyse", "report", "finish", "fail", "discard",
                               "release", "done"}

Worker == [at : WorkerStep, ending : StopStates, left : 0..MaxPayloads,
           tries : 0..Attempts]

Handler == [at : {"idle"}] \union
           [at : {"flag", "record"}, job : Jobs, seen : {"queued", "running", "analysing"}]

Init ==
    /\ Gate!Init
    /\ Record!Init
    /\ token = [j \in Jobs |-> "none"]
    /\ post = [j \in Jobs |-> "idle"]
    /\ run = [j \in Jobs |-> [at |-> "none", ending |-> "failed", left |-> 0, tries |-> 0]]
    /\ cancel = [o \in Operators |-> [at |-> "idle"]]
    /\ up = TRUE
    /\ stopAsked = [j \in Jobs |-> "no"]
    /\ lateSends = [j \in Jobs |-> 0]
    /\ stranded = {}
-----------------------------------------------------------------------------
(* The store. *)

(* _transition_job: an illegal move is logged and leaves the record alone. *)
TransitionJob(j, target) ==
    /\ UNCHANGED <<reports, traffic>>
    /\ \/ /\ MayMove(status[j], target)
          /\ status' = [status EXCEPT ![j] = target]
          /\ transitions' = [transitions EXCEPT ![j] =
                                Append(@, [from_state |-> status[j], to_state |-> target])]
       \/ /\ ~MayMove(status[j], target)
          /\ UNCHANGED <<status, transitions>>
-----------------------------------------------------------------------------
(* POST /api/scans, from the capacity check to Thread.start(). *)

PostGoes(j, from, to) == post[j] = from /\ post' = [post EXCEPT ![j] = to]

PostAdmit(j) ==
    /\ up
    /\ PostGoes(j, "idle", "create")
    /\ Gate!Admit(j)
    /\ UNCHANGED <<recordVars, token, run, cancel, up, historyVars>>

PostCreate(j) ==
    /\ PostGoes(j, "create", "register")
    /\ status' = [status EXCEPT ![j] = "queued"]
    /\ UNCHANGED <<gateVars, transitions, reports, traffic, token, run, cancel, up,
                   historyVars>>

PostCreateRaises(j) ==
    /\ PostGoes(j, "create", "done")
    /\ Gate!Abandon(j)
    /\ UNCHANGED <<recordVars, token, run, cancel, up, historyVars>>

PostRegister(j) ==
    /\ PostGoes(j, "register", "enqueue")
    /\ token' = [token EXCEPT ![j] = "clear"]
    /\ UNCHANGED <<gateVars, recordVars, run, cancel, up, historyVars>>

PostEnqueue(j) ==
    /\ PostGoes(j, "enqueue", "start")
    /\ Gate!Enqueue(j)
    /\ UNCHANGED <<recordVars, token, run, cancel, up, historyVars>>

PostStart(j) ==
    /\ PostGoes(j, "start", "done")
    /\ run' = [run EXCEPT ![j].at = "adopt"]
    /\ UNCHANGED <<gateVars, recordVars, token, cancel, up, historyVars>>

PostStartRaises(j) ==
    /\ PostGoes(j, "start", "done")
    /\ Gate!StartFails(j)
    /\ stranded' = stranded \union {j}
    /\ UNCHANGED <<recordVars, token, run, cancel, up, stopAsked, lateSends>>

Posting(j) ==
    \/ PostAdmit(j) \/ PostCreate(j) \/ PostCreateRaises(j) \/ PostRegister(j)
    \/ PostEnqueue(j) \/ PostStart(j) \/ PostStartRaises(j)
-----------------------------------------------------------------------------
(* POST /api/scans/{id}/cancel.  The handler acts on the status it read.   *)

CancelRead(o, j) ==
    /\ up
    /\ cancel[o].at = "idle"
    /\ status[j] \in {"queued", "running", "analysing"}
    /\ cancel' = [cancel EXCEPT ![o] = [at |-> "flag", job |-> j, seen |-> status[j]]]
    /\ UNCHANGED <<gateVars, recordVars, token, post, run, up, historyVars>>

(* CANCELLATIONS.cancel: without a registered token nothing is flagged. *)
CancelFlag(o) ==
    /\ cancel[o].at = "flag"
    /\ LET j == cancel[o].job
       IN  /\ IF token[j] = "clear"
              THEN /\ token' = [token EXCEPT ![j] = "stopped"]
                   /\ stopAsked' = [stopAsked EXCEPT ![j] =
                          IF IsTerminal(status[j]) THEN @
                          ELSE IF run[j].at \in StillChecking THEN "timely" ELSE "late"]
              ELSE UNCHANGED <<token, stopAsked>>
           /\ cancel' = [cancel EXCEPT ![o] =
                  IF @.seen = "queued" THEN [@ EXCEPT !.at = "record"] ELSE [at |-> "idle"]]
    /\ UNCHANGED <<gateVars, recordVars, post, run, up, lateSends, stranded>>

CancelRecord(o) ==
    /\ cancel[o].at = "record"
    /\ TransitionJob(cancel[o].job, "cancelled")
    /\ cancel' = [cancel EXCEPT ![o] = [at |-> "idle"]]
    /\ UNCHANGED <<gateVars, token, post, run, up, historyVars>>

Cancelling(o) == CancelFlag(o) \/ CancelRecord(o) \/ \E j \in Jobs : CancelRead(o, j)
-----------------------------------------------------------------------------
(* run_scan_job, up to the RUNNING record. *)

At(j, step) == run[j].at = step
GoTo(j, step) == run' = [run EXCEPT ![j].at = step]

(* Mutant: the except clause records a state that is not one. *)
UnwindUnnamed(j, ending) == run' = [run EXCEPT ![j].at = "fail", ![j].ending = "stopped"]

(* An exception on its way to the except clause that records `ending`. *)
Unwind(j, ending) == run' = [run EXCEPT ![j].at = "fail", ![j].ending = ending]

AdoptToken(j) ==
    /\ At(j, "adopt")
    /\ GoTo(j, "slot")
    /\ token' = [token EXCEPT ![j] = IF @ = "none" THEN "clear" ELSE @]
    /\ UNCHANGED <<gateVars, recordVars, post, cancel, up, historyVars>>

(* Mutant: the worker goes on when no slot was free in time. *)
AcquireSlotOrNot(j) ==
    /\ At(j, "slot")
    /\ \/ Gate!TakeSlot(j) /\ GoTo(j, "entry")
       \/ (Gate!Wait(j) \/ Gate!WaitTimesOut(j)) /\ UNCHANGED run
       \/ Gate!GiveUp(j) /\ GoTo(j, "entry")
    /\ UNCHANGED <<recordVars, token, post, cancel, up, historyVars>>

AcquireSlot(j) ==
    /\ At(j, "slot")
    /\ \/ Gate!TakeSlot(j) /\ GoTo(j, "entry")
       \/ (Gate!Wait(j) \/ Gate!WaitTimesOut(j)) /\ UNCHANGED run
       \/ Gate!GiveUp(j) /\ GoTo(j, "slot_lost")
    /\ UNCHANGED <<recordVars, token, post, cancel, up, historyVars>>

(* Mutant: a run that got no slot disappears while still marked queued. *)
SlotLostSilently(j) ==
    /\ At(j, "slot_lost")
    /\ token' = [token EXCEPT ![j] = "none"]
    /\ GoTo(j, "done")
    /\ UNCHANGED <<gateVars, recordVars, post, cancel, up, historyVars>>

(* Capacity never freed: FAILED is recorded, then the token is discarded. *)
SlotLost(j) ==
    /\ At(j, "slot_lost")
    /\ TransitionJob(j, "failed")
    /\ token' = [token EXCEPT ![j] = "none"]
    /\ GoTo(j, "done")
    /\ UNCHANGED <<gateVars, post, cancel, up, historyVars>>

Enter(j) ==
    /\ At(j, "entry")
    /\ IF token[j] = "stopped" THEN Unwind(j, "cancelled") ELSE GoTo(j, "claim")
    /\ UNCHANGED <<gateVars, recordVars, token, post, cancel, up, historyVars>>

(* Mutant of RunIsOver: the worker ignores what the transition returned. *)
RunIsNeverOver(j) == FALSE

RunIsOver(j) == IsTerminal(status[j])

Claim(j) ==
    /\ At(j, "claim")
    /\ TransitionJob(j, "running")
    /\ GoTo(j, IF RunIsOver(j) THEN "discard" ELSE "validate")
    /\ UNCHANGED <<gateVars, token, post, cancel, up, historyVars>>
-----------------------------------------------------------------------------
(* run_scan_job: validation, the scan itself and its reports. *)

(* validate_scan either accepts the run, whose profile then asks for some    *)
(* number of payloads (none for a fixture target), or rejects it.            *)
Validate(j) ==
    /\ At(j, "validate")
    /\ \/ GoTo(j, "reject")
       \/ \E n \in 0..MaxPayloads :
             run' = [run EXCEPT ![j].at = IF n = 0 THEN "settle" ELSE "check",
                                ![j].left = n]
    /\ UNCHANGED <<gateVars, recordVars, token, post, cancel, up, historyVars>>

Reject(j) ==
    /\ At(j, "reject")
    /\ TransitionJob(j, "failed")
    /\ GoTo(j, "discard")
    /\ UNCHANGED <<gateVars, token, post, cancel, up, historyVars>>

(* Mutant of RaiseIfStopped: only the budget is looked at. *)
RaiseIfExpired(j, next) == Unwind(j, "timed_out") \/ GoTo(j, next)

(* A stop is noticed first; otherwise the budget may or may not have run out. *)
RaiseIfStopped(j, next) ==
    IF token[j] = "stopped" THEN Unwind(j, "cancelled")
    ELSE Unwind(j, "timed_out") \/ GoTo(j, next)

(* The check made before each payload. *)
CheckPayload(j) ==
    /\ At(j, "check")
    /\ RaiseIfStopped(j, "send")
    /\ UNCHANGED <<gateVars, recordVars, token, post, cancel, up, historyVars>>

SendRequest(j) ==
    /\ At(j, "send")
    /\ run' = [run EXCEPT ![j].at = "inflight", ![j].tries = @ + 1]
    /\ traffic' = traffic \union {j}
    /\ lateSends' = [lateSends EXCEPT ![j] = IF token[j] = "stopped" THEN @ + 1 ELSE @]
    /\ UNCHANGED <<gateVars, status, transitions, reports, token, post, cancel, up,
                   stopAsked, stranded>>

(* Mutant of AfterPayload: the next payload goes out without a check. *)
AfterPayloadUnchecked(j) == IF run[j].left = 1 THEN "settle" ELSE "send"

AfterPayload(j) == IF run[j].left = 1 THEN "settle" ELSE "check"

(* The request ends, or fails and is retried without another look at the     *)
(* token; the last failed attempt is an answer like any other.               *)
RequestEnds(j) ==
    /\ At(j, "inflight")
    /\ \/ run' = [run EXCEPT ![j].at = AfterPayload(j), ![j].left = @ - 1, ![j].tries = 0]
       \/ run[j].tries < Attempts /\ GoTo(j, "send")
    /\ UNCHANGED <<gateVars, recordVars, token, post, cancel, up, historyVars>>

(* The last check, once the scan has returned. *)
Settle(j) ==
    /\ At(j, "settle")
    /\ RaiseIfStopped(j, "analyse")
    /\ UNCHANGED <<gateVars, recordVars, token, post, cancel, up, historyVars>>

Analyse(j) ==
    /\ At(j, "analyse")
    /\ TransitionJob(j, "analysing")
    /\ GoTo(j, "report")
    /\ UNCHANGED <<gateVars, token, post, cancel, up, historyVars>>

(* The artefacts are written, then complete() records them in one update. *)
Report(j) ==
    /\ At(j, "report")
    /\ reports' = reports \union {j}
    /\ GoTo(j, "finish")
    /\ UNCHANGED <<gateVars, status, transitions, traffic, token, post, cancel, up,
                   historyVars>>

Finish(j) ==
    /\ At(j, "finish")
    /\ TransitionJob(j, "completed")
    /\ GoTo(j, "discard")
    /\ UNCHANGED <<gateVars, token, post, cancel, up, historyVars>>
-----------------------------------------------------------------------------
(* run_scan_job: the except clauses and the finally clause. *)

(* Anything in the body may raise: the store, a module, a report generator. *)
BodyRaises(j) ==
    /\ run[j].at \in {"claim", "validate", "reject", "check", "settle", "analyse",
                      "report", "finish"}
    /\ Unwind(j, "failed")
    /\ UNCHANGED <<gateVars, recordVars, token, post, cancel, up, historyVars>>

FailJob(j) ==
    /\ At(j, "fail")
    /\ TransitionJob(j, run[j].ending)
    /\ GoTo(j, "discard")
    /\ UNCHANGED <<gateVars, token, post, cancel, up, historyVars>>

(* The write of the terminal state itself raises: inside an except clause    *)
(* only the finally clause is left, after a lost slot nothing is.            *)
TerminalWriteRaises(j) ==
    /\ StoreMayFail
    /\ \/ At(j, "fail") /\ GoTo(j, "discard")
       \/ At(j, "slot_lost") /\ GoTo(j, "done")
    /\ stranded' = stranded \union {j}
    /\ UNCHANGED <<gateVars, recordVars, token, post, cancel, up, stopAsked, lateSends>>

DiscardToken(j) ==
    /\ At(j, "discard")
    /\ GoTo(j, "release")
    /\ token' = [token EXCEPT ![j] = "none"]
    /\ UNCHANGED <<gateVars, recordVars, post, cancel, up, historyVars>>

(* Mutant: the slot is given back behind the gate's back. *)
ReleaseSlotSilently(j) ==
    /\ At(j, "release")
    /\ GoTo(j, "done")
    /\ activeScans' = activeScans \ {j}
    /\ gate' = [gate EXCEPT ![j] = "left"]
    /\ UNCHANGED <<queuedScans, waiters, recordVars, token, post, cancel, up, historyVars>>

ReleaseSlot(j) ==
    /\ At(j, "release")
    /\ GoTo(j, "done")
    /\ Gate!Release(j)
    /\ UNCHANGED <<recordVars, token, post, cancel, up, historyVars>>

Working(j) ==
    \/ AdoptToken(j) \/ AcquireSlot(j) \/ SlotLost(j) \/ Enter(j) \/ Claim(j)
    \/ Validate(j) \/ Reject(j) \/ CheckPayload(j) \/ SendRequest(j)
    \/ RequestEnds(j) \/ Settle(j) \/ Analyse(j) \/ Report(j) \/ Finish(j)
    \/ BodyRaises(j) \/ FailJob(j) \/ TerminalWriteRaises(j)
    \/ DiscardToken(j) \/ ReleaseSlot(j)
-----------------------------------------------------------------------------
(* The process ends and comes back: only the store survives. *)

Crash ==
    /\ up
    /\ up' = FALSE
    /\ Gate!Reset
    /\ token' = [j \in Jobs |-> "none"]
    /\ post' = [j \in Jobs |-> IF post[j] = "idle" THEN "idle" ELSE "done"]
    /\ run' = [j \in Jobs |-> IF run[j].at = "none" THEN run[j]
                              ELSE [run[j] EXCEPT !.at = "done"]]
    /\ cancel' = [o \in Operators |-> [at |-> "idle"]]
    /\ stranded' = {}
    /\ UNCHANGED <<recordVars, stopAsked, lateSends>>

Interrupted(j) == status[j] # "absent" /\ ~IsTerminal(status[j])

(* reconcile_interrupted, one stranded job at a time. *)
Reconcile(j) ==
    /\ ~up
    /\ Interrupted(j)
    /\ TransitionJob(j, "failed")
    /\ UNCHANGED <<gateVars, token, post, run, cancel, up, historyVars>>

(* Mutant of ReadyToServe: the server comes up without reconciling. *)
ReadyAtOnce == ~up

ReadyToServe == ~up /\ \A j \in Jobs : ~Interrupted(j)

Serve ==
    /\ ReadyToServe
    /\ up' = TRUE
    /\ UNCHANGED <<gateVars, recordVars, token, post, run, cancel, historyVars>>

Restarting == Serve \/ \E j \in Jobs : Reconcile(j)
-----------------------------------------------------------------------------
Next ==
    \/ \E j \in Jobs : Posting(j) \/ Working(j)
    \/ \E o \in Operators : Cancelling(o)
    \/ Crash
    \/ Restarting

Spec == Init /\ [][Next]_vars

(* Threads that can run do run: a handler goes on, a worker goes on (its     *)
(* waits and its requests have timeouts), and a server that went down is     *)
(* brought up again.  Nobody has to post a scan or press Stop.               *)
Fairness ==
    /\ \A j \in Jobs : WF_vars(Working(j)) /\ WF_vars(post[j] # "idle" /\ Posting(j))
    /\ WF_vars(Restarting)

FairSpec == Spec /\ Fairness
-----------------------------------------------------------------------------
(* Every variable has its type. *)
TypeOK ==
    /\ Gate!TypeOK
    /\ Record!TypeOK
    /\ token \in [Jobs -> {"none", "clear", "stopped"}]
    /\ post \in [Jobs -> PostStep]
    /\ run \in [Jobs -> Worker]
    /\ cancel \in [Operators -> Handler]
    /\ up \in BOOLEAN
    /\ stopAsked \in [Jobs -> {"no", "timely", "late"}]
    /\ lateSends \in [Jobs -> Nat]
    /\ stranded \subseteq Jobs

(* The gate of this program is the gate of SlotGate: its slot bound, its     *)
(* accounting and its wakeups are those of the running server.               *)
GateKept == Gate!Spec

(* Whatever handlers, workers and restarts write, the record of every run    *)
(* keeps the promises of RunRecord.                                          *)
RecordKept == Record!Spec

(* core/cancellation.py:18: a stop lets at most one more request out, and    *)
(* web-console.md:100: the run ends after the request already in flight.     *)
AtMostOneLateRequest == \A j \in Jobs : lateSends[j] <= 1

(* A stop that reached the token before the worker's last look at it keeps   *)
(* the run from being completed and from having reports.                     *)
TimelyStopHeeded ==
    \A j \in Jobs : stopAsked[j] = "timely" =>
        status[j] # "completed" /\ j \notin reports

(* Requests go out only from threads that hold a slot, so no more than       *)
(* MAX_CONCURRENT_SCANS targets are ever under test at once.                 *)
TrafficHoldsSlot ==
    /\ \A j \in Jobs : run[j].at \in {"send", "inflight"} => j \in activeScans
    /\ Cardinality({j \in Jobs : run[j].at = "inflight"}) <= MaxConcurrentScans

(* A run the record says is in progress is in somebody's hands: its handler  *)
(* or its worker will still act on it, unless a write or a thread start      *)
(* raised at the worst place.  In particular none survives a restart.        *)
NoOrphanRun ==
    up => \A j \in Jobs : Interrupted(j) =>
        \/ post[j] \in {"register", "enqueue", "start"}
        \/ run[j].at \notin {"none", "done"}
        \/ j \in stranded

(* Every run that was admitted ends, restarts included: its record becomes   *)
(* terminal (unless its last write or its thread start raised) and it holds  *)
(* no slot any more, also when storing the outcome failed.                   *)
EveryRunEnds ==
    \A j \in Jobs : status[j] = "queued" ~>
        /\ IsTerminal(status[j]) \/ j \in stranded
        /\ gate[j] \in {"left", "lost"}

(* docs/guides/web-console.md:100: stopping ends the run and the result is   *)
(* recorded as cancelled; a run whose stop was accepted is never completed.  *)
AcceptedStopNeverCompletes ==
    \A j \in Jobs : stopAsked[j] # "no" => status[j] # "completed"

(* webui/hosted_server.py:301: never send traffic for a run the record says  *)
(* is over.                                                                  *)
NoTrafficWhenOver ==
    [][\A j \in Jobs : run[j].at = "send" /\ run'[j].at = "inflight"
                        => ~IsTerminal(status[j])]_vars
=============================================================================
