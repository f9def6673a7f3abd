----------------------------- MODULE RunRecord -----------------------------
(***************************************************************************)
(* What the stored record of a scan run promises, whatever threads write   *)
(* it: the run moves along the transition table, every move leaves exactly *)
(* one row, only a run that was recorded as running sends traffic or has   *)
(* reports, and a run is completed only once its reports are recorded.     *)
(* ScanRunner is shown to implement this specification.                    *)
(***************************************************************************)
EXTENDS ScanState, Sequences, Naturals

CONSTANT Jobs

VARIABLES
    status,        \* the stored status of each job, "absent" before it exists
    transitions,   \* the stored rows, one per move
    reports,       \* jobs whose report artefacts are recorded
    traffic        \* jobs that have sent a request to their target

recordVars == <<status, transitions, reports, traffic>>

Row == [from_state : ScanRunState, to_state : ScanRunState]

Visited(j) == {transitions[j][i].to_state : i \in DOMAIN transitions[j]}

Init ==
    /\ status = [j \in Jobs |-> "absent"]
    /\ transitions = [j \in Jobs |-> <<>>]
    /\ reports = {}
    /\ traffic = {}

Create(j) ==
    /\ status[j] = "absent"
    /\ status' = [status EXCEPT ![j] = "queued"]
    /\ UNCHANGED <<transitions, reports, traffic>>

Move(j, target) ==
    /\ MayMove(status[j], target)
    /\ target = "completed" => j \in reports
    /\ status' = [status EXCEPT ![j] = target]
    /\ transitions' = [transitions EXCEPT ![j] =
                          Append(@, [from_state |-> status[j], to_state |-> target])]
    /\ UNCHANGED <<reports, traffic>>

Send(j) ==
    /\ "running" \in Visited(j)
    /\ traffic' = traffic \union {j}
    /\ UNCHANGED <<status, transitions, reports>>

Publish(j) ==
    /\ "running" \in Visited(j)
    /\ reports' = reports \union {j}
    /\ UNCHANGED <<status, transitions, traffic>>

Next ==
    \E j \in Jobs :
        \/ Create(j) \/ Send(j) \/ Publish(j)
        \/ \E target \in ScanRunState : Move(j, target)

Spec == Init /\ [][Next]_recordVars
-----------------------------------------------------------------------------
(* Every variable has its type. *)
TypeOK ==
    /\ status \in [Jobs -> {"absent"} \union ScanRunState]
    /\ transitions \in [Jobs -> Seq(Row)]
    /\ reports \subseteq Jobs
    /\ traffic \subseteq Jobs

(* The rows of a job are its history: they start at queued, each continues   *)
(* where the one before ended, and the last one names the stored status.     *)
HistoryOf(s, rows) ==
    IF rows = <<>>
    THEN s \in {"absent", "queued"}
    ELSE /\ rows[1].from_state = "queued"
         /\ \A i \in 1..Len(rows) : MayMove(rows[i].from_state, rows[i].to_state)
         /\ \A i \in 1..Len(rows) - 1 : rows[i + 1].from_state = rows[i].to_state
         /\ rows[Len(rows)].to_state = s

TransitionsChain == \A j \in Jobs : HistoryOf(status[j], transitions[j])

(* No traffic and no reports for a run whose record never said running, and  *)
(* no completed run without its reports.                                     *)
RecordCoversTraffic ==
    \A j \in Jobs :
        /\ j \in traffic \union reports => "running" \in Visited(j)
        /\ status[j] = "completed" => j \in reports

(* A run that is over stays exactly as it ended. *)
OverIsFinal ==
    [][\A j \in Jobs : IsTerminal(status[j]) =>
          status'[j] = status[j] /\ transitions'[j] = transitions[j]]_recordVars
=============================================================================
