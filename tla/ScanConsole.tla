----------------------------- MODULE ScanConsole -----------------------------
(***************************************************************************)
(* The console's shell, App.tsx: starting, stopping and following a scan,  *)
(* the findings it shows, and the server's runs they are about.  A handler *)
(* runs to its first await when its control is used and goes on with each  *)
(* answer; what it captured may be old by then.  The shell is never        *)
(* unmounted, so it takes every answer.                                    *)
(***************************************************************************)
EXTENDS CsrfClient, FindingViews

CONSTANTS
    Findings,      \* ids; the scans of a target find the same ones again
    Raw,           \* what the backend says of each: severity and score
    Scans,         \* 1..n, in the order they are created
    TargetIds

ASSUME ScanAssumption ==
    /\ IsFiniteSet(Findings)
    /\ Raw \in [Findings -> [severity : STRING, score : [scored : BOOLEAN, score : Nat]]]
    /\ IsFiniteSet(Scans) /\ Scans = 1..Cardinality(Scans) /\ {1, 2} \subseteq Scans
    /\ None \notin Findings \union TargetIds
    /\ None \notin FindingStatus \union ScanRunState

VARIABLES
    app,           \* the shell's state
    runs,          \* the server's scans
    reviews        \* the server's review status of each scan's findings

scanVars == <<app, runs, reviews>>

NoScan == 0
Run == [at : ScanRunState \union {"none"}, stop : BOOLEAN, found : SUBSET Findings]
NoRun == [at |-> "none", stop |-> FALSE, found |-> {}]

Views == {"overview", "workspace", "targets"}

(* from: the scan in the assetId of the findings shown; status: of each. *)
App == [view : Views, selected : Findings \union {None}, scanning : BOOLEAN,
        cancelling : BOOLEAN, loading : BOOLEAN, active : Scans \union {NoScan},
        activeStatus : ScanRunState \union {None}, from : Scans \union {NoScan},
        status : [Findings -> FindingStatus \union {None}], stream : Scans \union {NoScan},
        offers : SUBSET TargetIds, target : TargetIds \union {None}]

NothingShown == [f \in Findings |-> None]
ShownIds(state) == {f \in Findings : state.status[f] # None}
ShownFindings(state) ==
    {ToFinding(f, Raw[f], state.from, state.status[f]) : f \in ShownIds(state)}

NewApp(view) ==
    [view |-> view, selected |-> None, scanning |-> FALSE, cancelling |-> FALSE,
     loading |-> FALSE, active |-> NoScan, activeStatus |-> None, from |-> NoScan,
     status |-> NothingShown, stream |-> NoScan, offers |-> {}, target |-> None]

FirstOf(ids) == IF ids = {} THEN None ELSE CHOOSE f \in ids : TRUE

(* refreshScanFindings once it has the findings. *)
Refreshed(state, scan, status, preferred, switch) ==
    LET ids == runs[scan].found
        next == IF preferred \in ids THEN preferred ELSE FirstOf(ids)
    IN [state EXCEPT !.active = scan, !.activeStatus = status, !.from = scan,
                     !.status = [f \in Findings |-> IF f \in ids THEN reviews[scan][f] ELSE None],
                     !.selected = next,
                     !.view = IF switch /\ next # None THEN "workspace" ELSE @]

Cleared(state) ==
    [state EXCEPT !.active = NoScan, !.activeStatus = None, !.from = NoScan,
                  !.status = NothingShown, !.selected = None]
-----------------------------------------------------------------------------
(* The server's runs; ScanRunner models what is one step here. *)

Created == {s \in Scans : runs[s].at # "none"}
NextScan == Cardinality(Created) + 1
ScansLeft == NextScan \in Scans     \* bound: scans of a behaviour

(* Mutant: a stopped run gets a status the state machine does not have. *)
StopsAsCanceled(s) == IF runs[s].stop THEN {"canceled"} ELSE {}

StopsAs(s) == IF runs[s].stop THEN {"cancelled"} ELSE {}

(* Of a run that completed the findings are kept: all of them, or there are none. *)
RunEnds(s) ==
    /\ runs[s].at = "running"
    /\ \/ \E found \in {{}, Findings} :
            runs' = [runs EXCEPT ![s].at = "completed", ![s].found = found]
       \/ \E end \in {"failed"} \union StopsAs(s) :
            runs' = [runs EXCEPT ![s].at = end]
    /\ UNCHANGED <<app, reviews, clientVars>>

ScanCreated(c) ==
    /\ Accepted(c) /\ call[c].task \in {"scan", "targetscan"}
    /\ \/ /\ NextScan \in Scans
          /\ runs' = [runs EXCEPT ![NextScan].at = "running"]
          /\ Executed(c, [call[c] EXCEPT !.of = NextScan])
       \/ Fault /\ Rejected(c) /\ UNCHANGED runs
    /\ UNCHANGED <<app, reviews, cached, permitted>>

CancelServed(c) ==
    /\ Accepted(c) /\ call[c].task = "cancel"
    /\ IF runs[call[c].of].at \in TerminalStates
       THEN Rejected(c) /\ UNCHANGED <<runs, faults>>
       ELSE Executed(c, call[c]) /\ runs' = [runs EXCEPT ![call[c].of].stop = TRUE]
    /\ UNCHANGED <<app, reviews, cached, permitted>>

(* The scan must have the finding. *)
TriageServed(c) ==
    /\ Accepted(c) /\ call[c].task = "triage"
    /\ LET scan == call[c].of
           f == call[c].saw.finding
       IN \/ /\ f \in runs[scan].found
             /\ reviews' = [reviews EXCEPT ![scan][f] = call[c].saw.patch]
             /\ Executed(c, call[c])
          \/ f \notin runs[scan].found /\ Rejected(c) /\ UNCHANGED <<reviews, faults>>
    /\ UNCHANGED <<app, runs, cached, permitted>>
-----------------------------------------------------------------------------
(* What the operator does. *)

(* The header's controls; Run is off without a target. *)
Controls ==
    IF app.scanning THEN IF app.cancelling THEN {} ELSE {"stop"}
    ELSE {"target"} \union (IF app.offers = {} THEN {} ELSE {"run"})

Navigate(v) ==
    /\ v # app.view
    /\ app' = [app EXCEPT !.view = v]
    /\ UNCHANGED <<runs, reviews, clientVars>>

ChooseTarget(t) ==
    /\ "target" \in Controls /\ t \in app.offers \ {app.target}
    /\ app' = [app EXCEPT !.target = t]
    /\ UNCHANGED <<runs, reviews, clientVars>>

(* Mutant: the findings of the scan before stay on the screen. *)
StartScanKeepingFindings ==
    /\ "run" \in Controls /\ ScansLeft
    /\ Post(Call("scan", NoScan, "sent"))
    /\ app' = [app EXCEPT !.scanning = TRUE, !.cancelling = FALSE, !.loading = TRUE]
    /\ UNCHANGED <<runs, reviews, cached, permitted, faults>>

(* handleToggleScan up to its await. *)
StartScan ==
    /\ "run" \in Controls /\ ScansLeft
    /\ Post(Call("scan", NoScan, "sent"))
    /\ app' = [app EXCEPT !.scanning = TRUE, !.cancelling = FALSE, !.loading = TRUE,
                          !.status = NothingShown, !.from = NoScan, !.selected = None]
    /\ UNCHANGED <<runs, reviews, cached, permitted, faults>>

StopScan ==
    /\ "stop" \in Controls /\ app.active # NoScan
    /\ Post(Call("cancel", app.active, "sent"))
    /\ app' = [app EXCEPT !.cancelling = TRUE]
    /\ UNCHANGED <<runs, reviews, cached, permitted, faults>>

SelectFinding(f) ==
    /\ app.view = "workspace" /\ f \in ShownIds(app) \ {app.selected}
    /\ app' = [app EXCEPT !.selected = f]
    /\ UNCHANGED <<runs, reviews, clientVars>>

(* persistFindingState: the scan and its record are those of the render. *)
Patched(status, reason) ==
    /\ app.selected # None /\ app.active # NoScan
    /\ Post([Call("triage", app.active, "sent") EXCEPT
                 !.saw = [finding |-> app.selected, from |-> app.from, patch |-> status,
                          reason |-> reason, status |-> app.activeStatus]])
    /\ UNCHANGED <<app, runs, reviews, cached, permitted, faults>>
-----------------------------------------------------------------------------
(* What the handlers do with an answer. *)

ScanAnswered(c) ==
    /\ Ended(c, "scan")
    /\ app' = IF call[c].end = "done"
              THEN [app EXCEPT !.active = call[c].of, !.activeStatus = "queued",
                               !.stream = call[c].of]
              ELSE [app EXCEPT !.scanning = FALSE, !.loading = FALSE]
    /\ Frees(c)
    /\ UNCHANGED <<runs, reviews, cached, permitted, faults>>

(* Mutant: the shell does not learn that the stop was refused. *)
StopForgotten(c) ==
    /\ Ended(c, "cancel")
    /\ UNCHANGED app
    /\ Frees(c)
    /\ UNCHANGED <<runs, reviews, cached, permitted, faults>>

StopAnswered(c) ==
    /\ Ended(c, "cancel")
    /\ app' = [app EXCEPT !.cancelling = @ /\ call[c].end = "done"]
    /\ Frees(c)
    /\ UNCHANGED <<runs, reviews, cached, permitted, faults>>

TriageAnswered(c) ==
    /\ Ended(c, "triage")
    /\ IF call[c].end = "done" THEN Goes(c, "findings") ELSE Frees(c)
    /\ UNCHANGED <<scanVars, cached, permitted, faults>>

(* Mutant: every end of a run is taken for a success. *)
SucceededOrEnded(status) == ScanStateStyle(status).terminal

Succeeded(status) == ScanStateStyle(status).successful

(* What the overview says about the active scan when there are no findings. *)
Verdict ==
    IF app.active = NoScan \/ app.loading \/ ShownIds(app) # {} THEN "nothing"
    ELSE IF Succeeded(app.activeStatus) THEN "completed without findings" ELSE "ended"

(* The last event of the stream: onEvent closes it, and loads the findings of *)
(* a run that completed, keeping the operator where they are.                 *)
StreamEnds ==
    LET s == app.stream
        ended == [app EXCEPT !.scanning = FALSE, !.cancelling = FALSE, !.loading = FALSE,
                             !.stream = NoScan]
    IN /\ s # NoScan /\ runs[s].at \in TerminalStates
       /\ IF Succeeded(runs[s].at)
          THEN /\ Begin([Call("refresh", s, "findings") EXCEPT !.saw = "completed"])
               /\ app' = ended
          ELSE /\ app' = [ended EXCEPT !.active = s, !.activeStatus = runs[s].at]
               /\ UNCHANGED call
       /\ UNCHANGED <<runs, reviews, cached, permitted, faults>>

(* The scans of before are looked up when the console is opened.  Which of    *)
(* them is the latest depends on when each completed, started or was created: *)
(* that is left open.                                                         *)
ScansListed(c) ==
    /\ At(c, "scans")
    /\ \/ /\ Created = {}
          /\ Frees(c) /\ app' = [Cleared(app) EXCEPT !.loading = FALSE]
       \/ \E s \in Created :
             /\ call' = [call EXCEPT ![c].at = "findings", ![c].of = s,
                                     ![c].saw = runs[s].at]
             /\ UNCHANGED app
    /\ UNCHANGED <<runs, reviews, cached, permitted, faults>>

FindingsLoaded(c) ==
    /\ At(c, "findings")
    /\ LET r == call[c] IN
       CASE r.task = "triage" ->
              app' = Refreshed(app, r.of, r.saw.status, r.saw.finding, TRUE) /\ Frees(c)
         [] r.task = "refresh" -> app' = Refreshed(app, r.of, r.saw, None, FALSE) /\ Frees(c)
         [] OTHER ->
              LET loaded == Refreshed(app, r.of, r.saw, None, FALSE) IN
              IF loaded.selected = None
              THEN app' = [loaded EXCEPT !.loading = FALSE] /\ Frees(c)
              ELSE app' = loaded /\ Goes(c, "history")
    /\ UNCHANGED <<runs, reviews, cached, permitted, faults>>

HistoryLoaded(c) ==
    /\ At(c, "history")
    /\ app' = [app EXCEPT !.loading = FALSE]
    /\ Frees(c)
    /\ UNCHANGED <<runs, reviews, cached, permitted, faults>>

(* A request for saved scans that fails clears what is shown; for another, *)
(* what is shown stays.                                                    *)
LoadFails(c) ==
    /\ call[c].at \in {"scans", "findings", "history"}
    /\ Fault
    /\ Frees(c)
    /\ app' = IF call[c].task = "mount" THEN [Cleared(app) EXCEPT !.loading = FALSE] ELSE app
    /\ UNCHANGED <<runs, reviews, cached, permitted>>

ScanServing(c) == ScanCreated(c) \/ CancelServed(c) \/ TriageServed(c)
ScanContinues(c) ==
    ScanAnswered(c) \/ StopAnswered(c) \/ TriageAnswered(c) \/ ScansListed(c)
    \/ FindingsLoaded(c) \/ HistoryLoaded(c) \/ LoadFails(c)
ScanActs ==
    \/ StartScan \/ StopScan
    \/ \E v \in Views : Navigate(v)
    \/ \E t \in TargetIds : ChooseTarget(t)
    \/ \E f \in Findings : SelectFinding(f)
=============================================================================
