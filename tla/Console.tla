------------------------------- MODULE Console -------------------------------
(***************************************************************************)
(* The console at work: the shell with the workspace's panels and the      *)
(* Targets view, over the server's scans, reviews and target registry.     *)
(* Browser events come one at a time, after the effects of the last render. *)
(***************************************************************************)
EXTENDS FindingPanels, TargetsManager

CONSTANT MaxGestures     \* bound: things the operator does

ASSUME GesturesAssumption == MaxGestures \in Nat \ {0}

VARIABLES
    gestures,
    overlapped     \* history: what was under way at once, or was given up

vars == <<clientVars, scanVars, panels, managerVars, gestures, overlapped>>

(* An effect waits for a free slot, which a browser has no bound on. *)
Settled == PanelsSettled /\ ManagerSettled
Rendered == Settled \/ Cardinality(FreeSlots) < 2

Open(tasks) == {c \in Slots : call[c] # Idle /\ call[c].task \in tasks}
Fetching == {c \in Open({"mount", "refresh", "triage"}) : call[c].at \notin Sending}
Saves == Open({"save", "testsave"})

(* What the properties excuse, each a thing the code does not guard against. *)
(* Saved findings are loaded while a scan is starting or running, or twice at once. *)
Late == \E c \in Fetching : app.scanning \/ Fetching # {c}

(* Stop is pressed before the console knows the scan it has asked for. *)
Creating == app.scanning /\ app.cancelling /\ app.stream = NoScan

(* A scan could not be started, with the one before still the active one. *)
Unstarted == \E c \in Open({"scan"}) : call[c].at = "answered" /\ call[c].end # "done"

(* An artifact is on its way while another finding, or scan, is shown. *)
Misplaced == \E c \in Open({"artifact"}) : call[c].of # Key

(* The draft is replaced while the URL that Docker publishes stays the same one, *)
(* so that the effect which copies that URL into the draft does not run.         *)
Relocked ==
    /\ DockerUrl(manager) # None /\ DockerUrl(manager') = DockerUrl(manager)
    /\ manager'.draft # manager.draft

(* The draft is edited, and a list is on its way that was not asked for to keep *)
(* it, or another change of the registry.                                       *)
Edited == manager.draftId # None /\ manager.draft = Typed(manager.draftId)
Relisted ==
    /\ Edited
    /\ \/ Open({"drop"}) # {}
       \/ \E c \in Open({"load", "agents"}) : call[c].live
       \/ \E c \in Saves : call[c].saw.url # manager.draft

Overlaps ==
    {k \in {"late"} : Late'} \union {k \in {"creating"} : Creating'}
    \union {k \in {"unstarted"} : Unstarted'} \union {k \in {"artifact"} : Misplaced'}
    \union {k \in {"relocked"} : Relocked}
    \* Another finding is shown while a reason is being asked for.
    \union {k \in {"pending"} : panels.pending # None /\ app'.selected # app.selected}
    \* The URL is typed while an earlier save is under way.
    \union {k \in {"typing"} : \/ Relisted'
                               \/ Edited' /\ manager'.draft # manager.draft /\ Saves' # {}}

(* Three scenes: the console is being opened on the overview, over no scan, a *)
(* running one or one that has ended; it shows the findings of a scan in the  *)
(* workspace, where the operator may be about to record a decision; or it     *)
(* shows the targets, stored with a base_url or without.  Opening the console, *)
(* and what led to the decision, count as a gesture.                          *)
Before(n, at, found) ==
    [s \in Scans |-> IF s <= n THEN [at |-> at, stop |-> FALSE, found |-> found] ELSE NoRun]
(* "alias": a record with `endpoint` instead of base_url. *)
Stored(form) == [t \in TargetIds |-> IF t = NewId THEN None ELSE <<form, t>>]
Loaded(state) ==
    [state EXCEPT !.offers = Records(targets), !.target = FirstOf(Records(targets))]

Deciding ==
    LET f == app.selected IN
    [NewPanels EXCEPT
        !.mounted = TRUE, !.ran = [explain |-> Explained, cve |-> f, chat |-> None, evidence |-> Key],
        !.pending = "accepted_risk", !.reason = [finding |-> f, status |-> "accepted_risk"]]

Opening ==
    /\ \E at \in {"none", "running", "completed", "failed"}, found \in {{}, Findings} :
          (found # {} => at = "completed") /\ runs = Before(1, at, found)
    /\ targets = Stored("old")
    /\ app = Loaded([NewApp("overview") EXCEPT !.loading = TRUE])
    /\ \E m \in Slots :
          call = [c \in Slots |-> IF c = m THEN Call("mount", NoScan, "scans") ELSE Idle]
    /\ panels = NewPanels /\ gestures = 1

Reviewing ==
    /\ runs = Before(1, "completed", Findings)
    /\ targets = Stored("old")
    /\ app = Loaded([NewApp("workspace") EXCEPT
                 !.active = 1, !.activeStatus = "completed", !.from = 1,
                 !.status = [f \in Findings |-> "open"], !.selected = FirstOf(Findings)])
    /\ \/ panels = NewPanels /\ gestures = 0
       \/ Mounted /\ panels = Deciding /\ gestures = 1
    /\ call = [c \in Slots |-> Idle]

Configuring ==
    /\ runs = Before(2, "completed", {})
    /\ \E form \in {"old", "alias"} : targets = Stored(form)
    /\ app = Loaded([NewApp("targets") EXCEPT !.active = 2, !.activeStatus = "completed",
                                              !.from = 2])
    /\ panels = NewPanels
    /\ call = [c \in Slots |-> Idle] /\ gestures = 0

Init ==
    /\ \/ Opening /\ ClientInit({"none"})
       \/ (Reviewing \/ Configuring) /\ ClientInit({"none", "valid"})
    /\ reviews = [s \in Scans |-> [f \in Findings |-> "open"]]
    /\ manager = NewManager
    /\ staleWrite = FALSE
    /\ overlapped = {}
-----------------------------------------------------------------------------
React ==
    /\ \/ PanelEffects /\ UNCHANGED managerVars
       \/ ManagerEffects /\ UNCHANGED panels
    /\ UNCHANGED gestures

Operate ==
    /\ Settled
    /\ gestures < MaxGestures /\ gestures' = gestures + 1
    /\ \/ ScanActs /\ UNCHANGED <<panels, managerVars>>
       \/ PanelsAct /\ UNCHANGED managerVars
       \/ ManagerActs /\ UNCHANGED panels

Handle ==
    /\ Rendered
    /\ \/ \E c \in Slots :
            \/ ScanServing(c) /\ UNCHANGED <<panels, managerVars>>
            \/ ManagerServing(c) /\ UNCHANGED panels
       \/ ClientSteps /\ UNCHANGED <<scanVars, panels, managerVars>>
       \/ \E s \in Scans : RunEnds(s) /\ UNCHANGED <<panels, managerVars>>
    /\ UNCHANGED gestures

Continue ==
    /\ Rendered
    /\ \/ \E c \in Slots :
            \/ ScanContinues(c) /\ UNCHANGED <<panels, managerVars>>
            \/ PanelsContinue(c) /\ UNCHANGED managerVars
            \/ ManagerContinues(c) /\ UNCHANGED panels
       \/ StreamEnds /\ UNCHANGED <<panels, managerVars>>
       \/ ManagerStreamEnds /\ UNCHANGED panels
    /\ UNCHANGED gestures

Next == (React \/ Operate \/ Handle \/ Continue) /\ overlapped' = overlapped \union Overlaps

Spec == Init /\ [][Next]_vars
-----------------------------------------------------------------------------
(* Every variable has its type. *)
TypeOK ==
    /\ app \in App
    /\ runs \in [Scans -> Run]
    /\ reviews \in [Scans -> [Findings -> FindingStatus]]
    /\ panels \in Panels
    /\ manager \in Manager
    /\ targets \in [TargetIds -> Urls \union {None}] /\ staleWrite \in BOOLEAN
    /\ cached \in Held /\ permitted \in BOOLEAN
    /\ faults \in 0..MaxFaults /\ gestures \in 0..MaxGestures

(* App.tsx:287-289 and types/index.ts:36 "A failed scan must never read as a *)
(* clean result": when the overview says that the scan completed without     *)
(* findings, the server's record says so too, and when the scan's card says  *)
(* how it ended without results, that is how.  Not promised once the start   *)
(* of a scan has failed, nor when saved findings came in late.               *)
CleanIsTrue ==
    app.active # NoScan /\ overlapped \intersect {"late", "unstarted"} = {} =>
        /\ Verdict = "completed without findings" =>
             runs[app.active].at = "completed" /\ runs[app.active].found = {}
        /\ EndedWithoutResults(app.activeStatus) => runs[app.active].at = app.activeStatus

(* The findings shown are those of the active scan, the scan followed is the *)
(* active one, and a review goes to the scan its finding came from; unless   *)
(* saved findings came in late.                                              *)
FindingsOfActive ==
    "late" \notin overlapped =>
        /\ ShownIds(app) # {} => app.from = app.active
        /\ app.stream # NoScan => app.stream = app.active
        /\ \A c \in Open({"triage"}) : call[c].saw.from = call[c].of

(* HeaderBar.tsx:141-142 "the control is reachable for as long as the run is *)
(* not finished": while Stop is disabled, a stop of the scan that runs has   *)
(* reached the server or is on its way.  Not promised for a Stop pressed     *)
(* before the scan was created.                                              *)
StopReachable ==
    /\ app.scanning /\ app.cancelling /\ app.stream # NoScan
    /\ overlapped \intersect {"late", "creating"} = {}
    => \/ runs[app.stream].stop \/ runs[app.stream].at \in TerminalStates
       \/ \E c \in Open({"cancel"}) : call[c].of = app.stream

(* Whatever is open when another finding is shown, the explanation, lookup,  *)
(* evidence and conversation on the screen are of the finding shown; an      *)
(* artifact too, unless it was on its way.                                   *)
PanelsOfSelected ==
    Mounted /\ PanelsSettled =>
        /\ \A l \in Lookups : panels.told[l] \in {None, app.selected}
        /\ {panels.asked, panels.answered} \subseteq {None, app.selected}
        /\ panels.entry \in {None, Key}
        /\ panels.artifact \in {None, Key} \/ "artifact" \in overlapped

(* TriageControl.tsx:27-33: a decision that needs a reason is sent with the   *)
(* one typed for this decision and, unless another finding was shown while    *)
(* it was being typed, for this finding.                                      *)
TriageReasonFits ==
    \A c \in Open({"triage"}) :
        LET saw == call[c].saw IN
        IF saw.reason = None THEN saw.patch \notin NeedsReason
        ELSE /\ saw.reason.status = saw.patch
             /\ saw.reason.finding = saw.finding \/ "pending" \in overlapped

(* TargetsManager.tsx:320-330: the form shows the URL that Docker publishes,   *)
(* the draft is what is sent, and an effect keeps the one equal to the other.  *)
(* A save, or the save by which a test of an unlisted target begins, sends the *)
(* URL that the form showed, unless the draft was replaced while Docker's URL  *)
(* stayed the same one; and never the URL of another target, nor the defaults  *)
(* of a new target for a stored one.                                           *)
SavesWhatIsShown ==
    \A c \in Saves :
        LET url == call[c].saw.url IN
        /\ url = call[c].saw.shown \/ "relocked" \in overlapped
        /\ url[2] \in {None, call[c].of}
        /\ url = Scaffold => call[c].of = NewId

(* A URL typed into the form is not lost to an answer, whatever comes of the  *)
(* save: the reload after a save shows the target that was saved.  Unless it  *)
(* was typed while a list, the agents or an earlier save were under way       *)
(* (TargetsManager.tsx:158-179 replaces the draft at every load).             *)
EditsSurvive ==
    [][/\ manager.mounted /\ manager'.mounted /\ gestures' = gestures
       /\ manager.draftId # None /\ manager.draft = Typed(manager.draftId)
       /\ "typing" \notin overlapped
       => manager'.draftId = manager.draftId /\ manager'.draft = manager.draft]_vars

(* What a distribution says of a severity: nothing where there is no entry. *)
CountOf(distribution, s) ==
    IF \E p \in distribution : p.severity = s
    THEN (CHOOSE p \in distribution : p.severity = s).count ELSE 0

(* Every count of a scan's findings agrees with the findings shown, whatever  *)
(* severities, scores and review statuses the server sends.                   *)
CountersAgree ==
    LET shown == ShownFindings(app)
        asset == ScanAsset(app.from, app.activeStatus, shown)
        metrics == MetricsFor(shown, app.active # NoScan)
        distribution == DistributionFor(shown)
    IN shown # {} =>
        /\ \E f \in shown : f.severity = asset.highestSeverity
        /\ ~\E f \in shown : SeverityRank[f.severity] > SeverityRank[asset.highestSeverity]
        /\ asset.vulnerabilityCount =
             CountOf(distribution, "critical") + CountOf(distribution, "high")
               + CountOf(distribution, "medium") + CountOf(distribution, "low")
               + CountOf(distribution, "info")
        /\ metrics.pendingReviews
             <= Cardinality(shown) - Cardinality({f \in shown : f.status = "fixed"})
        /\ \E f \in shown : RiskTier(asset.riskScore) = RiskTier(f.riskScore)
=============================================================================
