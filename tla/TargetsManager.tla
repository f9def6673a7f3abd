--------------------------- MODULE TargetsManager ---------------------------
(***************************************************************************)
(* The Targets view: the list of runtime targets, the draft of one, and    *)
(* its own scan.  Of a target's configuration the model keeps where it     *)
(* points.  A URL is told by where it came from and which target it is of. *)
(***************************************************************************)
EXTENDS ScanConsole

CONSTANTS
    Urls,
    Docker,        \* the targets a hosted agent's published port stands behind
    NewId          \* the id given to a new target

Scaffold == <<"scaffold", None>>      \* the URL a new draft starts from
Typed(t) == <<"typed", t>>
Published(t) == <<"docker", t>>       \* where Docker publishes the agent's port

ASSUME TargetsAssumption ==
    /\ {"typed", "docker", "old", "alias"} \X TargetIds \subseteq Urls /\ Scaffold \in Urls
    /\ None \notin Urls
    /\ Docker \subseteq TargetIds /\ NewId \in TargetIds

VARIABLES
    targets, staleWrite,    \* the registry file, see RuntimeTargets
    manager

File == INSTANCE RuntimeTargets

managerVars == <<manager, targets, staleWrite>>

Manager == [mounted : BOOLEAN, saving : BOOLEAN, testing : BOOLEAN,
            scanning : BOOLEAN, stream : Scans \union {NoScan}, agents : BOOLEAN,
            listed : [TargetIds -> Urls \union {None}], selected : TargetIds \union {None},
            draftId : TargetIds \union {None}, draft : Urls]

NewManager ==
    [mounted |-> FALSE, saving |-> FALSE, testing |-> FALSE,
     scanning |-> FALSE, stream |-> NoScan, agents |-> FALSE,
     listed |-> [t \in TargetIds |-> None], selected |-> None, draftId |-> None,
     draft |-> Scaffold]

Records(file) == {t \in TargetIds : file[t] # None}

(* Mutant: a record without base_url is shown over a new target's defaults. *)
DraftOverDefaults(url) == IF url[1] = "alias" THEN Scaffold ELSE url

(* draftFromRecord: base_url, or endpoint for it. *)
DraftFromRecord(url) == url

SelectTarget(state, t) ==
    [state EXCEPT !.selected = t, !.draftId = t,
                  !.draft = DraftFromRecord(state.listed[t])]

DockerUrl(state) ==
    IF state.agents /\ state.draftId \in Docker THEN Published(state.draftId) ELSE None
LockedUrl(state) == IF DockerUrl(state) # None THEN DockerUrl(state) ELSE state.draft

(* Mutant: Docker's URL is shown, and not copied into the draft. *)
LockedInTheFormOnly(state) == state

(* The effect on dockerBaseUrl: it runs when that URL is another one. *)
Locked(state) ==
    IF DockerUrl(state) \in {None, DockerUrl(manager)} THEN state
    ELSE [state EXCEPT !.draft = DockerUrl(state)]

Shows(state) == manager' = Locked(state)
ShowsIf(c, state) == manager' = IF call[c].live THEN Locked(state) ELSE manager
ManagerStep == UNCHANGED <<scanVars, targets, staleWrite, cached, permitted>>
-----------------------------------------------------------------------------
(* The view comes and goes. *)

ManagerTasks ==
    {"load", "agents", "save", "drop", "testsave", "validate", "targetscan"}

ManagerTask(task, of) ==
    [Call(task, of, "sent") EXCEPT
        !.saw = [url |-> manager.draft, shown |-> LockedUrl(manager),
                 selected |-> manager.selected, target |-> app.target]]

MountManager ==
    /\ app.view = "targets" /\ ~manager.mounted
    /\ manager' = [manager EXCEPT !.mounted = TRUE]
    /\ \E c, d \in FreeSlots :
          /\ c # d
          /\ call' = [call EXCEPT
                        ![c] = [ManagerTask("load", None) EXCEPT !.at = "list"],
                        ![d] = [ManagerTask("agents", None) EXCEPT !.at = "agents"]]

UnmountManager ==
    /\ app.view # "targets" /\ manager.mounted
    /\ manager' = NewManager
    /\ call' = [c \in Slots |-> IF call[c] # Idle /\ call[c].task \in ManagerTasks
                                THEN [call[c] EXCEPT !.live = FALSE] ELSE call[c]]

ManagerEffects == (MountManager \/ UnmountManager) /\ ManagerStep /\ UNCHANGED faults
ManagerSettled == manager.mounted = (app.view = "targets")
-----------------------------------------------------------------------------
(* What the operator does. *)

(* The buttons that are on, once a target or a new one is shown. *)
Buttons ==
    {b \in {"save", "delete", "test", "scan"} :
        /\ manager.draftId # None
        /\ b \in {"save", "delete"} => ~manager.saving
        /\ b = "delete" => manager.selected # None
        /\ b = "test" => ~manager.testing
        /\ b = "scan" => ~manager.scanning}

PickTarget(t) ==
    /\ t \in Records(manager.listed)
    /\ Shows(SelectTarget(manager, t))
    /\ UNCHANGED call

AddTarget ==
    /\ Shows([manager EXCEPT !.selected = None, !.draftId = NewId, !.draft = Scaffold])
    /\ UNCHANGED call

(* The URL of a target that Docker stands behind cannot be typed. *)
TypeUrl ==
    /\ manager.draftId # None /\ DockerUrl(manager) = None
    /\ manager.draft # Typed(manager.draftId)
    /\ Shows([manager EXCEPT !.draft = Typed(manager.draftId)])
    /\ UNCHANGED call

SaveTarget ==
    /\ "save" \in Buttons
    /\ Post(ManagerTask("save", manager.draftId))
    /\ Shows([manager EXCEPT !.saving = TRUE])

DeleteTarget ==
    /\ "delete" \in Buttons
    /\ Post(ManagerTask("drop", manager.draftId))
    /\ Shows([manager EXCEPT !.saving = TRUE])

(* A target that is not listed is saved first. *)
TestConnectivity ==
    /\ "test" \in Buttons
    /\ IF manager.draftId \in Records(manager.listed)
       THEN /\ Post(ManagerTask("validate", manager.draftId))
            /\ Shows([manager EXCEPT !.testing = TRUE])
       ELSE /\ Post(ManagerTask("testsave", manager.draftId))
            /\ Shows([manager EXCEPT !.testing = TRUE, !.saving = TRUE])

StartTargetScan ==
    /\ "scan" \in Buttons /\ ScansLeft
    /\ Post(ManagerTask("targetscan", NoScan))
    /\ Shows([manager EXCEPT !.scanning = TRUE])
-----------------------------------------------------------------------------
(* The server's side. *)

(* A configuration the registry refuses costs a fault. *)
TargetServed(c) ==
    /\ Accepted(c) /\ call[c].task \in {"save", "testsave", "drop"}
    /\ \/ /\ File!WriteBack(targets, {call[c].of},
                            IF call[c].task = "drop" THEN None ELSE call[c].saw.url)
          /\ Executed(c, call[c])
       \/ Fault /\ Rejected(c) /\ UNCHANGED <<targets, staleWrite>>
    /\ UNCHANGED <<manager, scanVars, cached, permitted>>

ValidateServed(c) ==
    /\ Accepted(c) /\ call[c].task = "validate"
    /\ IF targets[call[c].of] # None THEN Executed(c, call[c])
                                     ELSE Rejected(c) /\ UNCHANGED faults
    /\ UNCHANGED manager /\ ManagerStep
-----------------------------------------------------------------------------
(* What the handlers do with an answer. *)

(* testConnectivity goes on after a save that failed, too. *)
TargetAnswered(c) ==
    /\ At(c, "answered") /\ call[c].task \in {"save", "testsave", "drop"}
    /\ IF call[c].end = "done"
       THEN UNCHANGED manager /\ Goes(c, "list")
       ELSE /\ ShowsIf(c, [manager EXCEPT !.saving = FALSE])
            /\ IF call[c].task = "testsave" THEN Goes(c, "saved") ELSE Frees(c)
    /\ UNCHANGED faults /\ ManagerStep

(* Mutant: the selection of the render decides what is selected again. *)
SelectionOfRender(r) == r.saw.selected

(* preferredId: a save keeps its target; otherwise the selection it began with. *)
Preferred(r) == IF r.task \in {"save", "testsave"} THEN r.of ELSE r.saw.selected

Released(r) == [manager EXCEPT !.saving = @ /\ r.task = "load"]

Listed(r) ==
    LET loaded == [Released(r) EXCEPT !.listed = targets]
        ids == Records(targets)
    IN IF Preferred(r) \in ids THEN SelectTarget(loaded, Preferred(r))
       ELSE IF ids # {} THEN SelectTarget(loaded, CHOOSE t \in ids : TRUE)
       ELSE [loaded EXCEPT !.selected = None, !.draftId = None, !.draft = Scaffold]

(* A save or deletion then has the shell reload its targets, and goes on. *)
TargetsListed(c) ==
    /\ At(c, "list")
    /\ \/ ShowsIf(c, Listed(call[c])) /\ UNCHANGED faults
       \/ Fault /\ ShowsIf(c, Released(call[c]))
    /\ CASE call[c].task = "load" -> Frees(c)
         [] call[c].task = "testsave" ->
              BeginIn([call EXCEPT ![c].at = "saved"],
                      [call[c] EXCEPT !.task = "offers", !.at = "offers"])
         [] OTHER -> Goes(c, "offers")
    /\ ManagerStep

ValidateAfterSave(c) ==
    /\ At(c, "saved")
    /\ call' = [call EXCEPT ![c] = Posted([@ EXCEPT !.task = "validate"])]
    /\ UNCHANGED <<manager, faults>> /\ ManagerStep

(* App.loadTargets: the choice of the render that asked, if still offered. *)
OffersLoaded(c) ==
    /\ At(c, "offers")
    /\ LET ids == Records(targets) IN
       app' = [app EXCEPT !.offers = ids,
                          !.target = IF call[c].saw.target \in ids THEN @
                                     ELSE IF ids = {} THEN None ELSE CHOOSE t \in ids : TRUE]
    /\ Frees(c)
    /\ UNCHANGED <<managerVars, runs, reviews, cached, permitted, faults>>

(* Docker may not answer: the stored URLs are shown. *)
AgentsAnswered(c) ==
    /\ At(c, "agents")
    /\ ShowsIf(c, [manager EXCEPT !.agents = TRUE])
    /\ Frees(c)
    /\ UNCHANGED faults /\ ManagerStep

Validated(c) ==
    /\ Ended(c, "validate")
    /\ ShowsIf(c, [manager EXCEPT !.testing = FALSE])
    /\ Frees(c)
    /\ UNCHANGED faults /\ ManagerStep

TargetScanAnswered(c) ==
    /\ Ended(c, "targetscan")
    /\ ShowsIf(c, IF call[c].end = "done" THEN [manager EXCEPT !.stream = call[c].of]
                  ELSE [manager EXCEPT !.scanning = FALSE])
    /\ Frees(c)
    /\ UNCHANGED faults /\ ManagerStep

ManagerStreamEnds ==
    /\ manager.stream # NoScan /\ runs[manager.stream].at \in TerminalStates
    /\ Shows([manager EXCEPT !.scanning = FALSE, !.stream = NoScan])
    /\ UNCHANGED <<call, faults>> /\ ManagerStep

ManagerServing(c) == TargetServed(c) \/ ValidateServed(c)
ManagerContinues(c) ==
    TargetAnswered(c) \/ TargetsListed(c) \/ ValidateAfterSave(c) \/ OffersLoaded(c)
    \/ AgentsAnswered(c) \/ Validated(c) \/ TargetScanAnswered(c)
ManagerActs ==
    /\ manager.mounted
    /\ \/ AddTarget \/ TypeUrl \/ SaveTarget \/ DeleteTarget \/ TestConnectivity
       \/ StartTargetScan
       \/ \E t \in TargetIds : PickTarget(t)
    /\ UNCHANGED faults /\ ManagerStep
=============================================================================
