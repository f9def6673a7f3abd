----------------------------- MODULE LabConsole -----------------------------
(***************************************************************************)
(* The console's shell with the Projects and Agents views over the server  *)
(* of AgentLab: one view is mounted at a time, requests outlive the view   *)
(* that made them, and the header offers the registered targets for a scan. *)
(***************************************************************************)
EXTENDS ProjectImporter, AgentHost

CONSTANT MaxGestures     \* bound: things the operator does

ASSUME GesturesAssumption == MaxGestures \in Nat

VARIABLES
    view,          \* the view that is mounted
    offers,        \* the targets the header offers
    gestures,
    overlapped     \* history: what was under way twice, or on a stale view

shellVars == <<view, offers, scanTarget>>
vars == <<labVars, importer, host, shellVars, gestures, overlapped>>

Views == {"overview", "projects", "agents"}
Reloading == {"targets", "offered"}    \* App.loadTargets has been called

(* The call will reload the targets, in the render it was made in. *)
Reloads(r) ==
    r # Idle /\ r.task \in Deploys \union {"deploy", "undeploy", "remove"}

Twice(calls, test(_)) == \E c, d \in Slots : c # d /\ test(calls[c]) /\ test(calls[d])

(* What the properties excuse, each a thing the code does not guard against: *)
(* requests for the same project or agent at once; two reads of a kind whose *)
(* answers may come in either order; a deploy that is pending while another  *)
(* project is selected; another scan target chosen while a reload is due.    *)
Overlaps(calls) ==
    {s \in Subjects : Twice(calls, LAMBDA r : r.at \notin Reads \union {"idle", "answered"}
                                              /\ r.of = s)}
    \union {step \in {"analyse", "logs"} : Twice(calls, LAMBDA r : r.at = step)}
    \union {w \in {"reloads"} : Twice(calls, LAMBDA r : r.at \in Reloading)}
    \union {w \in {"moved"} : \E c \in Slots :
               /\ calls[c] # Idle /\ calls[c].task \in {"deploy", "undeploy"} /\ calls[c].live
               /\ calls[c].of # importer'.selected}
    \union {w \in {"chosen"} : \E c \in Slots : /\ Reloads(calls[c])
                                                /\ calls[c].saw # scanTarget'}

(* A deployed project was deployed in the view that shows it. *)
Shown(p) ==
    IF RecordsOf(p) = {} THEN {NoDeployment}
    ELSE {[of |-> p, id |-> d.id, target |-> d.target, external |-> FALSE] : d \in RecordsOf(p)}

(* The console shows the Projects view over any projects, one of them selected *)
(* and analysed and one at most deployed (on another port than the preferred   *)
(* one when there is no other project), or the Agents view over one deployed   *)
(* project and the agents of the templates at work.                            *)
Init ==
    /\ \/ /\ view = "projects"
          /\ \E I \in SUBSET Projects, D \in {{}} \union {{p} : p \in Projects}, port \in Ports :
                D \subseteq I /\ (port = Preferred \/ D = I) /\ LabInit(I, D, port, {})
       \/ /\ view = "agents"
          /\ \E p \in Projects : LabInit({p}, {p}, Preferred, Agents \ Custom)
    /\ \E p \in IF view = "agents" \/ imported = {} THEN {None} ELSE imported :
          \E d \in Shown(p) :
             importer = [NewImporter EXCEPT !.loading = FALSE, !.listed = imported,
                            !.selected = p, !.analysis = p, !.form.detected = p,
                            !.deployment = d]
    /\ host = [NewHost EXCEPT !.loading = FALSE, !.listed = Labelled, !.running = Labelled,
                              !.offered = templates]
    /\ offers = Registered(targets)
    /\ scanTarget \in IF offers = {} THEN {None} ELSE offers
    /\ gestures = 0
    /\ overlapped = {}
-----------------------------------------------------------------------------
(* The shell. *)

Unmounted == [c \in Slots |-> IF call[c] = Idle THEN Idle ELSE [call[c] EXCEPT !.live = FALSE]]

(* A view starts from nothing and loads its list. *)
Navigate(v) ==
    /\ v # view
    /\ view' = v
    /\ IF v = "overview" THEN call' = Unmounted
       ELSE /\ HasSlot
            /\ call' = [Unmounted EXCEPT ![NextSlot] =
                          Task(IF v = "agents" THEN "agents" ELSE "refresh", None, "list")]
    /\ importer' = NewImporter
    /\ host' = NewHost
    /\ UNCHANGED <<offers, scanTarget>>

(* "Run baseline scan" of a deployment's summary: runScanForTarget. *)
RunBaselineScan ==
    /\ view = "projects"
    /\ importer.selected # None /\ importer.deployment # NoDeployment
    /\ view' = "overview"
    /\ scanTarget' = importer.deployment.target
    /\ call' = Unmounted
    /\ importer' = NewImporter
    /\ host' = NewHost
    /\ UNCHANGED offers

ChooseTarget(t) ==
    /\ t \in offers \ {scanTarget}
    /\ scanTarget' = t
    /\ UNCHANGED <<view, offers, call, importer, host>>

TargetsServed(c) ==
    /\ At(c, "targets")
    /\ call' = [call EXCEPT ![c].at = "offered", ![c].copy = targets]
    /\ UNCHANGED <<offers, scanTarget>>

(* Mutant: the choice is made anew at each reload. *)
ChoiceAnew(saw, ids) == IF ids = {} THEN {None} ELSE ids

(* The choice is kept when it is still offered: the one of the render that *)
(* asked.                                                                  *)
Choice(saw, ids) ==
    IF saw \in ids THEN {scanTarget} ELSE IF ids = {} THEN {None} ELSE ids

TargetsLoaded(c) ==
    /\ At(c, "offered")
    /\ offers' = Registered(call[c].copy)
    /\ scanTarget' \in Choice(call[c].saw, offers')
    /\ Frees(c)
-----------------------------------------------------------------------------
Operate ==
    /\ gestures < MaxGestures
    /\ gestures' = gestures + 1
    /\ UNCHANGED <<dockerVars, registryVars, faults>>
    /\ \/ view = "projects" /\ ImporterActs /\ UNCHANGED <<host, shellVars>>
       \/ view = "agents" /\ HostActs /\ UNCHANGED <<importer, shellVars>>
       \/ RunBaselineScan
       \/ \E v \in Views : Navigate(v)
       \/ \E t \in TargetIds : ChooseTarget(t)

Handle ==
    /\ \E c \in Slots : Serving(c)
    /\ UNCHANGED <<importer, host, shellVars, gestures>>

Continue ==
    /\ \E c \in Slots :
          \/ ImporterContinues(c) /\ UNCHANGED <<host, shellVars>>
          \/ HostContinues(c) /\ UNCHANGED <<importer, shellVars>>
          \/ (TargetsServed(c) \/ TargetsLoaded(c)) /\ UNCHANGED <<importer, host, view>>
    /\ UNCHANGED <<dockerVars, registryVars, faults, gestures>>

Next ==
    /\ Operate \/ Handle \/ Continue
    /\ overlapped' = overlapped \union Overlaps(call')

Spec == Init /\ [][Next]_vars
-----------------------------------------------------------------------------
(* Every variable has its type. *)
TypeOK ==
    /\ LabTypeOK
    /\ importer \in Importer
    /\ host \in Host
    /\ view \in Views
    /\ offers \subseteq TargetIds
    /\ scanTarget \in TargetIds \union {None}
    /\ gestures \in 0..MaxGestures
    /\ \A c \in Slots : call[c] # Idle => call[c].of \in Subjects \union {None}

Sound(p) == p \notin overlapped /\ ~\E why \in SpoiledBy : <<p, why>> \in spoiled

(* agent_lab.py:935-937 "Leaving them behind would offer the operator dead   *)
(* targets": once no request is in progress, an Agent Lab target on a host   *)
(* port reaches a serving container of its own project, hence of no other.   *)
(* Not promised after a redeploy that failed once the old container was      *)
(* gone, a removal or a redeploy that left the targets of an earlier         *)
(* deployment, a removal that met a docker failure, a file that could not be *)
(* written, a record lost to a write on an older copy, a stop, start or      *)
(* removal from the Agents view, requests for the project that overlapped,   *)
(* or a lost change of the registry.                                         *)
NoDeadTarget ==
    Quiet /\ ~staleWrite =>
        \A p \in Projects, type \in TargetTypes :
            LET url == targets[LabTarget(p, type)] IN
            url \in Ports /\ Sound(p) => container[p] = Running(url, TRUE)

(* agent_lab.py:674 "Clean the failed container up rather than leaking it":  *)
(* once no request is in progress, a running container of a project has a    *)
(* deployment record that can remove it; not where docker failed to remove   *)
(* the container, a file could not be written after it was started, the      *)
(* record was lost to a write of another request on an older copy of the     *)
(* file, requests for the project overlapped or the Agents view handled the  *)
(* container.                                                                *)
RunningIsRecorded ==
    Quiet => \A p \in Projects :
        container[p].at = "up" =>
            \/ RecordsOf(p) # {}
            \/ p \in overlapped
            \/ \E why \in {"docker", "unsaved", "unrecorded", "overwritten", "agents"} :
                  <<p, why>> \in spoiled

(* AgentHost.tsx:316 "Each deploy auto-registers a scan target" and           *)
(* agent_host.py:179-181: the agent of a template and its target come and go  *)
(* together, and no target outlives its agent.  Not promised when docker or   *)
(* the write of the registry failed, when requests for the agent overlapped   *)
(* or when an agent of the same image was removed, which takes the targets of *)
(* both.                                                                      *)
AgentTargetsFollow ==
    Quiet /\ ~staleWrite =>
        \A a \in Agents : Sound(a) =>
            /\ targets[AgentTarget(a)] # None => container[a] # Absent
            /\ a \notin Custom /\ container[a] # Absent => targets[AgentTarget(a)] # None

(* ProjectImporter.tsx:192-194 "so nothing [...] leaks from the previously   *)
(* selected project into this one", and AgentHost.tsx:281-285: what a deploy *)
(* sends was filled in or detected for its own project, and a key goes to    *)
(* the provider it was typed for only; unless the analyses of two projects   *)
(* were under way at once, when the late one fills in its port.              *)
NothingTypedLeaks ==
    \A c \in Slots : call[c] # Idle =>
        /\ call[c].task = "deploy" =>
             /\ call[c].form.typed \in {None, call[c].of}
             /\ call[c].form.detected \in {None, call[c].of} \/ "analyse" \in overlapped
        /\ call[c].task \in Deploys => call[c].form.key \in {None, call[c].form.provider}

(* ProjectImporter.tsx:130 "so the preview never disagrees with what         *)
(* actually gets registered": the analysis and the deployment shown are of   *)
(* the selected project, unless two analyses, or a deploy and another        *)
(* selection, were under way at once.                                        *)
PanelIsOfSelected ==
    LET s == importer.selected IN
    s # None => /\ importer.analysis \in {None, s} \/ "analyse" \in overlapped
                /\ importer.deployment.of \in {None, s} \/ "moved" \in overlapped

(* A spinner or a disabled button waits for a request that will release it. *)
SpinnersWait ==
    LET Waits(tasks, steps) == \E c \in Slots : /\ call[c] # Idle /\ call[c].live
                                                /\ call[c].task \in tasks
                                                /\ call[c].at \notin steps
    IN /\ importer.analyzing => Waits(ImportTasks \union {"select"}, Reloading)
       /\ importer.busy # Nothing =>
             Waits(ImportTasks \union {"delete", "deploy", "undeploy"}, Reloading)
       /\ importer.loading /\ view = "projects" =>
             Waits(ImportTasks \union {"refresh", "delete"}, Reloading)
       /\ host.deploying => Waits(Deploys, Reloading)
       /\ host.loading /\ view = "agents" => Waits(HostTasks, Reloading)

(* AgentHost.tsx:254-258: the text under an agent is its own once no request *)
(* for logs is open, unless two were open at once.                           *)
LogsBelong ==
    host.logsFor # None /\ "logs" \notin overlapped /\ (\A c \in Slots : ~At(c, "logs"))
        => host.logs = host.logsFor

(* AgentHost.tsx:66-68 and 162-164 "the header selector must not keep         *)
(* offering a container that is gone": with no request open the header offers *)
(* exactly the registered targets, whichever view asked for the change and    *)
(* whether it is still mounted; unless two reloads were open at once, or a    *)
(* request changed the registry and was answered as failed for its record.    *)
OffersAreRegistered ==
    /\ \A c \in Slots : call[c] = Idle
    /\ "reloads" \notin overlapped
    /\ \A p \in Projects : <<p, "unrecorded">> \notin spoiled
    => offers = Registered(targets)

(* App.tsx:93: a reload changes the chosen scan target only when it is not    *)
(* offered any more, and leaves one that is; unless it was chosen while the   *)
(* reload was due.                                                            *)
ChoiceIsKept ==
    [][offers' # offers /\ "chosen" \notin overlapped =>
         /\ scanTarget' \in offers' \union {None}
         /\ scanTarget \in offers' => scanTarget' = scanTarget]_vars
=============================================================================
