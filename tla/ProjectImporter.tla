--------------------------- MODULE ProjectImporter ---------------------------
(***************************************************************************)
(* The Projects view: a React component whose handlers are asynchronous    *)
(* functions.  A handler runs up to its first await when its control is    *)
(* used, and goes on with each answer; what it captured when it was called *)
(* may be old by then.  A handler of a view that was left goes on too, but *)
(* sets no state.                                                          *)
(*                                                                         *)
(* Fields are abstracted to the project that was selected when they were   *)
(* filled in.                                                              *)
(***************************************************************************)
EXTENDS AgentLab

VARIABLES
    importer       \* the component's state

Nothing == [what |-> "nothing", of |-> None]
ImportTasks == {"archive", "git"}    \* a folder is packed into an archive

Busy == {Nothing} \union [what : {"delete"}, of : Projects]
                  \union [what : ImportTasks \union {"deploy", "undeploy"}, of : {None}]

(* typed: everything the operator filled in, the acknowledgement included; *)
(* detected: what the analysis filled in, the container port.              *)
EmptyForm == [mode |-> "container", type |-> "http_json", typed |-> None, detected |-> None]
Form == [mode : Modes, type : TargetTypes, typed : Projects \union {None},
         detected : Projects \union {None}]

NoDeployment == [of |-> None, id |-> 0, target |-> None, external |-> FALSE]
Deployment == {NoDeployment} \union
              [of : Projects, id : Nat, target : TargetIds, external : BOOLEAN]

Importer == [listed : SUBSET Projects, loading : BOOLEAN, busy : Busy,
             selected : Projects \union {None}, analysis : Projects \union {None},
             analyzing : BOOLEAN, form : Form, deployment : Deployment]

NewImporter ==
    [listed |-> {}, loading |-> TRUE, busy |-> Nothing, selected |-> None, analysis |-> None,
     analyzing |-> FALSE, form |-> EmptyForm, deployment |-> NoDeployment]

ui == importer    \* what the operator sees

Set(c, state) == importer' = IF call[c].live THEN state ELSE importer

(* Mutants: the form, or what the panel shows, survives the selection. *)
SelectedKeepsForm(state, p) ==
    [state EXCEPT !.selected = p, !.analysis = None, !.analyzing = TRUE,
                  !.deployment = NoDeployment]

SelectedKeepsPanel(state, p) ==
    [state EXCEPT !.selected = p, !.analyzing = TRUE, !.form = EmptyForm]

(* selectProject up to its await. *)
Selected(state, p) ==
    [state EXCEPT !.selected = p, !.analysis = None, !.analyzing = TRUE,
                  !.deployment = NoDeployment, !.form = EmptyForm]
-----------------------------------------------------------------------------
(* What the operator does. *)

Task(task, of, at) == [Call(task, of, at) EXCEPT !.saw = scanTarget]

(* What the last render offers: the cards of the list, the import cards, and *)
(* the buttons of the panel of the selected project.                         *)
Cards == IF ui.loading THEN {} ELSE ui.listed
MayImport(kind) == ui.busy.what # kind
MayDelete(p) == p \in Cards /\ ui.busy # [what |-> "delete", of |-> p]
MayDeploy == ui.selected # None /\ ui.busy.what # "deploy" /\ ~ui.analyzing
MayUndeploy ==
    /\ ui.selected # None
    /\ ui.deployment # NoDeployment /\ ~ui.deployment.external
    /\ ui.busy.what # "undeploy"

Refresh ==
    /\ ~ui.loading
    /\ Begin(Task("refresh", None, "list"))
    /\ importer' = [ui EXCEPT !.loading = TRUE]

SelectProject(p) ==
    /\ p \in Cards \ {ui.selected}
    /\ Begin(Task("select", p, "analyse"))
    /\ importer' = Selected(ui, p)

(* importFolder, importArchive and importGit: the id comes from the folder, *)
(* file or repository name.  Size checks happen before anything is sent.   *)
ImportProject(kind, p) ==
    /\ MayImport(kind)
    /\ Begin(Task(kind, p, "import"))
    /\ importer' = [ui EXCEPT !.busy = [what |-> kind, of |-> None]]

(* removeProject compares with the selection of the render it was made in. *)
RemoveProject(p) ==
    /\ MayDelete(p)
    /\ Begin([Task("delete", p, "delete") EXCEPT !.saw = ui.selected])
    /\ importer' = [ui EXCEPT !.busy = [what |-> "delete", of |-> p]]

(* The operator picks a mode and a type and fills in what the mode asks for, *)
(* a provider or a URL and the acknowledgement.                              *)
FillIn(mode, type) ==
    /\ ui.selected # None
    /\ <<ui.form.mode, ui.form.type>> # <<mode, type>>
    /\ importer' = [ui EXCEPT !.form.mode = mode, !.form.type = type,
                              !.form.typed = ui.selected]
    /\ UNCHANGED call

(* Modes other than container ask for the acknowledgement and an endpoint. *)
Complete(form) == form.mode # "container" => form.typed # None

Deploy ==
    /\ MayDeploy
    /\ Complete(ui.form)
    /\ Begin([Task("deploy", ui.selected, "deploy") EXCEPT !.form = ui.form])
    /\ importer' = [ui EXCEPT !.busy = [what |-> "deploy", of |-> None],
                              !.deployment = NoDeployment]

RemoveDeployment ==
    /\ MayUndeploy
    /\ Begin([Task("undeploy", ui.deployment.of, "undeploy") EXCEPT !.id = ui.deployment.id])
    /\ importer' = [ui EXCEPT !.busy = [what |-> "undeploy", of |-> None]]
-----------------------------------------------------------------------------
(* What the handlers do with an answer. *)

Frees(c) == call' = [call EXCEPT ![c] = Idle]
NotBusy(state) == [state EXCEPT !.busy = Nothing]

(* Mutant: the spinner is stopped on success only. *)
AnalysedOnlyOk(state, p, ok, nudge) ==
    IF ok THEN [state EXCEPT !.analysis = p, !.form.detected = p, !.analyzing = FALSE,
                             !.form.mode = IF nudge THEN "external" ELSE @]
    ELSE state

(* A project that can be neither built nor given a Dockerfile is nudged to *)
(* the external mode.                                                      *)
Analysed(state, p, ok, nudge) ==
    [state EXCEPT !.analyzing = FALSE,
                  !.analysis = IF ok THEN p ELSE @,
                  !.form.detected = IF ok THEN p ELSE @,
                  !.form.mode = IF ok /\ nudge THEN "external" ELSE @]

(* The list is loaded: refresh is done, an import goes on to select what it *)
(* imported, a removal is done.                                             *)
ProjectsListed(c) ==
    /\ At(c, "list") /\ call[c].task \in ImportTasks \union {"refresh", "delete"}
    /\ LET loaded == [ui EXCEPT !.listed = imported, !.loading = FALSE] IN
       CASE call[c].task = "refresh" -> Set(c, loaded) /\ Frees(c)
         [] call[c].task = "delete" -> Set(c, NotBusy(loaded)) /\ Frees(c)
         [] OTHER -> Set(c, Selected(loaded, call[c].of)) /\ Goes(c, "analyse")

AnalysisAnswered(c) ==
    /\ At(c, "analyse")
    /\ \E nudge \in BOOLEAN :
          LET done == Analysed(ui, call[c].of, call[c].of \in imported, nudge) IN
          Set(c, IF call[c].task = "select" THEN done ELSE NotBusy(done))
    /\ Frees(c)

ImportAnswered(c) ==
    /\ At(c, "answered") /\ call[c].task \in ImportTasks
    /\ IF call[c].ok THEN Set(c, [ui EXCEPT !.loading = TRUE]) /\ Goes(c, "list")
                     ELSE Set(c, NotBusy(ui)) /\ Frees(c)

ProjectRemoved(c) ==
    /\ At(c, "answered") /\ call[c].task = "delete"
    /\ LET gone == IF call[c].saw = call[c].of
                   THEN [ui EXCEPT !.selected = None, !.analysis = None,
                                   !.deployment = NoDeployment]
                   ELSE ui
       IN Set(c, [gone EXCEPT !.loading = TRUE])
    /\ Goes(c, "list")

(* onTargetsChanged: App.loadTargets starts, in the render of the click. *)
ReloadTargets(c) == Goes(c, "targets")

DeployAnswered(c) ==
    /\ At(c, "answered") /\ call[c].task = "deploy"
    /\ IF call[c].ok
       THEN /\ Set(c, [NotBusy(ui) EXCEPT !.deployment =
                         [of |-> call[c].of, id |-> call[c].id,
                          target |-> LabTarget(call[c].of, call[c].form.type),
                          external |-> call[c].form.mode = "external"]])
            /\ ReloadTargets(c)
       ELSE Set(c, NotBusy(ui)) /\ Frees(c)

DeploymentRemoved(c) ==
    /\ At(c, "answered") /\ call[c].task = "undeploy"
    /\ IF call[c].ok
       THEN Set(c, [NotBusy(ui) EXCEPT !.deployment = NoDeployment]) /\ ReloadTargets(c)
       ELSE Set(c, NotBusy(ui)) /\ Frees(c)

ImporterContinues(c) ==
    ProjectsListed(c) \/ AnalysisAnswered(c) \/ ImportAnswered(c) \/ ProjectRemoved(c)
    \/ DeployAnswered(c) \/ DeploymentRemoved(c)

ImporterActs ==
    \/ Refresh \/ Deploy \/ RemoveDeployment
    \/ \E p \in Projects : \/ SelectProject(p) \/ RemoveProject(p)
                           \/ \E kind \in ImportTasks : ImportProject(kind, p)
    \/ \E mode \in Modes, type \in TargetTypes : FillIn(mode, type)
=============================================================================
