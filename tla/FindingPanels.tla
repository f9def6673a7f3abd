---------------------------- MODULE FindingPanels ----------------------------
(***************************************************************************)
(* The panels about the selected finding in the workspace: explanation,    *)
(* CVE lookup, review status, raw evidence and chat.  They are mounted     *)
(* while a finding is shown and stay mounted when another one is; what     *)
(* they do then is in their effects, which React runs after the render and *)
(* before any other event: an effect has precedence over everything else.  *)
(***************************************************************************)
EXTENDS ScanConsole

CONSTANT Statuses       \* bound: the review statuses the operator picks from

ASSUME StatusAssumption ==
    /\ Statuses \subseteq FindingStatus
    /\ None \notin Findings \X FindingStatus

VARIABLE panels

NeedsReason == {"accepted_risk", "false_positive"}
Lookups == {"explain", "cve"}
Keys == Scans \X Findings

Mounted == app.view = "workspace" /\ app.selected # None
Key == <<app.active, app.selected>>
Explained == <<app.selected, app.status[app.selected]>>

(* ran: what each effect last ran for; told: the finding an explanation or a  *)
(* lookup is about; reason: what the text typed as a reason was typed for;    *)
(* asked, answered: the findings of the pending question and the last answer. *)
Panels ==
    [mounted : BOOLEAN, tab : {"intel", "chat"},
     ran : [explain : {None} \union (Findings \X FindingStatus), cve : Findings \union {None},
            chat : Findings \union {None}, evidence : Keys \union {None}],
     told : [Lookups -> Findings \union {None}],
     pending : NeedsReason \union {None},
     reason : {None} \union [finding : Findings, status : NeedsReason],
     open : BOOLEAN, requested : BOOLEAN, entry : Keys \union {None}, artifact : Keys \union {None},
     chatting : BOOLEAN, asked : Findings \union {None}, answered : Findings \union {None}]

NewPanels ==
    [mounted |-> FALSE, tab |-> "intel",
     ran |-> [explain |-> None, cve |-> None, chat |-> None, evidence |-> None],
     told |-> [l \in Lookups |-> None], pending |-> None, reason |-> None,
     open |-> FALSE, requested |-> FALSE, entry |-> None,
     artifact |-> None, chatting |-> FALSE, asked |-> None, answered |-> None]

PanelTasks == Lookups \union {"evidence", "artifact", "chat"}
PanelsStep == UNCHANGED <<scanVars, cached, permitted, faults>>

(* The calls of an effect that was cleaned up, or of a component that is gone. *)
Unwanted(tasks) ==
    [c \in Slots |-> IF call[c] # Idle /\ call[c].task \in tasks
                     THEN [call[c] EXCEPT !.live = FALSE] ELSE call[c]]

Restart(tasks, r) == BeginIn(Unwanted(tasks), r)
-----------------------------------------------------------------------------
(* Effects. *)

Unmount ==
    /\ panels.mounted /\ ~Mounted
    /\ panels' = NewPanels
    /\ call' = Unwanted(PanelTasks)

ExplainDue == Mounted /\ panels.ran.explain # Explained
CveDue == Mounted /\ panels.tab = "intel" /\ panels.ran.cve # app.selected
ChatDue == Mounted /\ panels.tab = "chat" /\ panels.ran.chat # app.selected
EvidenceDue == Mounted /\ panels.ran.evidence # Key

(* Children before parents, and in the order they are rendered. *)
ExplainEffect ==
    /\ ExplainDue /\ ~EvidenceDue
    /\ panels' = [panels EXCEPT !.mounted = TRUE, !.ran.explain = Explained,
                                !.told["explain"] = None]
    /\ Restart({"explain"}, Call("explain", app.selected, "read"))

CveEffect ==
    /\ CveDue /\ ~EvidenceDue /\ ~ExplainDue
    /\ panels' = [panels EXCEPT !.ran.cve = app.selected, !.told["cve"] = None]
    /\ Restart({"cve"}, Call("cve", app.selected, "read"))

ChatEffect ==
    /\ ChatDue /\ ~EvidenceDue /\ ~ExplainDue
    /\ panels' = [panels EXCEPT !.ran.chat = app.selected, !.asked = None, !.answered = None]
    /\ UNCHANGED call

(* An open panel asks at once for the evidence of another finding. *)
EvidenceEffect ==
    /\ EvidenceDue
    /\ panels' = [panels EXCEPT !.mounted = TRUE, !.ran.evidence = Key, !.entry = None,
                                !.artifact = None, !.requested = panels.open]
    /\ IF panels.open THEN Restart({"evidence"}, Call("evidence", Key, "read"))
                      ELSE call' = Unwanted({"evidence"})

PanelEffects ==
    /\ Unmount \/ ExplainEffect \/ CveEffect \/ ChatEffect \/ EvidenceEffect
    /\ PanelsStep

PanelsSettled ==
    /\ panels.mounted => Mounted
    /\ ~ExplainDue /\ ~CveDue /\ ~ChatDue /\ ~EvidenceDue
-----------------------------------------------------------------------------
(* What the operator does. *)

(* Mutant: the text typed for another status stays. *)
PickStatusKeepingReason(s) ==
    /\ Mounted /\ s \notin {app.status[app.selected], panels.pending}
    /\ IF s \in NeedsReason
       THEN /\ panels' = [panels EXCEPT !.pending = s]
            /\ UNCHANGED <<scanVars, clientVars>>
       ELSE Patched(s, None) /\ UNCHANGED panels

(* A status that needs a reason waits for it; another one is sent at once. *)
PickStatus(s) ==
    /\ Mounted /\ s \notin {app.status[app.selected], panels.pending}
    /\ IF s \in NeedsReason
       THEN /\ panels' = [panels EXCEPT !.pending = s, !.reason = None]
            /\ UNCHANGED <<scanVars, clientVars>>
       ELSE Patched(s, None) /\ UNCHANGED panels

TypeReason ==
    LET typed == [finding |-> app.selected, status |-> panels.pending] IN
    /\ Mounted /\ panels.pending # None /\ panels.reason # typed
    /\ panels' = [panels EXCEPT !.reason = typed]
    /\ UNCHANGED <<scanVars, clientVars>>

CancelReason ==
    /\ panels.pending # None
    /\ panels' = [panels EXCEPT !.pending = None]
    /\ UNCHANGED <<scanVars, clientVars>>

ConfirmReason ==
    /\ Mounted /\ panels.pending # None /\ panels.reason # None
    /\ Patched(panels.pending, panels.reason)
    /\ panels' = [panels EXCEPT !.pending = None, !.reason = None]

MarkForReview == Mounted /\ Patched("triaged", None) /\ UNCHANGED panels

(* Closing the panel cleans the request up; opening it again does not repeat *)
(* a request for the same finding.                                           *)
ToggleEvidence ==
    /\ Mounted
    /\ IF ~panels.open /\ ~panels.requested
       THEN /\ panels' = [panels EXCEPT !.open = TRUE, !.requested = TRUE]
            /\ Begin(Call("evidence", Key, "read"))
       ELSE /\ panels' = [panels EXCEPT !.open = ~@]
            /\ call' = Unwanted({"evidence"})
    /\ PanelsStep

(* The artifacts are listed once the entry is there. *)
ArtifactsListed == Mounted /\ panels.open /\ panels.entry # None

OpenArtifact ==
    /\ ArtifactsListed
    /\ IF panels.artifact = None
       THEN Begin(Call("artifact", Key, "read")) /\ UNCHANGED panels
       ELSE panels' = [panels EXCEPT !.artifact = None] /\ UNCHANGED call
    /\ PanelsStep

(* The tab that is left is unmounted. *)
ShowTab(tab) ==
    /\ Mounted /\ tab # panels.tab
    /\ panels' = [panels EXCEPT !.tab = tab, !.ran.cve = None, !.ran.chat = None,
                                !.told["cve"] = None,
                                !.chatting = FALSE, !.asked = None, !.answered = None]
    /\ call' = Unwanted({"cve", "chat"})
    /\ PanelsStep

MayAsk == Mounted /\ panels.tab = "chat" /\ ~panels.chatting

Ask ==
    /\ MayAsk
    /\ Begin(Call("chat", app.selected, "read"))
    /\ panels' = [panels EXCEPT !.chatting = TRUE, !.asked = app.selected]
    /\ PanelsStep
-----------------------------------------------------------------------------
(* What the answers do.  The assistant, the CVE sources and the chat change *)
(* nothing on the server, so that a call of theirs is answered or fails.    *)

(* Mutant: an answer is taken although another finding is shown by now. *)
AnyAnswer(c) == TRUE

Wanted(c) == call[c].live

(* A failure, or a text that no local model wrote, leaves the place empty.  No *)
(* effect cleans up an artifact's request: it is wanted until all is unmounted. *)
LookupAnswered(c) ==
    /\ At(c, "read") /\ call[c].task \in Lookups \union {"evidence", "artifact"}
    /\ \E ok \in BOOLEAN :
          /\ IF ok THEN UNCHANGED faults ELSE Fault
          /\ panels' =
               IF ~(ok /\ Wanted(c)) THEN panels
               ELSE CASE call[c].task \in Lookups ->
                             [panels EXCEPT !.told[call[c].task] = call[c].of]
                      [] call[c].task = "evidence" -> [panels EXCEPT !.entry = call[c].of]
                      [] OTHER -> [panels EXCEPT !.artifact = call[c].of]
    /\ Frees(c)
    /\ UNCHANGED <<scanVars, cached, permitted>>

(* The pending message is found by its id, or not at all any more. *)
ChatAnswered(c) ==
    /\ At(c, "read") /\ call[c].task = "chat"
    /\ panels' = IF ~call[c].live THEN panels
                 ELSE [panels EXCEPT !.chatting = FALSE, !.asked = None,
                          !.answered = IF panels.asked # None THEN call[c].of ELSE @]
    /\ Frees(c)
    /\ PanelsStep

PanelsContinue(c) == LookupAnswered(c) \/ ChatAnswered(c)
PanelsAct ==
    \/ TypeReason \/ CancelReason \/ ConfirmReason \/ MarkForReview
    \/ ToggleEvidence \/ OpenArtifact \/ Ask
    \/ \E s \in Statuses : PickStatus(s)
    \/ \E tab \in {"intel", "chat"} : ShowTab(tab)
=============================================================================
