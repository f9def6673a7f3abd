----------------------------- MODULE AgentHost -----------------------------
(***************************************************************************)
(* The Agents view: hosted agents, their logs, templates and the forms     *)
(* that deploy them.  Conventions as in ProjectImporter.                   *)
(***************************************************************************)
EXTENDS AgentLab

CONSTANT Providers     \* model providers, the ones that need a key

VARIABLES
    host           \* the component's state

Subjects == Projects \union Agents    \* what carries the label vulnoraiq.agent

Host == [listed : SUBSET Subjects, running : SUBSET Subjects, offered : SUBSET Agents,
         loading : BOOLEAN, deploying : BOOLEAN,
         logsFor : Subjects \union {None}, logs : Subjects \union {None},
         provider : Providers \union {None}, key : Providers \union {None},
         image : Custom \union {None}, port : BOOLEAN]

(* key: the provider chosen when the key was typed; image: the agent its name *)
(* makes; port: whether one was given.                                        *)
NewHost == [listed |-> {}, running |-> {}, offered |-> {}, loading |-> TRUE,
            deploying |-> FALSE, logsFor |-> None, logs |-> None, provider |-> None,
            key |-> None, image |-> None, port |-> FALSE]

HostSet(c, state) == host' = IF call[c].live THEN state ELSE host
HostTask(task, of, at) == [Call(task, of, at) EXCEPT !.saw = scanTarget]
-----------------------------------------------------------------------------
(* What the operator does. *)

(* What the last render offers. *)
ActionsOn(s) ==
    IF s \notin host.listed THEN {}
    ELSE {"logs", "remove", IF s \in host.running THEN "stop" ELSE "start"}
OffersTemplate(a) == a \in host.offered /\ ~host.deploying
OffersCustom == host.image # None /\ ~host.deploying

RefreshAgents ==
    /\ Begin(HostTask("agents", None, "list"))
    /\ host' = [host EXCEPT !.loading = TRUE]

ChooseProvider(k) ==
    /\ k # host.provider
    /\ host' = [host EXCEPT !.provider = k, !.key = None]
    /\ UNCHANGED call

TypeKey ==
    /\ host.provider # None
    /\ host.key # host.provider
    /\ host' = [host EXCEPT !.key = host.provider]
    /\ UNCHANGED call

FillCustom(a, port) ==
    /\ <<host.image, host.port>> # <<a, port>>
    /\ host' = [host EXCEPT !.image = a, !.port = port]
    /\ UNCHANGED call

(* The provider's environment goes with a template deploy. *)
DeployTemplate(a) ==
    /\ OffersTemplate(a)
    /\ Begin([HostTask("deploy-template", a, "run-agent") EXCEPT
                 !.form = [provider |-> host.provider, publishes |-> TRUE,
                           key |-> IF host.provider = None THEN None ELSE host.key]])
    /\ host' = [host EXCEPT !.deploying = TRUE]

DeployCustom ==
    /\ OffersCustom
    /\ Begin([HostTask("deploy-image", host.image, "run-agent") EXCEPT
                 !.form = [provider |-> None, key |-> None, publishes |-> host.port]])
    /\ host' = [host EXCEPT !.deploying = TRUE]

AgentAction(s, action) ==
    /\ action \in ActionsOn(s)
    /\ Begin(HostTask(action, s, action))
    /\ UNCHANGED host

(* Mutant: logs that were loaded are not loaded again. *)
OpenLogsOnce(s) ==
    /\ "logs" \in ActionsOn(s)
    /\ s # host.logsFor
    /\ IF host.logs = None THEN Begin(HostTask("logs", s, "logs")) ELSE UNCHANGED call
    /\ host' = [host EXCEPT !.logsFor = s]

(* Opening the logs of one agent closes another's; the text shown stays until *)
(* the answer comes.                                                          *)
OpenLogs(s) ==
    /\ "logs" \in ActionsOn(s)
    /\ s # host.logsFor
    /\ Begin(HostTask("logs", s, "logs"))
    /\ host' = [host EXCEPT !.logsFor = s]

CloseLogs ==
    /\ host.logsFor # None
    /\ host' = [host EXCEPT !.logsFor = None]
    /\ UNCHANGED call

AddTemplate(a) ==
    /\ a \notin host.offered
    /\ Begin(HostTask("save-template", a, "save-template"))
    /\ UNCHANGED host

DropTemplate(a) ==
    /\ a \in host.offered
    /\ Begin(HostTask("delete-template", a, "delete-template"))
    /\ UNCHANGED host
-----------------------------------------------------------------------------
(* What the handlers do with an answer. *)

Deploys == {"deploy-template", "deploy-image"}
HostTasks == {"agents", "stop", "start", "remove", "save-template", "delete-template"}
                \union Deploys

HostFrees(c) == call' = [call EXCEPT ![c] = Idle]
HostReloads(c) == Goes(c, "targets")

(* The `finally` of a deploy empties the key and the custom image's form, also *)
(* what was typed while it was pending.                                        *)
DeployEnds(state) ==
    [state EXCEPT !.deploying = FALSE, !.key = None, !.image = None, !.port = FALSE]

Labelled == {s \in Subjects : container[s] # Absent}

(* Mutant: a removal does not tell the shell. *)
AgentsListedQuietly(c) ==
    /\ At(c, "list") /\ call[c].task \in HostTasks
    /\ LET loaded == [host EXCEPT !.loading = FALSE, !.listed = Labelled,
                                  !.running = {s \in Labelled : container[s].at = "up"},
                                  !.offered = templates]
       IN HostSet(c, IF call[c].task \in Deploys THEN DeployEnds(loaded) ELSE loaded)
    /\ IF call[c].task \in Deploys THEN HostReloads(c) ELSE HostFrees(c)

(* loadAgents ends; a deploy and a removal then reload the shell's targets. *)
AgentsListed(c) ==
    /\ At(c, "list") /\ call[c].task \in HostTasks
    /\ LET loaded == [host EXCEPT !.loading = FALSE, !.listed = Labelled,
                                  !.running = {s \in Labelled : container[s].at = "up"},
                                  !.offered = templates]
       IN HostSet(c, IF call[c].task \in Deploys THEN DeployEnds(loaded) ELSE loaded)
    /\ IF call[c].task \in Deploys \union {"remove"} THEN HostReloads(c) ELSE HostFrees(c)

HostAnswered(c) ==
    /\ At(c, "answered") /\ call[c].task \in HostTasks
    /\ IF call[c].ok
       THEN /\ Goes(c, "list")
            /\ HostSet(c, [host EXCEPT !.loading = TRUE,
                              !.logsFor = IF call[c].task = "remove" THEN None ELSE @])
       ELSE /\ HostFrees(c)
            /\ HostSet(c, IF call[c].task \in Deploys THEN DeployEnds(host) ELSE host)

LogsAnswered(c) ==
    /\ At(c, "logs")
    /\ HostSet(c, [host EXCEPT !.logs = call[c].of])
    /\ HostFrees(c)

HostContinues(c) == AgentsListed(c) \/ HostAnswered(c) \/ LogsAnswered(c)

HostActs ==
    \/ RefreshAgents \/ TypeKey \/ DeployCustom \/ CloseLogs
    \/ \E k \in Providers \union {None} : ChooseProvider(k)
    \/ \E a \in Agents \ Custom : DeployTemplate(a) \/ AddTemplate(a) \/ DropTemplate(a)
    \/ \E a \in Custom, port \in BOOLEAN : FillCustom(a, port)
    \/ \E s \in Subjects : \/ OpenLogs(s)
                           \/ \E action \in {"stop", "start", "remove"} : AgentAction(s, action)
=============================================================================
