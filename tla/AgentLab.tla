------------------------------ MODULE AgentLab ------------------------------
(***************************************************************************)
(* The server's side of the Projects and Agents views: imported projects,  *)
(* the containers Docker runs for them and for hosted agents, the          *)
(* deployment records and the registry of scan targets.                    *)
(*                                                                         *)
(* A request is a call of the console.  Its handler lets others in between *)
(* two docker commands and between two accesses of a file.  Everything a   *)
(* handler may meet that is not its own doing (a failing command, an image *)
(* that never serves) costs one fault.                                     *)
(***************************************************************************)
EXTENDS RuntimeTargets, Naturals, FiniteSets

CONSTANTS
    Projects,
    Agents,        \* ids of hosted agents; a template has the id of its agent
    Custom,        \* the agents among them whose image the operator types in
    Image,         \* the image of each agent
    Ports,         \* loopback ports of the host
    Slots,         \* bound: requests the console has open at once, 1..n
    MaxFaults      \* bound: commands that fail and images that do not serve

VARIABLES
    imported,      \* projects with a directory under the managed root
    templates,     \* agents with a template
    container,     \* the container of each project and agent
    records,       \* the deployment records
    stamps,        \* deployments recorded so far: the next one's id
    call,          \* the requests of the console, handler and continuation
    scanTarget,    \* the console's header: the target chosen for the next scan
    served,        \* history: the URLs at which a project's container answered
    spoiled,       \* history: <<project or agent, why>> where no promise is kept
    faults

dockerVars == <<imported, templates, container, records, stamps, served, spoiled>>
labVars == <<dockerVars, registryVars, call, faults>>

TargetTypes == {"http_json", "chat_completions"}
Modes == {"container", "hybrid", "external"}

LabTarget(p, type) == <<p, type>>
AgentTarget(a) == <<a, "agent">>

External == "external"     \* a URL the operator typed
AgentUrl == "agent"        \* the port an agent's template or form publishes

ASSUME LabAssumption ==
    /\ DOMAIN Image = Agents /\ Custom \subseteq Agents
    /\ Projects \intersect Agents = {} /\ None \notin Projects \union Agents
    /\ Projects \X TargetTypes \subseteq TargetIds /\ Agents \X {"agent"} \subseteq TargetIds
    /\ Ports # {} /\ Ports \intersect {External, AgentUrl} = {}
    /\ Ports \union {External, AgentUrl} \subseteq Urls /\ None \notin Urls
    /\ Slots \subseteq Nat /\ MaxFaults \in Nat

Absent == [at |-> "absent", port |-> None, serves |-> FALSE]
Running(port, serves) == [at |-> "up", port |-> port, serves |-> serves]
Container == {Absent} \union
             [at : {"created", "up", "exited"}, port : Ports \union {None}, serves : BOOLEAN]

(* _free_host_port: the container's own port when it is free. *)
Preferred == CHOOSE p \in Ports : TRUE

Record == [of : Projects, id : Nat, target : TargetIds, url : Urls]

Idle == [at |-> "idle"]

(* A call: the console's function, what it is about, where it stands, whether *)
(* the view that made it is still mounted, and what it carries.               *)
Call(task, of, at) ==
    [task |-> task, of |-> of, at |-> at, live |-> TRUE, ok |-> FALSE, form |-> None,
     saw |-> None, ids |-> {}, url |-> None, copy |-> None, after |-> "answered", id |-> 0]

FreeSlots == {c \in Slots : call[c] = Idle}
HasSlot == FreeSlots # {}
NextSlot == CHOOSE c \in FreeSlots : \A d \in FreeSlots : c <= d
Begin(r) == HasSlot /\ call' = [call EXCEPT ![NextSlot] = r]

(* A server on which the projects I were imported, D of them deployed on a     *)
(* port, and the agents R run.                                                 *)
LabInit(I, D, port, R) ==
    /\ imported = I
    /\ templates = Agents \ Custom
    /\ container = [s \in Projects \union Agents |->
                       IF s \in D THEN Running(port, TRUE)
                       ELSE IF s \in R THEN Running(None, TRUE) ELSE Absent]
    /\ targets = [t \in TargetIds |->
                     IF \E p \in D : t = LabTarget(p, "http_json") THEN port
                     ELSE IF \E a \in R : t = AgentTarget(a) THEN AgentUrl ELSE None]
    /\ records = {[of |-> p, id |-> 1, target |-> LabTarget(p, "http_json"), url |-> port] : p \in D}
    /\ stamps = Cardinality(D)
    /\ served = [p \in Projects |-> IF p \in D THEN {port} ELSE {}]
    /\ call = [c \in Slots |-> Idle]
    /\ staleWrite = FALSE
    /\ spoiled = {}
    /\ faults = 0

At(c, step) == call[c].at = step
Goes(c, step) == call' = [call EXCEPT ![c].at = step]
Answers(c, ok) == call' = [call EXCEPT ![c].at = "answered", ![c].ok = ok]
Edits(c, ids, url, after) ==
    call' = [call EXCEPT ![c].at = "load", ![c].ids = ids, ![c].url = url, ![c].after = after]
Fault == faults < MaxFaults /\ faults' = faults + 1
-----------------------------------------------------------------------------
(* The registry file: load, edit, write.  The file of the records is treated  *)
(* the same way, by SaveDeployment and DropRecords.                           *)

LoadTargets(c) ==
    /\ At(c, "load")
    /\ call' = [call EXCEPT ![c].at = "write", ![c].copy = targets]
    /\ UNCHANGED <<dockerVars, registryVars, faults>>

WriteTargets(c) ==
    /\ At(c, "write")
    /\ WriteBack(call[c].copy, call[c].ids, call[c].url)
    /\ call' = [call EXCEPT ![c].at = call[c].after, ![c].copy = None,
                            ![c].ok = call[c].after = "answered"]
    /\ UNCHANGED <<dockerVars, faults>>

(* Either file cannot be read or written: the handler raises, and what it did *)
(* to a container or the other file so far stays.                             *)
FileFails(c) ==
    /\ call[c].at \in {"write", "save", "dropping"}
    /\ Fault
    /\ call' = [call EXCEPT ![c].at = "answered", ![c].ok = FALSE, ![c].copy = None]
    /\ spoiled' = spoiled \union
                    {<<call[c].of, IF At(c, "write") THEN "unsaved" ELSE "unrecorded">>}
    /\ UNCHANGED <<imported, templates, container, records, stamps, served, registryVars>>
-----------------------------------------------------------------------------
(* Importing and deleting projects. *)

CheckImport(c) ==
    /\ At(c, "import")
    /\ IF call[c].of \in imported THEN Answers(c, FALSE) ELSE Goes(c, "unpack")
    /\ UNCHANGED <<dockerVars, registryVars, faults>>

(* An archive that finds the directory there after all removes it on its way *)
(* out; git refuses to clone into it.                                        *)
Unpack(c) ==
    /\ At(c, "unpack")
    /\ LET p == call[c].of IN
       \/ /\ p \notin imported
          /\ imported' = imported \union {p}
          /\ Answers(c, TRUE)
       \/ /\ p \in imported
          /\ imported' = IF call[c].task = "git" THEN imported ELSE imported \ {p}
          /\ Answers(c, FALSE)
    /\ UNCHANGED <<templates, container, records, stamps, served, spoiled, registryVars, faults>>

UnpackFails(c) ==
    /\ At(c, "unpack")
    /\ Fault
    /\ Answers(c, FALSE)
    /\ imported' = IF call[c].task = "git" THEN imported ELSE imported \ {call[c].of}
    /\ UNCHANGED <<templates, container, records, stamps, served, spoiled, registryVars>>

DeleteProject(c) ==
    /\ At(c, "delete")
    /\ imported' = imported \ {call[c].of}
    /\ Answers(c, TRUE)
    /\ UNCHANGED <<templates, container, records, stamps, served, spoiled, registryVars, faults>>

Importing(c) == CheckImport(c) \/ Unpack(c) \/ UnpackFails(c) \/ DeleteProject(c)
-----------------------------------------------------------------------------
(* deploy_agent_project. *)

PortsInUse == {container[s].port : s \in {s \in DOMAIN container : container[s].at = "up"}}

MayPublish == IF Preferred \notin PortsInUse THEN {Preferred} ELSE Ports \ PortsInUse

Responds(port) ==
    \E s \in DOMAIN container : /\ container[s].at = "up"
                                /\ container[s].port = port
                                /\ container[s].serves

SetContainer(s, to) == container' = [container EXCEPT ![s] = to]

InContainer(r) == r.url # External
RecordsOf(p) == {d \in records : d.of = p /\ InContainer(d)}

(* A redeploy that fails here has removed the container its record and target *)
(* still speak of.                                                            *)
LosesOld(p) ==
    spoiled' = IF RecordsOf(p) = {} THEN spoiled ELSE spoiled \union {<<p, "redeploy">>}

(* An external endpoint only needs registering.  docker build, and docker rm -f *)
(* of the container that has the project's name so far; when that fails it is  *)
(* swallowed, and docker run will find the name taken.                         *)
StartDeploy(c) ==
    /\ At(c, "deploy")
    /\ LET p == call[c].of
           form == call[c].form
       IN \/ /\ form.mode = "external"
             /\ Edits(c, {LabTarget(p, form.type)}, External, "record")
             /\ UNCHANGED <<container, faults>>
          \/ /\ form.mode # "external" /\ p \in imported
             /\ Goes(c, "run")
             /\ \/ SetContainer(p, Absent) /\ UNCHANGED faults
                \/ container[p] # Absent /\ UNCHANGED container /\ Fault
    /\ UNCHANGED <<imported, templates, records, stamps, served, spoiled, registryVars>>

(* The project is gone, or its image does not build. *)
StartDeployFails(c) ==
    /\ At(c, "deploy")
    /\ call[c].form.mode # "external"
    /\ IF call[c].of \in imported THEN Fault ELSE UNCHANGED faults
    /\ Answers(c, FALSE)
    /\ UNCHANGED <<dockerVars, registryVars>>

(* docker run: the name is taken again by a deploy of the same project, or *)
(* the container starts and may or may not come to serve.                  *)
RunContainer(c) ==
    /\ At(c, "run")
    /\ LET p == call[c].of IN
       \/ /\ container[p] # Absent
          /\ Answers(c, FALSE)
          /\ UNCHANGED <<container, faults>>
       \/ /\ container[p] = Absent
          /\ \E port \in MayPublish, serves \in BOOLEAN :
                /\ IF serves THEN UNCHANGED faults ELSE Fault
                /\ SetContainer(p, Running(port, serves))
                /\ call' = [call EXCEPT ![c].at = "health", ![c].url = port]
    /\ UNCHANGED <<imported, templates, records, stamps, served, spoiled, registryVars>>

(* docker run -d that cannot start what it created leaves it behind. *)
RunFails(c) ==
    /\ At(c, "run")
    /\ container[call[c].of] = Absent
    /\ Fault
    /\ Answers(c, FALSE)
    /\ \/ UNCHANGED container
       \/ SetContainer(call[c].of, [Absent EXCEPT !.at = "created"])
    /\ LosesOld(call[c].of)
    /\ UNCHANGED <<imported, templates, records, stamps, served, registryVars>>

(* Mutant: a running container is taken for a healthy one. *)
HealthyWhenUp(c) == container[call[c].of].at = "up"

Healthy(c) == container[call[c].of].at = "up" /\ Responds(call[c].url)

(* A redeploy under another type leaves the target of the one before, which is *)
(* dead when the port is another.                                              *)
Moves(c) ==
    \E type \in TargetTypes \ {call[c].form.type} :
        targets[LabTarget(call[c].of, type)] \in Ports \ {call[c].url}

HealthPasses(c) ==
    /\ At(c, "health")
    /\ Healthy(c)
    /\ spoiled' = IF Moves(c) THEN spoiled \union {<<call[c].of, "types">>} ELSE spoiled
    /\ served' = [served EXCEPT ![call[c].of] = IF Responds(call[c].url)
                                                THEN @ \union {call[c].url} ELSE @]
    /\ Edits(c, {LabTarget(call[c].of, call[c].form.type)}, call[c].url, "record")
    /\ UNCHANGED <<imported, templates, container, records, stamps, registryVars, faults>>

(* The container that is cleaned up is the one with the name, whoever ran it. *)
HealthFails(c) ==
    /\ At(c, "health")
    /\ ~Healthy(c)
    /\ Answers(c, FALSE)
    /\ SetContainer(call[c].of, Absent)
    /\ LosesOld(call[c].of)
    /\ UNCHANGED <<imported, templates, records, stamps, served, registryVars, faults>>

(* docker rm fails too, which is swallowed: the container stays as it is. *)
(* What kept it from serving has cost the fault.                          *)
CleanUpFails(c) ==
    /\ At(c, "health")
    /\ ~Healthy(c)
    /\ container[call[c].of] # Absent
    /\ Answers(c, FALSE)
    /\ spoiled' = spoiled \union {<<call[c].of, "docker">>}
    /\ UNCHANGED <<imported, templates, container, records, stamps, served, registryVars, faults>>

(* list_deployments, on the way to a change. *)
LoadRecords(c) ==
    /\ call[c].at \in {"record", "drop"}
    /\ call' = [call EXCEPT ![c].at = IF @ = "record" THEN "save" ELSE "dropping",
                            ![c].copy = records]
    /\ UNCHANGED <<dockerVars, registryVars, faults>>

(* What others did to the records since they were loaded is undone. *)
Undone(copy, file) ==
    {d.of : d \in (records \ (copy \union file)) \union ((copy \intersect file) \ records)}

WriteRecords(copy, file) ==
    /\ records' = file
    /\ spoiled' = spoiled \union Undone(copy, file) \X {"overwritten"}

NewRecord(c) == [of |-> call[c].of, id |-> stamps + 1, url |-> call[c].url,
                 target |-> LabTarget(call[c].of, call[c].form.type)]

(* Mutant: the file is written with the new record only. *)
SaveDeploymentAlone(c) ==
    /\ At(c, "save")
    /\ stamps' = stamps + 1
    /\ WriteRecords(call[c].copy, {NewRecord(c)})
    /\ call' = [call EXCEPT ![c].at = "answered", ![c].ok = TRUE, ![c].id = stamps + 1,
                            ![c].copy = None]
    /\ UNCHANGED <<imported, templates, container, served, registryVars, faults>>

SaveDeployment(c) ==
    /\ At(c, "save")
    /\ stamps' = stamps + 1
    /\ WriteRecords(call[c].copy, call[c].copy \union {NewRecord(c)})
    /\ call' = [call EXCEPT ![c].at = "answered", ![c].ok = TRUE, ![c].id = stamps + 1,
                            ![c].copy = None]
    /\ UNCHANGED <<imported, templates, container, served, registryVars, faults>>

Deploying(c) ==
    StartDeploy(c) \/ StartDeployFails(c) \/ RunContainer(c) \/ RunFails(c)
    \/ HealthPasses(c) \/ HealthFails(c) \/ CleanUpFails(c) \/ SaveDeployment(c)
-----------------------------------------------------------------------------
(* remove_deployment, asked with the id of a deployment in a container. *)

(* The targets other records of the project registered stay behind. *)
LeavesTargets(r) == \E d \in RecordsOf(r.of) : d.target # r.target

RemoveContainer(c) ==
    /\ At(c, "undeploy")
    /\ LET found == {d \in records : d.id = call[c].id} IN
       \/ /\ found = {}
          /\ Answers(c, TRUE)
          /\ UNCHANGED <<container, spoiled>>
       \/ \E d \in found :
             /\ SetContainer(d.of, Absent)
             /\ Edits(c, {d.target}, None, "drop")
             /\ spoiled' = IF LeavesTargets(d) THEN spoiled \union {<<d.of, "types">>} ELSE spoiled
    /\ UNCHANGED <<imported, templates, records, stamps, served, registryVars, faults>>

(* docker rm raises, or docker ps does and the container is taken for gone. *)
RemoveContainerFails(c) ==
    /\ At(c, "undeploy")
    /\ Fault
    /\ \/ /\ Answers(c, FALSE)
          /\ UNCHANGED spoiled
       \/ \E d \in {d \in records : d.id = call[c].id} :
             /\ Edits(c, {d.target}, None, "drop")
             /\ spoiled' = spoiled \union {<<d.of, "docker">>}
    /\ UNCHANGED <<imported, templates, container, records, stamps, served, registryVars>>

(* Nothing is written when the copy holds no record of the container. *)
DropRecords(c) ==
    /\ At(c, "dropping")
    /\ LET kept == {d \in call[c].copy : d.of = call[c].of => ~InContainer(d)} IN
       IF kept = call[c].copy THEN UNCHANGED <<records, spoiled>>
       ELSE WriteRecords(call[c].copy, kept)
    /\ call' = [call EXCEPT ![c].at = "answered", ![c].ok = TRUE, ![c].copy = None]
    /\ UNCHANGED <<imported, templates, container, stamps, served, registryVars, faults>>

Undeploying(c) == RemoveContainer(c) \/ RemoveContainerFails(c) \/ DropRecords(c)
-----------------------------------------------------------------------------
(* Hosted agents: agent_host and the handlers around it. *)

(* Mutant: the agent runs and its target is not registered. *)
AgentIdsNone(c) == {}

AgentIds(c) == IF call[c].form.publishes THEN {AgentTarget(call[c].of)} ELSE {}

RunAgent(c) ==
    /\ At(c, "run-agent")
    /\ LET a == call[c].of IN
       \/ /\ \/ container[a] # Absent
             \/ call[c].task = "deploy-template" /\ a \notin templates
          /\ Answers(c, FALSE)
          /\ UNCHANGED container
       \/ /\ container[a] = Absent
          /\ call[c].task = "deploy-template" => a \in templates
          /\ SetContainer(a, [at |-> "up", port |-> None, serves |-> TRUE])
          /\ IF AgentIds(c) = {} THEN Answers(c, TRUE)
                                 ELSE Edits(c, AgentIds(c), AgentUrl, "answered")
    /\ UNCHANGED <<imported, templates, records, stamps, served, spoiled, registryVars, faults>>

RunAgentFails(c) ==
    /\ At(c, "run-agent")
    /\ container[call[c].of] = Absent
    /\ Fault
    /\ Answers(c, FALSE)
    /\ \/ UNCHANGED container
       \/ SetContainer(call[c].of, [Absent EXCEPT !.at = "created"])
    /\ spoiled' = spoiled \union {<<call[c].of, "docker">>}
    /\ UNCHANGED <<imported, templates, records, stamps, served, registryVars>>

(* Containers of Agent Lab carry the label too, so s may be a project. *)
Spoil(s) == spoiled' = spoiled \union ({s} \intersect Projects) \X {"agents"}

(* Mutant: a state the rest of the code does not know. *)
StopAgentUnnamed(c) ==
    /\ At(c, "stop")
    /\ IF container[call[c].of].at = "up"
       THEN SetContainer(call[c].of, [container[call[c].of] EXCEPT !.at = "stopped"])
       ELSE UNCHANGED container
    /\ Spoil(call[c].of)
    /\ Answers(c, TRUE)
    /\ UNCHANGED <<imported, templates, records, stamps, served, registryVars, faults>>

StopAgent(c) ==
    /\ At(c, "stop")
    /\ LET s == call[c].of IN
       IF container[s].at = "up"
       THEN SetContainer(s, [container[s] EXCEPT !.at = "exited"]) /\ Spoil(s)
       ELSE UNCHANGED <<container, spoiled>>
    /\ Answers(c, TRUE)
    /\ UNCHANGED <<imported, templates, records, stamps, served, registryVars, faults>>

StartAgent(c) ==
    /\ At(c, "start")
    /\ LET s == call[c].of IN
       IF container[s].at \in {"exited", "created"}
       THEN IF container[s].port \in PortsInUse \intersect Ports
            THEN UNCHANGED container /\ Answers(c, FALSE)
            ELSE SetContainer(s, [container[s] EXCEPT !.at = "up"]) /\ Answers(c, TRUE)
       ELSE UNCHANGED container /\ Answers(c, TRUE)
    /\ Spoil(call[c].of)
    /\ UNCHANGED <<imported, templates, records, stamps, served, registryVars, faults>>

(* The targets of every template with the container's image go with it, and *)
(* they go although docker rm failed.                                       *)
TargetsOfAgent(s) ==
    IF s \in Projects THEN {}
    ELSE {AgentTarget(s)} \union {AgentTarget(a) : a \in {a \in templates : Image[a] = Image[s]}}

RemoveAgent(c) ==
    /\ At(c, "remove")
    /\ LET s == call[c].of IN
       \/ /\ container[s] = Absent
          /\ Answers(c, TRUE)
          /\ UNCHANGED <<container, spoiled, faults>>
       \/ /\ container[s] # Absent
          /\ Edits(c, TargetsOfAgent(s), None, "answered")
          /\ \/ SetContainer(s, Absent) /\ UNCHANGED faults
             \/ UNCHANGED container /\ Fault
          /\ spoiled' = spoiled \union
                (IF s \in Projects THEN {<<s, "agents">>}
                 ELSE {<<a, "image">> : a \in {a \in Agents \ {s} : Image[a] = Image[s]}}
                      \union (IF faults' = faults THEN {} ELSE {<<s, "docker">>}))
    /\ UNCHANGED <<imported, templates, records, stamps, served, registryVars>>

SaveTemplate(c) ==
    /\ At(c, "save-template")
    /\ templates' = templates \union {call[c].of}
    /\ Answers(c, TRUE)
    /\ UNCHANGED <<imported, container, records, stamps, served, spoiled, registryVars, faults>>

DeleteTemplate(c) ==
    /\ At(c, "delete-template")
    /\ templates' = templates \ {call[c].of}
    /\ Answers(c, TRUE)
    /\ UNCHANGED <<imported, container, records, stamps, served, spoiled, registryVars, faults>>

Hosting(c) ==
    RunAgent(c) \/ RunAgentFails(c) \/ StopAgent(c) \/ StartAgent(c) \/ RemoveAgent(c)
    \/ SaveTemplate(c) \/ DeleteTemplate(c)

Serving(c) ==
    LoadTargets(c) \/ WriteTargets(c) \/ LoadRecords(c) \/ FileFails(c) \/ Importing(c)
    \/ Deploying(c) \/ Undeploying(c) \/ Hosting(c)
-----------------------------------------------------------------------------
(* Requests that change what Docker, the records or the registry hold. *)
Reads == {"list", "analyse", "logs", "targets", "offered"}
InProgress == {c \in Slots : call[c].at \notin Reads \union {"idle", "answered"}}
Quiet == InProgress = {}

SpoiledBy == {"redeploy", "types", "docker", "agents", "image", "unsaved", "unrecorded",
              "overwritten"}

LabTypeOK ==
    /\ targets \in Registry
    /\ staleWrite \in BOOLEAN
    /\ imported \subseteq Projects /\ templates \subseteq Agents
    /\ container \in [Projects \union Agents -> Container]
    /\ records \subseteq Record
    /\ stamps \in Nat
    /\ served \in [Projects -> SUBSET Urls]
    /\ spoiled \subseteq (Projects \union Agents) \X SpoiledBy
    /\ faults \in 0..MaxFaults

(* agent_lab.py:673 "never register a target for a container that never came *)
(* up": an Agent Lab target on a port of the host points where an HTTP       *)
(* answer was seen for its project, whatever was deployed, removed, failed   *)
(* or written over since.                                                    *)
TargetsWereHealthy ==
    \A p \in Projects, type \in TargetTypes :
        targets[LabTarget(p, type)] \in Ports =>
            targets[LabTarget(p, type)] \in served[p]
=============================================================================
