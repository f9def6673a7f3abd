-------------------------- MODULE LabConsoleProofs --------------------------
(***************************************************************************)
(* What the Projects and Agents views promise, for every number of         *)
(* requests, projects, agents and gestures: the targets the server         *)
(* registers, what the views show and send, the spinners, the logs and the *)
(* targets the header offers; and, in the second half, that containers,    *)
(* deployment records and targets agree once no request is in progress.    *)
(***************************************************************************)
EXTENDS LabConsoleTypes

-----------------------------------------------------------------------------
(* What a step does to the fields of the request it serves. *)

Others(c) == \A d \in Slots \ {c} : call'[d] = call[d]

(* Who asked, for what. *)
SameTask(c) ==
    /\ call'[c] # Idle /\ call'[c].task = call[c].task /\ call'[c].of = call[c].of
    /\ call'[c].form = call[c].form /\ call'[c].live = call[c].live
    /\ call'[c].saw = call[c].saw

LEMMA IdleIs == Idle.at = "idle"
BY DEF Idle

LEMMA BusyIs ==
    ASSUME CallFits, NEW c \in Slots
    PROVE  /\ call[c] # Idle <=> call[c].at # "idle"
           /\ call[c] # Idle => call[c] \in Requests /\ call[c] \in Shape
BY DEF CallFits, Idle, Requests, Shape, Steps, Reads

LEMMA AnswersFields ==
    ASSUME CallFits, NEW c \in Slots, call[c] \in Requests, NEW ok, Answers(c, ok)
    PROVE  /\ Others(c) /\ SameTask(c)
           /\ call'[c].at = "answered" /\ call'[c].ok = ok /\ call'[c].id = call[c].id
BY DEF CallFits, Requests, Shape, Answers, Others, SameTask, Idle

LEMMA GoesFields ==
    ASSUME CallFits, NEW c \in Slots, call[c] \in Requests, NEW at, Goes(c, at), at # "idle"
    PROVE  /\ Others(c) /\ SameTask(c)
           /\ call'[c].at = at /\ call'[c].ok = call[c].ok /\ call'[c].id = call[c].id
           /\ call'[c].url = call[c].url
BY DEF CallFits, Requests, Shape, Goes, Others, SameTask, Idle

LEMMA EditsFields ==
    ASSUME CallFits, NEW c \in Slots, call[c] \in Requests, NEW ids, NEW url, NEW after,
           Edits(c, ids, url, after)
    PROVE  /\ Others(c) /\ SameTask(c)
           /\ call'[c].at = "load" /\ call'[c].ids = ids /\ call'[c].url = url
           /\ call'[c].after = after /\ call'[c].id = call[c].id
BY DEF CallFits, Requests, Shape, Edits, Others, SameTask, Idle

LEMMA LoadFields ==
    ASSUME CallFits, NEW c \in Slots, call[c] \in Requests, LoadTargets(c)
    PROVE  /\ Others(c) /\ SameTask(c)
           /\ call'[c].at = "write" /\ call'[c].copy = targets /\ call'[c].id = call[c].id
           /\ call'[c].ids = call[c].ids /\ call'[c].url = call[c].url
           /\ call'[c].after = call[c].after
BY DEF CallFits, Requests, Shape, LoadTargets, Others, SameTask, Idle

LEMMA WriteFields ==
    ASSUME CallFits, NEW c \in Slots, call[c] \in Requests, WriteTargets(c)
    PROVE  /\ Others(c) /\ SameTask(c)
           /\ call'[c].at = call[c].after /\ call'[c].ok = (call[c].after = "answered")
           /\ call'[c].id = call[c].id /\ call'[c].url = call[c].url
           /\ call'[c].ids = call[c].ids
<1>1. call[c].after # "idle"
  BY DEF Requests, Shape
<1> QED
  BY <1>1 DEF CallFits, Requests, Shape, WriteTargets, Others, SameTask, Idle

LEMMA StartedFields ==
    ASSUME CallFits, NEW c \in Slots, call[c] \in Requests, NEW port,
           call' = [call EXCEPT ![c].at = "health", ![c].url = port]
    PROVE  /\ Others(c) /\ SameTask(c)
           /\ call'[c].at = "health" /\ call'[c].url = port /\ call'[c].id = call[c].id
BY DEF CallFits, Requests, Shape, Others, SameTask, Idle

LEMMA FailedFields ==
    ASSUME CallFits, NEW c \in Slots, call[c] \in Requests, FileFails(c)
    PROVE  /\ Others(c) /\ SameTask(c)
           /\ call'[c].at = "answered" /\ call'[c].ok = FALSE /\ call'[c].id = call[c].id
BY DEF CallFits, Requests, Shape, FileFails, Others, SameTask, Idle

LEMMA ReadFields ==
    ASSUME CallFits, NEW c \in Slots, call[c] \in Requests, LoadRecords(c)
    PROVE  /\ Others(c) /\ SameTask(c)
           /\ call'[c].at = IF call[c].at = "record" THEN "save" ELSE "dropping"
           /\ call'[c].copy = records /\ call'[c].id = call[c].id
           /\ call'[c].url = call[c].url
BY DEF CallFits, Requests, Shape, LoadRecords, Others, SameTask, Idle

LEMMA DroppedFields ==
    ASSUME CallFits, NEW c \in Slots, call[c] \in Requests, DropRecords(c)
    PROVE  /\ Others(c) /\ SameTask(c)
           /\ call'[c].at = "answered" /\ call'[c].ok = TRUE /\ call'[c].id = call[c].id
BY DEF CallFits, Requests, Shape, DropRecords, Others, SameTask, Idle

LEMMA RecordedFields ==
    ASSUME CallFits, NEW c \in Slots, call[c] \in Requests, SaveDeployment(c)
    PROVE  /\ Others(c) /\ SameTask(c)
           /\ call'[c].at = "answered" /\ call'[c].ok = TRUE /\ call'[c].id = stamps + 1
BY DEF CallFits, Requests, Shape, SaveDeployment, Others, SameTask, Idle

(* Records change in two handlers only, and promises are never taken back. *)
LEMMA ServedRecords ==
    ASSUME staleWrite \in BOOLEAN, NEW c \in Slots, Serving(c)
    PROVE  /\ UNCHANGED <<records, stamps>> \/ SaveDeployment(c) \/ DropRecords(c)
           /\ spoiled \subseteq spoiled' /\ (staleWrite => staleWrite')
<1>1. CASE LoadTargets(c) \/ WriteTargets(c)
  BY <1>1 DEF LoadTargets, WriteTargets, WriteBack, dockerVars, registryVars
<1>2. CASE LoadRecords(c) \/ FileFails(c)
  BY <1>2 DEF LoadRecords, FileFails, dockerVars, registryVars
<1>3. CASE Importing(c)
  BY <1>3 DEF Importing, CheckImport, Unpack, UnpackFails, DeleteProject, dockerVars, registryVars
<1>4. CASE Deploying(c)
  BY <1>4 DEF Deploying, StartDeploy, StartDeployFails, RunContainer, RunFails, HealthPasses,
     HealthFails, CleanUpFails, SaveDeployment, WriteRecords, LosesOld, dockerVars, registryVars
<1>5. CASE Undeploying(c)
  BY <1>5 DEF Undeploying, RemoveContainer, RemoveContainerFails, DropRecords, WriteRecords,
     registryVars
<1>6. CASE Hosting(c)
  BY <1>6 DEF Hosting, RunAgent, RunAgentFails, StopAgent, StartAgent, RemoveAgent, SaveTemplate,
     DeleteTemplate, Spoil, registryVars
<1> QED
  BY <1>1, <1>2, <1>3, <1>4, <1>5, <1>6 DEF Serving

(* What the operator does to any request: nothing; its view is left; a request *)
(* begins in a free slot.                                                      *)
Unserved(c) ==
    \/ call'[c] = call[c]
    \/ call[c] \in Requests /\ call'[c] = [call[c] EXCEPT !.live = FALSE]
    \/ call[c] = Idle /\ call'[c] \in Opening

(* What the console does: that, or one that was answered or reads goes on to *)
(* read, or ends.                                                            *)
Kept(c) ==
    \/ Unserved(c)
    \/ /\ call[c] \in Requests /\ call[c].at \in Reads \union {"answered"}
       /\ call'[c] = Idle \/ (call'[c] \in Requests /\ call'[c].at \in Reads)

(* The console asks: it changes nothing on the server. *)
LEMMA ConsoleAsks ==
    ASSUME Operate \/ Continue
    PROVE  UNCHANGED <<dockerVars, registryVars, faults, imported, templates, container, records,
                       stamps, served, spoiled, targets, staleWrite>>
BY DEF Operate, Continue, dockerVars, registryVars

(* A gesture leaves every request at its step, and one may begin. *)
LEMMA OperateKeeps ==
    ASSUME IType, Operate, NEW d \in Slots
    PROVE  Unserved(d)
<1> USE DEF IType, TypeOK
<1>1. ASSUME Opened
      PROVE  Unserved(d)
  <2>1. CASE call' = call
    BY <2>1 DEF Unserved
  <2>2. ASSUME NEW r \in Opening, Begin(r)
        PROVE  Unserved(d)
    <3>1. r \in Requests
      BY DEF Opening
    <3>2. call[NextSlot] = Idle /\ call' = [call EXCEPT ![NextSlot] = r]
      BY <2>2, <3>1, BeginsIt
    <3> QED
      BY <3>2 DEF Unserved, CallFits
  <2> QED
    BY <1>1, <2>1, <2>2 DEF Opened
<1>2. Unmounted[d] = IF call[d] = Idle THEN Idle ELSE [call[d] EXCEPT !.live = FALSE]
  BY DEF Unmounted
<1>3. call[d] # Idle => call[d] \in Requests
  BY BusyIs
<1>4. CASE ImporterActs
  BY <1>1, <1>4, ImporterActsTyped
<1>5. CASE HostActs
  BY <1>1, <1>5, HostActsTyped
<1>6. CASE RunBaselineScan
  BY <1>2, <1>3, <1>6 DEF RunBaselineScan, Unserved
<1>7. ASSUME NEW v \in Views, Navigate(v)
      PROVE  Unserved(d)
  <2>1. CASE v = "overview"
    BY <1>2, <1>3, <1>7, <2>1 DEF Navigate, Unserved
  <2>2. CASE v # "overview"
    <3>1. PICK r \in Opening : HasSlot /\ call' = [Unmounted EXCEPT ![NextSlot] = r]
      BY <1>7, <2>2, RequestOf, Zenon DEF Navigate
    <3>2. call[NextSlot] = Idle /\ NextSlot \in Slots
      BY <3>1, NextSlotIsFree
    <3>3. Unmounted \in [Slots -> {Idle} \union Requests]
      BY UnmountedFits
    <3>4. call'[d] = IF d = NextSlot THEN r ELSE Unmounted[d]
      BY <3>1, <3>3
    <3> QED
      BY <1>2, <1>3, <3>2, <3>4 DEF Unserved
  <2> QED
    BY <2>1, <2>2
<1>8. ASSUME NEW t \in TargetIds, ChooseTarget(t)
      PROVE  Unserved(d)
  BY <1>8 DEF ChooseTarget, Unserved
<1> QED
  BY <1>4, <1>5, <1>6, <1>7, <1>8 DEF Operate

(* A continuation moves one request, which was answered or reads. *)
LEMMA ContinueKeeps ==
    ASSUME IType, Continue
    PROVE  \E c \in Slots : Continued(c)
<1> USE DEF IType, TypeOK
<1>1. PICK c \in Slots :
         \/ ImporterContinues(c) /\ UNCHANGED <<host, shellVars>>
         \/ HostContinues(c) /\ UNCHANGED <<importer, shellVars>>
         \/ (TargetsServed(c) \/ TargetsLoaded(c)) /\ UNCHANGED <<importer, host, view>>
  BY DEF Continue
<1>2. imported \subseteq Projects /\ targets \in Registry
  BY DEF LabTypeOK
<1> QED
  BY <1>1, <1>2, ImporterContinuesTyped, HostContinuesTyped, ReloadTyped

LEMMA ConsoleKeeps ==
    ASSUME IType, Operate \/ Continue, NEW d \in Slots
    PROVE  Kept(d)
<1>1. CASE Operate
  BY <1>1, OperateKeeps DEF Kept
<1>2. CASE Continue
  BY <1>2, ContinueKeeps DEF IType, Continued, Kept, Unserved, CallFits
<1> QED
  BY <1>1, <1>2
-----------------------------------------------------------------------------
(* A request that changes the registry gives ports to targets of its own      *)
(* project, and only ports at which its container answered; a file does too.  *)
FileHealthy(file) ==
    \A p \in Projects, type \in TargetTypes :
        file[LabTarget(p, type)] \in Ports => file[LabTarget(p, type)] \in served[p]

RegistersHealthy(r) ==
    /\ r.at \in {"load", "write"} /\ r.url \in Ports =>
          /\ r.of \in Projects /\ r.ids \subseteq {r.of} \X TargetTypes
          /\ r.url \in served[r.of]
    /\ r.at = "write" => FileHealthy(r.copy)

IHealthy == FileHealthy(targets) /\ \A c \in Slots : call[c] # Idle => RegistersHealthy(call[c])

LEMMA InitHealthy == Init => IHealthy
<1> SUFFICES ASSUME Init PROVE IHealthy
  OBVIOUS
<1>1. ASSUME NEW I, NEW D, NEW port \in Ports, NEW R \in SUBSET Agents, LabInit(I, D, port, R)
      PROVE  IHealthy
  <2>1. FileHealthy(targets)
    <3> SUFFICES ASSUME NEW p \in Projects, NEW type \in TargetTypes,
                        targets[LabTarget(p, type)] \in Ports
                 PROVE  targets[LabTarget(p, type)] \in served[p]
      BY DEF FileHealthy
    <3>1. LabTarget(p, type) \in TargetIds /\ type # "agent"
      BY LabAssumption DEF LabTarget, TargetTypes
    <3>2. /\ targets[LabTarget(p, type)] =
                 IF \E q \in D : LabTarget(p, type) = LabTarget(q, "http_json") THEN port
                 ELSE IF \E a \in R : LabTarget(p, type) = AgentTarget(a) THEN AgentUrl ELSE None
          /\ served[p] = IF p \in D THEN {port} ELSE {}
      BY <1>1, <3>1 DEF LabInit
    <3> QED
      BY <3>2, LabAssumption DEF LabTarget
  <2> QED
    BY <1>1, <2>1 DEF IHealthy, LabInit
<1>2. CASE view = "projects"
  BY <1>1, <1>2 DEF Init
<1>3. CASE view # "projects"
  <2>1. Preferred \in Ports /\ Agents \ Custom \in SUBSET Agents
    BY LabAssumption DEF Preferred
  <2>2. \E p \in Projects : LabInit({p}, {p}, Preferred, Agents \ Custom)
    BY <1>3 DEF Init
  <2> QED
    BY <1>1, <2>1, <2>2
<1> QED
  BY <1>2, <1>3

(* What a handler registers next. *)
LEMMA HealthyEdit ==
    ASSUME CallFits, NEW c \in Slots, call[c] \in Requests, NEW ids, NEW url, NEW after,
           Edits(c, ids, url, after), url \notin Ports
    PROVE  RegistersHealthy(call[c])'
BY EditsFields DEF RegistersHealthy

(* What a handler gives a port was seen to answer there, in the file it writes back too. *)
LEMMA HandlerHealthy ==
    ASSUME IType, IHealthy, NEW c \in Slots, Serving(c)
    PROVE  IHealthy'
<1> USE DEF IType, TypeOK
<1> DEFINE r == call[c]
<1>1. call[c] \in Requests /\ Others(c)
  <2>1. CallHandled(c)
    BY HandlerStep
  <2> QED
    BY <2>1 DEF CallHandled, Others, CallFits
<1>2. /\ External \notin Ports /\ AgentUrl \notin Ports /\ None \notin Ports
  BY LabAssumption
<1>3. ASSUME served' = served, targets' = targets, RegistersHealthy(call[c])'
      PROVE  IHealthy'
  BY <1>1, <1>3 DEF IHealthy, Others, RegistersHealthy, FileHealthy
<1>4. ASSUME call'[c].at \notin {"load", "write"}
      PROVE  RegistersHealthy(call[c])'
  BY <1>4 DEF RegistersHealthy
<1>5. ASSUME NEW ok, Answers(c, ok)
      PROVE  RegistersHealthy(call[c])'
  BY <1>1, <1>4, <1>5, AnswersFields
<1>6. ASSUME NEW at \in {"unpack", "run"}, Goes(c, at)
      PROVE  RegistersHealthy(call[c])'
  BY <1>1, <1>4, <1>6, GoesFields
<1>7. CASE LoadTargets(c)
  <2>1. /\ r.at = "load" /\ call'[c].of = r.of /\ call'[c].ids = r.ids /\ call'[c].url = r.url
        /\ call'[c].copy = targets
    BY <1>1, <1>7, LoadFields DEF LoadTargets, At, SameTask
  <2>2. served' = served /\ targets' = targets
    BY <1>7 DEF LoadTargets, dockerVars, registryVars
  <2>3. r # Idle /\ RegistersHealthy(r) /\ FileHealthy(targets)
    BY <2>1, BusyIs DEF IHealthy
  <2>4. RegistersHealthy(call[c])'
    BY <2>1, <2>2, <2>3 DEF RegistersHealthy, FileHealthy
  <2> QED
    BY <1>3, <2>2, <2>4
<1>8. CASE WriteTargets(c)
  <2>1. r.at = "write" /\ r # Idle /\ RegistersHealthy(r) /\ served' = served
    BY <1>8, BusyIs DEF WriteTargets, At, dockerVars, IHealthy
  <2>2. call'[c].at \notin {"load", "write"}
    BY <1>1, <1>8, WriteFields DEF Requests, Shape
  <2>3. FileHealthy(targets)'
    <3> SUFFICES ASSUME NEW p \in Projects, NEW type \in TargetTypes,
                        targets'[LabTarget(p, type)] \in Ports
                 PROVE  targets'[LabTarget(p, type)] \in served[p]
      BY <2>1 DEF FileHealthy
    <3>1. LabTarget(p, type) \in TargetIds /\ LabTarget(p, type) = <<p, type>>
      BY LabAssumption DEF LabTarget
    <3>2. \/ targets' = targets
          \/ targets' = Changed(r.copy, r.ids, r.url)
      BY <1>8 DEF WriteTargets, WriteBack, registryVars
    <3>3. CASE targets' = targets
      BY <3>3 DEF IHealthy, FileHealthy
    <3>4. CASE targets' = Changed(r.copy, r.ids, r.url)
      <4>1. CASE LabTarget(p, type) \in r.ids
        <5>1. targets'[LabTarget(p, type)] = r.url
          BY <3>1, <3>4, <4>1 DEF Changed
        <5>2. p = r.of /\ r.url \in served[r.of]
          BY <2>1, <3>1, <4>1, <5>1 DEF RegistersHealthy
        <5> QED
          BY <5>1, <5>2
      <4>2. CASE LabTarget(p, type) \notin r.ids
        <5>1. targets'[LabTarget(p, type)] = r.copy[LabTarget(p, type)]
          BY <3>1, <3>4, <4>2 DEF Changed
        <5> QED
          BY <2>1, <5>1 DEF RegistersHealthy, FileHealthy
      <4> QED
        BY <4>1, <4>2
    <3> QED
      BY <3>2, <3>3, <3>4
  <2>4. \A d \in Slots : call'[d] # Idle => RegistersHealthy(call[d])'
    <3>1. ASSUME NEW d \in Slots \ {c}, call'[d] # Idle
          PROVE  RegistersHealthy(call[d])'
      BY <1>1, <2>1, <3>1 DEF IHealthy, Others, RegistersHealthy, FileHealthy
    <3> QED
      BY <1>4, <2>2, <3>1
  <2> QED
    BY <2>3, <2>4 DEF IHealthy
<1>9. CASE Importing(c)
  <2>1. RegistersHealthy(call[c])'
    BY <1>5, <1>6, <1>9 DEF Importing, CheckImport, Unpack, UnpackFails, DeleteProject
  <2> QED
    BY <1>3, <1>9, <2>1 DEF Importing, CheckImport, Unpack, UnpackFails, DeleteProject,
                            dockerVars, registryVars
<1>10. CASE Deploying(c)
  <2>1. CASE StartDeploy(c)
    <3>1. RegistersHealthy(call[c])'
      BY <1>1, <1>2, <1>6, <2>1, HealthyEdit DEF StartDeploy
    <3> QED
      BY <1>3, <2>1, <3>1 DEF StartDeploy, registryVars
  <2>2. CASE StartDeployFails(c)
    BY <1>3, <1>5, <2>2 DEF StartDeployFails, dockerVars, registryVars
  <2>3. CASE RunContainer(c)
    <3>1. ASSUME NEW port, call' = [call EXCEPT ![c].at = "health", ![c].url = port]
          PROVE  RegistersHealthy(call[c])'
      BY <1>1, <1>4, <3>1, StartedFields
    <3>2. RegistersHealthy(call[c])'
      BY <1>5, <2>3, <3>1 DEF RunContainer
    <3> QED
      BY <1>3, <2>3, <3>2 DEF RunContainer, registryVars
  <2>4. CASE RunFails(c)
    BY <1>3, <1>5, <2>4 DEF RunFails, registryVars
  <2>5. CASE HealthPasses(c)
    <3> DEFINE ids == {LabTarget(r.of, r.form.type)}
    <3>1. r.of \in Projects /\ r.form \in Form /\ r.url \in Ports
      BY <1>1, <2>5, AtStep DEF HealthPasses, At
    <3>2. served' = [served EXCEPT ![r.of] = @ \union {r.url}] /\ targets' = targets
      BY <2>5 DEF HealthPasses, Healthy, registryVars
    <3>3. r.url \in served'[r.of] /\ \A p \in Projects : served[p] \subseteq served'[p]
      BY <3>1, <3>2 DEF LabTypeOK
    <3>4. Edits(c, ids, r.url, "record")
      BY <2>5 DEF HealthPasses
    <3>5. call'[c].at = "load" /\ call'[c].ids = ids /\ call'[c].of = r.of /\ call'[c].url = r.url
      BY <1>1, <3>4, EditsFields DEF SameTask
    <3>6. ids \subseteq {r.of} \X TargetTypes
      BY <3>1 DEF LabTarget, Form
    <3>7. RegistersHealthy(call[c])'
      BY <3>1, <3>3, <3>5, <3>6 DEF RegistersHealthy
    <3>8. ASSUME NEW d \in Slots \ {c}, call'[d] # Idle
          PROVE  RegistersHealthy(call[d])'
      BY <1>1, <3>3, <3>8 DEF IHealthy, Others, RegistersHealthy, FileHealthy
    <3>9. FileHealthy(targets)'
      BY <3>2, <3>3 DEF IHealthy, FileHealthy
    <3> QED
      BY <3>7, <3>8, <3>9 DEF IHealthy
  <2>6. CASE HealthFails(c)
    BY <1>3, <1>5, <2>6 DEF HealthFails, registryVars
  <2>7. CASE CleanUpFails(c)
    BY <1>3, <1>5, <2>7 DEF CleanUpFails, registryVars
  <2>8. CASE SaveDeployment(c)
    <3>1. RegistersHealthy(call[c])'
      BY <1>1, <1>4, <2>8, RecordedFields
    <3> QED
      BY <1>3, <2>8, <3>1 DEF SaveDeployment, registryVars
  <2> QED
    BY <1>10, <2>1, <2>2, <2>3, <2>4, <2>5, <2>6, <2>7, <2>8 DEF Deploying
<1>11. CASE Undeploying(c)
  <2>1. RegistersHealthy(call[c])'
    BY <1>1, <1>2, <1>4, <1>5, <1>11, HealthyEdit, DroppedFields
       DEF Undeploying, RemoveContainer, RemoveContainerFails
  <2> QED
    BY <1>3, <1>11, <2>1
       DEF Undeploying, RemoveContainer, RemoveContainerFails, DropRecords, registryVars
<1>12. CASE Hosting(c)
  <2>1. CASE RunAgent(c)
    <3>1. RegistersHealthy(call[c])'
      BY <1>1, <1>2, <1>5, <2>1, HealthyEdit DEF RunAgent
    <3> QED
      BY <1>3, <2>1, <3>1 DEF RunAgent, registryVars
  <2>2. CASE RunAgentFails(c)
    BY <1>3, <1>5, <2>2 DEF RunAgentFails, registryVars
  <2>3. CASE StopAgent(c)
    BY <1>3, <1>5, <2>3 DEF StopAgent, registryVars
  <2>4. CASE StartAgent(c)
    <3>1. RegistersHealthy(call[c])'
      BY <1>5, <2>4 DEF StartAgent
    <3> QED
      BY <1>3, <2>4, <3>1 DEF StartAgent, registryVars
  <2>5. CASE RemoveAgent(c)
    <3>1. RegistersHealthy(call[c])'
      BY <1>1, <1>2, <1>5, <2>5, HealthyEdit DEF RemoveAgent
    <3> QED
      BY <1>3, <2>5, <3>1 DEF RemoveAgent, registryVars
  <2>6. CASE SaveTemplate(c)
    BY <1>3, <1>5, <2>6 DEF SaveTemplate, registryVars
  <2>7. CASE DeleteTemplate(c)
    BY <1>3, <1>5, <2>7 DEF DeleteTemplate, registryVars
  <2> QED
    BY <1>12, <2>1, <2>2, <2>3, <2>4, <2>5, <2>6, <2>7 DEF Hosting
<1>13. CASE LoadRecords(c)
  <2>1. RegistersHealthy(call[c])'
    BY <1>1, <1>4, <1>13, ReadFields
  <2> QED
    BY <1>3, <1>13, <2>1 DEF LoadRecords, dockerVars, registryVars
<1>14. CASE FileFails(c)
  <2>1. RegistersHealthy(call[c])'
    BY <1>1, <1>4, <1>14, FailedFields
  <2> QED
    BY <1>3, <1>14, <2>1 DEF FileFails, registryVars
<1> QED
  BY <1>7, <1>8, <1>9, <1>10, <1>11, <1>12, <1>13, <1>14 DEF Serving

LEMMA ConsoleHealthy ==
    ASSUME IType, IHealthy, Operate \/ Continue
    PROVE  IHealthy'
<1>1. UNCHANGED <<served, targets>>
  BY ConsoleAsks
<1>2. ASSUME NEW c \in Slots, call'[c] # Idle
      PROVE  RegistersHealthy(call[c])'
  <2>1. Kept(c)
    BY ConsoleKeeps
  <2>2. CASE call'[c] = call[c]
    BY <1>1, <1>2, <2>2 DEF IHealthy, RegistersHealthy, FileHealthy
  <2>3. CASE call[c] \in Requests /\ call'[c] = [call[c] EXCEPT !.live = FALSE]
    <3>1. call[c] # Idle
      BY <2>3 DEF Idle, Requests, Shape
    <3>2. /\ call'[c].at = call[c].at /\ call'[c].of = call[c].of /\ call'[c].ids = call[c].ids
          /\ call'[c].url = call[c].url /\ call'[c].copy = call[c].copy
      BY <2>3 DEF Requests, Shape
    <3> QED
      BY <1>1, <3>1, <3>2 DEF IHealthy, RegistersHealthy, FileHealthy
  <2>4. CASE call'[c].at \notin {"load", "write"}
    BY <2>4 DEF RegistersHealthy
  <2> QED
    BY <1>2, <2>1, <2>2, <2>3, <2>4 DEF Kept, Unserved, Opening, FirstSteps, Reads, Reloading
<1>3. FileHealthy(targets)'
  BY <1>1 DEF IHealthy, FileHealthy
<1> QED
  BY <1>2, <1>3 DEF IHealthy

(* An Agent Lab target on a port of the host points where its project's      *)
(* container answered, however requests interleave and whatever fails.       *)
THEOREM TargetsHealthy == Spec => []TargetsWereHealthy
<1>1. Init => IType /\ IHealthy
  BY InitTyped, InitHealthy
<1>2. IType /\ IHealthy /\ [Next]_vars => IType' /\ IHealthy'
  <2> SUFFICES ASSUME IType, IHealthy, [Next]_vars
               PROVE  IHealthy'
    BY NextTyped
  <2>1. CASE Operate \/ Continue
    BY <2>1, ConsoleHealthy
  <2>2. CASE Handle
    BY <2>2, HandlerHealthy DEF Handle
  <2>3. CASE UNCHANGED vars
    BY <2>3 DEF vars, labVars, dockerVars, registryVars, IHealthy, RegistersHealthy, FileHealthy
  <2> QED
    BY <2>1, <2>2, <2>3 DEF Next
<1>3. IHealthy => TargetsWereHealthy
  BY DEF IHealthy, FileHealthy, TargetsWereHealthy
<1> QED
  BY <1>1, <1>2, <1>3, PTL DEF Spec
-----------------------------------------------------------------------------
(* What the history of overlaps leaves out. *)
AloneAt(step) == \A c, d \in Slots : At(c, step) /\ At(d, step) => c = d

IOverlap ==
    /\ "analyse" \notin overlapped => AloneAt("analyse")
    /\ "logs" \notin overlapped => AloneAt("logs")
    /\ "reloads" \notin overlapped =>
          \A c, d \in Slots : call[c].at \in Reloading /\ call[d].at \in Reloading => c = d
    /\ "moved" \notin overlapped =>
          \A c \in Slots : call[c] # Idle /\ call[c].task \in {"deploy", "undeploy"} /\ call[c].live
                              => call[c].of = importer.selected
    /\ "chosen" \notin overlapped =>
          \A c \in Slots : Reloads(call[c]) => call[c].saw = scanTarget


LEMMA InitIdle == Init => \A c \in Slots : call[c] = Idle
BY DEF Init, LabInit

LEMMA InitOverlap == Init => IOverlap
BY InitIdle, IdleIs DEF IOverlap, AloneAt, At, Reloads, Reloading

(* The history records every overlap as it happens. *)
LEMMA NextOverlap ==
    ASSUME Next
    PROVE  IOverlap'
<1>1. \A x : x \notin overlapped' => x \notin Overlaps(call')
  BY DEF Next
<1>2. ASSUME "analyse" \notin overlapped'
      PROVE  AloneAt("analyse")'
  <2>1. "analyse" \notin {step \in {"analyse", "logs"} : Twice(call', LAMBDA r : r.at = step)}
    BY <1>1, <1>2 DEF Overlaps
  <2> QED
    BY <2>1 DEF Twice, AloneAt, At
<1>3. ASSUME "logs" \notin overlapped'
      PROVE  AloneAt("logs")'
  <2>1. "logs" \notin {step \in {"analyse", "logs"} : Twice(call', LAMBDA r : r.at = step)}
    BY <1>1, <1>3 DEF Overlaps
  <2> QED
    BY <2>1 DEF Twice, AloneAt, At
<1>4. ASSUME "reloads" \notin overlapped'
      PROVE  \A c, d \in Slots : call'[c].at \in Reloading /\ call'[d].at \in Reloading => c = d
  <2>1. "reloads" \notin {w \in {"reloads"} : Twice(call', LAMBDA r : r.at \in Reloading)}
    BY <1>1, <1>4 DEF Overlaps
  <2> QED
    BY <2>1 DEF Twice
<1>5. ASSUME "moved" \notin overlapped', NEW c \in Slots,
             call'[c] # Idle, call'[c].task \in {"deploy", "undeploy"}, call'[c].live
      PROVE  call'[c].of = importer'.selected
  BY <1>1, <1>5 DEF Overlaps
<1>6. ASSUME "chosen" \notin overlapped', NEW c \in Slots, Reloads(call'[c])
      PROVE  call'[c].saw = scanTarget'
  BY <1>1, <1>6 DEF Overlaps
<1> QED
  BY <1>2, <1>3, <1>4, <1>5, <1>6 DEF IOverlap, Reloads, Reloading

-----------------------------------------------------------------------------
(* What the Projects view shows, and what any request sends, is of the       *)
(* selected project; a key belongs to its provider.                          *)
PanelFits ==
    LET p == importer.selected IN
    p # None =>
       /\ importer.form.typed \in {None, p}
       /\ "analyse" \notin overlapped =>
             importer.form.detected \in {None, p} /\ importer.analysis \in {None, p}
       /\ "moved" \notin overlapped => importer.deployment.of \in {None, p}

AnalysisFits(r) ==
    importer.selected # None /\ "analyse" \notin overlapped /\ r.at = "analyse" /\ r.live
       => r.of = importer.selected

Sends(r, seen) ==
    /\ r.task = "deploy" =>
          /\ r.form.typed \in {None, r.of}
          /\ r.form.detected \in {None, r.of} \/ "analyse" \in seen
    /\ r.task \in Deploys => r.form.key \in {None, r.form.provider}

KeyFits == host.key \in {None, host.provider}

IPanel ==
    /\ PanelFits /\ KeyFits
    /\ \A c \in Slots : call[c] # Idle => AnalysisFits(call[c]) /\ Sends(call[c], overlapped)

(* A spinner has a request that will release it. *)
Live(c, tasks) == call[c] # Idle /\ call[c].live /\ call[c].task \in tasks

AnalyzingHeld ==
    importer.analyzing => \E c \in Slots : Live(c, ImportTasks \union {"select"}) /\ At(c, "analyse")
BusyHeld ==
    importer.busy # Nothing =>
       \E c \in Slots : /\ Live(c, ImportTasks \union {"delete", "deploy", "undeploy"})
                        /\ call[c].at \notin Reloading
LoadingHeld ==
    importer.loading /\ view = "projects" =>
       \E c \in Slots : Live(c, ImportTasks \union {"refresh", "delete"}) /\ At(c, "list")
DeployingHeld ==
    host.deploying => \E c \in Slots : Live(c, Deploys) /\ call[c].at \notin Reloading
AgentsHeld ==
    host.loading /\ view = "agents" => \E c \in Slots : Live(c, HostTasks) /\ At(c, "list")

ImporterSpins == AnalyzingHeld /\ BusyHeld /\ LoadingHeld
HostSpins == DeployingHeld /\ AgentsHeld

(* The tasks of the two views. *)
LEMMA ViewTasks ==
    /\ (ProjectTasks \union {"refresh"}) \intersect (HostTasks \union {"logs"}) = {}
    /\ Deploys \subseteq HostTasks
    /\ ImportTasks \union {"select", "delete", "deploy", "undeploy"} \subseteq ProjectTasks
BY DEF ProjectTasks, ImportTasks, HostTasks, Deploys

(* A request begins: every other stays. *)
LEMMA BeginFields ==
    ASSUME CallFits, NEW r \in Requests, Begin(r)
    PROVE  \E n \in Slots : call[n] = Idle /\ call'[n] = r /\ Others(n)
BY BeginsIt DEF CallFits, Others

(* One view goes on: the spinners of the other keep theirs. *)
LEMMA HostSpinsKept ==
    ASSUME HostSpins, host' = host, view' = view, NEW c \in Slots, Others(c),
           call[c] = Idle \/ call[c].task \notin HostTasks
    PROVE  HostSpins'
<1>1. \A d \in Slots : Live(d, HostTasks) => call'[d] = call[d]
  BY DEF Live, Others
<1>2. Deploys \subseteq HostTasks
  BY ViewTasks
<1>3. DeployingHeld'
  BY <1>1, <1>2 DEF HostSpins, DeployingHeld, Live
<1>4. AgentsHeld'
  BY <1>1 DEF HostSpins, AgentsHeld, Live, At
<1> QED
  BY <1>3, <1>4 DEF HostSpins

LEMMA ImporterSpinsKept ==
    ASSUME ImporterSpins, importer' = importer, view' = view, NEW c \in Slots, Others(c),
           call[c] = Idle \/ call[c].task \notin ProjectTasks \union {"refresh"}
    PROVE  ImporterSpins'
<1>1. \A d \in Slots : Live(d, ProjectTasks \union {"refresh"}) => call'[d] = call[d]
  BY DEF Live, Others
<1>2. ImportTasks \union {"select", "delete", "deploy", "undeploy"} \subseteq ProjectTasks
  BY ViewTasks
<1>3. AnalyzingHeld'
  BY <1>1, <1>2 DEF ImporterSpins, AnalyzingHeld, Live, At
<1>4. BusyHeld'
  BY <1>1, <1>2 DEF ImporterSpins, BusyHeld, Live
<1>5. LoadingHeld'
  BY <1>1, <1>2 DEF ImporterSpins, LoadingHeld, Live, At
<1> QED
  BY <1>3, <1>4, <1>5 DEF ImporterSpins

(* A request that is not touched fits a selection that stays or is given up. *)
LEMMA RequestKept ==
    ASSUME NEW c \in Slots, call'[c] = call[c], IPanel, overlapped \subseteq overlapped',
           importer'.selected \in {None, importer.selected}
    PROVE  call'[c] # Idle => AnalysisFits(call[c])' /\ Sends(call'[c], overlapped')
BY DEF IPanel, AnalysisFits, Sends

(* What begins keeps the promises. *)
LEMMA BeginKeeps ==
    ASSUME CallFits, IPanel, ImporterSpins, overlapped \subseteq overlapped',
           NEW r \in Requests, Begin(r), r.at # "analyse", Sends(r, overlapped'),
           host' = host, view' = view, PanelFits',
           importer'.selected = importer.selected,
           importer'.analyzing = importer.analyzing,
           \/ importer'.busy = importer.busy
           \/ /\ r.live /\ r.task \in ImportTasks \union {"delete", "deploy", "undeploy"}
              /\ r.at \notin Reloading,
           \/ importer'.loading = importer.loading
           \/ r.live /\ r.task \in ImportTasks \union {"refresh", "delete"} /\ r.at = "list"
    PROVE  IPanel' /\ ImporterSpins'
<1>1. PICK n \in Slots : call[n] = Idle /\ call'[n] = r /\ Others(n)
  BY BeginFields
<1>2. r # Idle
  BY DEF Requests, Shape, Idle
<1>3. AnalysisFits(call[n])' /\ Sends(call'[n], overlapped')
  BY <1>1 DEF AnalysisFits, Sends
<1>4. \A d \in Slots \ {n} : call'[d] # Idle => AnalysisFits(call[d])' /\ Sends(call'[d], overlapped')
  BY <1>1, RequestKept DEF Others
<1>5. IPanel'
  BY <1>3, <1>4 DEF IPanel, KeyFits
<1>6. \A d \in Slots : call[d] # Idle => call'[d] = call[d]
  BY <1>1 DEF Others
<1>7. AnalyzingHeld'
  BY <1>6 DEF ImporterSpins, AnalyzingHeld, Live, At
<1>8. BusyHeld'
  BY <1>1, <1>2, <1>6 DEF ImporterSpins, BusyHeld, Live
<1>9. LoadingHeld'
  BY <1>1, <1>2, <1>6 DEF ImporterSpins, LoadingHeld, Live, At
<1> QED
  BY <1>5, <1>7, <1>8, <1>9 DEF ImporterSpins

(* A project is selected, and its analysis asked for. *)
LEMMA SelectedKeeps ==
    ASSUME IPanel, ImporterSpins, overlapped \subseteq overlapped', NEW i \in Importer,
           NEW p \in Projects, NEW n \in Slots, importer' = Selected(i, p),
           i.busy = importer.busy, i.loading = importer.loading \/ ~i.loading,
           host' = host, view' = view, Others(n), call'[n] # Idle, call'[n].live,
           call'[n].task \in ImportTasks \union {"select"}, call'[n].of = p,
           call'[n].at = "analyse",
           \/ call[n] = Idle
           \/ /\ call[n].task = call'[n].task /\ call[n].at = "list" /\ ~i.loading,
           \A d \in Slots \ {n} : At(d, "analyse") => "analyse" \in overlapped'
    PROVE  IPanel' /\ ImporterSpins'
<1>1. /\ importer'.selected = p /\ importer'.analyzing /\ importer'.loading = i.loading
      /\ importer'.busy = i.busy /\ importer'.analysis = None
      /\ importer'.deployment = NoDeployment /\ importer'.form = EmptyForm
  BY DEF Importer, Selected
<1>2. PanelFits'
  BY <1>1 DEF PanelFits, EmptyForm, NoDeployment
<1>3. AnalysisFits(call[n])' /\ Sends(call'[n], overlapped')
  BY <1>1 DEF AnalysisFits, Sends, ImportTasks, Deploys
<1>4. ASSUME NEW d \in Slots \ {n}, call'[d] # Idle
      PROVE  AnalysisFits(call[d])' /\ Sends(call'[d], overlapped')
  <2>1. call'[d] = call[d]
    BY DEF Others
  <2>2. AnalysisFits(call[d])'
    BY <2>1 DEF AnalysisFits, At
  <2>3. Sends(call'[d], overlapped')
    BY <1>4, <2>1 DEF IPanel, Sends
  <2> QED
    BY <2>2, <2>3
<1>5. IPanel'
  BY <1>2, <1>3, <1>4 DEF IPanel, KeyFits
<1>6. AnalyzingHeld'
  BY DEF AnalyzingHeld, Live, At
<1>7. BusyHeld'
  BY <1>1 DEF ImporterSpins, BusyHeld, Live, Others, ImportTasks, Reloading
<1>8. LoadingHeld'
  BY <1>1 DEF ImporterSpins, LoadingHeld, Live, At, Others
<1> QED
  BY <1>5, <1>6, <1>7, <1>8 DEF ImporterSpins

(* The gestures of the Projects view keep what it shows and waits for. *)
LEMMA ImporterActsKeep ==
    ASSUME IType, IPanel, ImporterSpins, overlapped \subseteq overlapped', ImporterActs,
           host' = host, view' = view, IOverlap'
    PROVE  IPanel' /\ ImporterSpins'
<1> USE DEF IType, TypeOK
<1>1. CASE Refresh
  <2> DEFINE r == Task("refresh", None, "list")
  <2>1. r \in Requests
    BY RequestOf DEF Opening
  <2>2. r.at = "list" /\ r.task = "refresh" /\ r.live
    BY DEF Task, Call
  <2>3. Begin(r) /\ importer' = [importer EXCEPT !.loading = TRUE]
    BY <1>1 DEF Refresh, ui
  <2> HIDE DEF r
  <2>4. /\ importer'.selected = importer.selected /\ importer'.analyzing = importer.analyzing
        /\ importer'.busy = importer.busy /\ importer'.form = importer.form
        /\ importer'.analysis = importer.analysis /\ importer'.deployment = importer.deployment
    BY <2>3 DEF Importer
  <2>5. PanelFits'
    BY <2>4 DEF IPanel, PanelFits
  <2>6. Sends(r, overlapped')
    BY <2>2 DEF Sends, Deploys
  <2> QED
    BY <2>1, <2>2, <2>3, <2>4, <2>5, <2>6, BeginKeeps
<1>2. CASE Deploy
  <2> DEFINE r == [Task("deploy", importer.selected, "deploy") EXCEPT !.form = importer.form]
  <2>1. importer.selected \in Projects /\ importer.form \in Form
    BY <1>2 DEF Deploy, MayDeploy, ui, Importer
  <2>2. r \in Requests
    BY <2>1, RequestOf, Zenon DEF Opening
  <2>3. /\ r.at = "deploy" /\ r.task = "deploy" /\ r.live /\ r.of = importer.selected
        /\ r.form = importer.form
    BY DEF Task, Call
  <2>4. /\ Begin(r)
        /\ importer' = [importer EXCEPT !.busy = [what |-> "deploy", of |-> None],
                                        !.deployment = NoDeployment]
    BY <1>2 DEF Deploy, ui
  <2> HIDE DEF r
  <2>5. /\ importer'.selected = importer.selected /\ importer'.analyzing = importer.analyzing
        /\ importer'.loading = importer.loading /\ importer'.form = importer.form
        /\ importer'.analysis = importer.analysis /\ importer'.deployment = NoDeployment
    BY <2>4 DEF Importer
  <2>6. PanelFits'
    BY <2>5 DEF IPanel, PanelFits, NoDeployment
  <2>7. Sends(r, overlapped')
    BY <2>1, <2>3, LabAssumption DEF Sends, Deploys, IPanel, PanelFits
  <2> QED
    BY <2>2, <2>3, <2>4, <2>5, <2>6, <2>7, BeginKeeps DEF Reloading
<1>3. CASE RemoveDeployment
  <2> DEFINE r == [Task("undeploy", importer.deployment.of, "undeploy")
                      EXCEPT !.id = importer.deployment.id]
  <2>1. importer.deployment.of \in Projects /\ importer.deployment.id \in Nat
    BY <1>3 DEF RemoveDeployment, MayUndeploy, ui, Importer, Deployment
  <2>2. r \in Requests
    BY <2>1, RequestOf, Zenon DEF Opening
  <2>3. r.at = "undeploy" /\ r.task = "undeploy" /\ r.live
    BY DEF Task, Call
  <2>4. /\ Begin(r)
        /\ importer' = [importer EXCEPT !.busy = [what |-> "undeploy", of |-> None]]
    BY <1>3 DEF RemoveDeployment, ui
  <2> HIDE DEF r
  <2>5. /\ importer'.selected = importer.selected /\ importer'.analyzing = importer.analyzing
        /\ importer'.loading = importer.loading /\ importer'.form = importer.form
        /\ importer'.analysis = importer.analysis /\ importer'.deployment = importer.deployment
    BY <2>4 DEF Importer
  <2>6. PanelFits'
    BY <2>5 DEF IPanel, PanelFits
  <2>7. Sends(r, overlapped')
    BY <2>3 DEF Sends, Deploys
  <2> QED
    BY <2>2, <2>3, <2>4, <2>5, <2>6, <2>7, BeginKeeps DEF Reloading
<1>4. ASSUME NEW p \in Projects, SelectProject(p)
      PROVE  IPanel' /\ ImporterSpins'
  <2> DEFINE r == Task("select", p, "analyse")
  <2>1. r \in Requests
    BY RequestOf DEF Opening
  <2>2. r.at = "analyse" /\ r.task = "select" /\ r.live /\ r.of = p
    BY DEF Task, Call
  <2>3. Begin(r) /\ importer' = Selected(importer, p)
    BY <1>4 DEF SelectProject, ui
  <2> HIDE DEF r
  <2>4. PICK n \in Slots : call[n] = Idle /\ call'[n] = r /\ Others(n)
    BY <2>1, <2>3, BeginFields
  <2>5. r # Idle
    BY <2>1 DEF Requests, Shape, Idle
  <2>6. \A d \in Slots \ {n} : At(d, "analyse") => "analyse" \in overlapped'
    BY <2>2, <2>4 DEF IOverlap, AloneAt, At, Others
  <2> QED
    BY <2>2, <2>3, <2>4, <2>5, <2>6, SelectedKeeps DEF Others
<1>5. ASSUME NEW p \in Projects, RemoveProject(p)
      PROVE  IPanel' /\ ImporterSpins'
  <2> DEFINE r == [Task("delete", p, "delete") EXCEPT !.saw = importer.selected]
  <2>1. importer.selected \in Projects \union {None}
    BY DEF Importer
  <2>2. r \in Requests
    BY <2>1, RequestOf, Zenon DEF Opening
  <2>3. r.at = "delete" /\ r.task = "delete" /\ r.live
    BY DEF Task, Call
  <2>4. /\ Begin(r)
        /\ importer' = [importer EXCEPT !.busy = [what |-> "delete", of |-> p]]
    BY <1>5 DEF RemoveProject, ui
  <2> HIDE DEF r
  <2>5. /\ importer'.selected = importer.selected /\ importer'.analyzing = importer.analyzing
        /\ importer'.loading = importer.loading /\ importer'.form = importer.form
        /\ importer'.analysis = importer.analysis /\ importer'.deployment = importer.deployment
    BY <2>4 DEF Importer
  <2>6. PanelFits'
    BY <2>5 DEF IPanel, PanelFits
  <2>7. Sends(r, overlapped')
    BY <2>3 DEF Sends, Deploys
  <2> QED
    BY <2>2, <2>3, <2>4, <2>5, <2>6, <2>7, BeginKeeps DEF Reloading
<1>6. ASSUME NEW p \in Projects, NEW kind \in ImportTasks, ImportProject(kind, p)
      PROVE  IPanel' /\ ImporterSpins'
  <2> DEFINE r == Task(kind, p, "import")
  <2>1. r \in Requests
    BY RequestOf DEF Opening
  <2>2. r.at = "import" /\ r.task = kind /\ r.live
    BY DEF Task, Call
  <2>3. /\ Begin(r)
        /\ importer' = [importer EXCEPT !.busy = [what |-> kind, of |-> None]]
    BY <1>6 DEF ImportProject, ui
  <2> HIDE DEF r
  <2>4. /\ importer'.selected = importer.selected /\ importer'.analyzing = importer.analyzing
        /\ importer'.loading = importer.loading /\ importer'.form = importer.form
        /\ importer'.analysis = importer.analysis /\ importer'.deployment = importer.deployment
    BY <2>3 DEF Importer
  <2>5. PanelFits'
    BY <2>4 DEF IPanel, PanelFits
  <2>6. Sends(r, overlapped')
    BY <2>2 DEF Sends, Deploys, ImportTasks
  <2> QED
    BY <2>1, <2>2, <2>3, <2>4, <2>5, <2>6, BeginKeeps DEF Reloading
<1>7. ASSUME NEW mode \in Modes, NEW type \in TargetTypes, FillIn(mode, type)
      PROVE  IPanel' /\ ImporterSpins'
  <2>1. /\ importer' = [importer EXCEPT !.form.mode = mode, !.form.type = type,
                                        !.form.typed = importer.selected]
        /\ call' = call
    BY <1>7 DEF FillIn, ui
  <2>2. /\ importer'.selected = importer.selected /\ importer'.analyzing = importer.analyzing
        /\ importer'.loading = importer.loading /\ importer'.busy = importer.busy
        /\ importer'.analysis = importer.analysis /\ importer'.deployment = importer.deployment
        /\ importer'.form.typed = importer.selected
        /\ importer'.form.detected = importer.form.detected
    BY <2>1 DEF Importer, Form
  <2>3. PanelFits'
    BY <2>2 DEF IPanel, PanelFits
  <2>4. \A d \in Slots : call'[d] # Idle => AnalysisFits(call[d])' /\ Sends(call'[d], overlapped')
    BY <2>1, <2>2, RequestKept
  <2>5. ImporterSpins'
    BY <2>1, <2>2 DEF ImporterSpins, AnalyzingHeld, BusyHeld, LoadingHeld, Live, At
  <2> QED
    BY <2>3, <2>4, <2>5 DEF IPanel, KeyFits
<1> QED
  BY <1>1, <1>2, <1>3, <1>4, <1>5, <1>6, <1>7 DEF ImporterActs

(* An answer for a view that was left. *)
LEMMA DeadKeeps ==
    ASSUME IPanel, ImporterSpins, overlapped \subseteq overlapped', importer' = importer,
           host' = host, view' = view, NEW c \in Slots, Others(c), call[c] # Idle,
           ~call[c].live, call'[c] = Idle \/ SameTask(c)
    PROVE  IPanel' /\ ImporterSpins'
<1>1. call'[c] # Idle => AnalysisFits(call[c])' /\ Sends(call'[c], overlapped')
  BY DEF SameTask, IPanel, AnalysisFits, Sends
<1>2. \A d \in Slots \ {c} : call'[d] # Idle => AnalysisFits(call[d])' /\ Sends(call'[d], overlapped')
  BY RequestKept DEF Others
<1>3. PanelFits'
  BY DEF IPanel, PanelFits
<1>4. IPanel'
  BY <1>1, <1>2, <1>3 DEF IPanel, KeyFits
<1>5. AnalyzingHeld'
  BY DEF ImporterSpins, AnalyzingHeld, Live, At, Others
<1>6. BusyHeld'
  BY DEF ImporterSpins, BusyHeld, Live, Others
<1>7. LoadingHeld'
  BY DEF ImporterSpins, LoadingHeld, Live, At, Others
<1> QED
  BY <1>4, <1>5, <1>6, <1>7 DEF ImporterSpins

(* An answer for the view: a spinner stops, or is not about this request. *)
LEMMA LiveKeeps ==
    ASSUME IPanel, ImporterSpins, overlapped \subseteq overlapped', host' = host, view' = view,
           NEW c \in Slots, Others(c), call[c] # Idle, call[c].live,
           call'[c] = Idle \/ (SameTask(c) /\ call'[c].at # "analyse"),
           PanelFits', importer'.selected \in {None, importer.selected},
           \/ ~importer'.analyzing
           \/ importer'.analyzing = importer.analyzing /\ call[c].at # "analyse",
           \/ importer'.busy = Nothing
           \/ /\ importer'.busy = importer.busy
              /\ \/ call[c].task \notin ImportTasks \union {"delete", "deploy", "undeploy"}
                 \/ call'[c] # Idle /\ call'[c].at \notin Reloading,
           \/ ~importer'.loading
           \/ importer'.loading = importer.loading /\ call[c].at # "list"
           \/ /\ call'[c] # Idle /\ call'[c].at = "list"
              /\ call[c].task \in ImportTasks \union {"refresh", "delete"}
    PROVE  IPanel' /\ ImporterSpins'
<1>1. call'[c] # Idle => AnalysisFits(call[c])' /\ Sends(call'[c], overlapped')
  BY DEF SameTask, IPanel, AnalysisFits, Sends
<1>2. \A d \in Slots \ {c} : call'[d] # Idle => AnalysisFits(call[d])' /\ Sends(call'[d], overlapped')
  BY RequestKept DEF Others
<1>3. IPanel'
  BY <1>1, <1>2 DEF IPanel, KeyFits
<1>4. AnalyzingHeld'
  BY DEF ImporterSpins, AnalyzingHeld, Live, At, Others
<1>5. BusyHeld'
  <2> DEFINE waits == ImportTasks \union {"delete", "deploy", "undeploy"}
  <2> SUFFICES ASSUME importer'.busy # Nothing
               PROVE  \E d \in Slots : Live(d, waits)' /\ call'[d].at \notin Reloading
    BY DEF BusyHeld
  <2> HIDE DEF waits
  <2>1. PICK d \in Slots : Live(d, waits) /\ call[d].at \notin Reloading
    BY DEF ImporterSpins, BusyHeld, waits
  <2>2. CASE d # c
    BY <2>1, <2>2 DEF Live, Others
  <2>3. CASE d = c
    <3>1. call'[c] # Idle /\ call'[c].at \notin Reloading /\ SameTask(c)
      BY <2>1, <2>3 DEF Live, waits
    <3> QED
      BY <2>1, <2>3, <3>1 DEF Live, SameTask
  <2> QED
    BY <2>2, <2>3
<1>6. LoadingHeld'
  BY DEF ImporterSpins, LoadingHeld, Live, At, Others, SameTask
<1> QED
  BY <1>3, <1>4, <1>5, <1>6 DEF ImporterSpins

LEMMA FreesFields ==
    ASSUME CallFits, NEW c \in Slots, Frees(c)
    PROVE  call'[c] = Idle /\ Others(c)
BY DEF CallFits, Frees, Others

(* The tasks the Projects view goes on with. *)
LEMMA ImporterTask ==
    ASSUME CallFits, NEW c \in Slots, ImporterContinues(c)
    PROVE  call[c] \in Requests /\ call[c] # Idle /\ call[c].task \in ProjectTasks \union {"refresh"}
<1>1. call[c].at \in {"list", "analyse", "answered"}
  BY DEF ImporterContinues, ProjectsListed, AnalysisAnswered, ImportAnswered, ProjectRemoved,
         DeployAnswered, DeploymentRemoved, At
<1>2. call[c] \in Requests /\ call[c] # Idle
  BY <1>1, StandsThere, BusyIs
<1>3. call[c].at = "analyse" => call[c].task \in ImportTasks \union {"select"}
  BY <1>2 DEF Requests, Stands, ImportTasks, Deploys
<1> QED
  BY <1>2, <1>3
     DEF ImporterContinues, ProjectsListed, AnalysisAnswered, ImportAnswered, ProjectRemoved,
         DeployAnswered, DeploymentRemoved, At, ProjectTasks

(* The continuations of the Projects view keep it too. *)
LEMMA ImporterContinuesKeep ==
    ASSUME IType, IPanel, ImporterSpins, IOverlap, IOverlap', overlapped \subseteq overlapped',
           NEW c \in Slots, ImporterContinues(c), host' = host, view' = view
    PROVE  IPanel' /\ ImporterSpins'
<1> USE DEF IType, TypeOK
<1> DEFINE r == call[c]
<1>1. r \in Requests /\ r # Idle /\ r.live \in BOOLEAN
  BY ImporterTask, Continues
<1>2. CASE ~r.live
  <2>1. importer' = importer
    BY <1>2 DEF ImporterContinues, ProjectsListed, AnalysisAnswered, ImportAnswered, ProjectRemoved,
         DeployAnswered, DeploymentRemoved, Set
  <2>2. ASSUME NEW at \in {"list", "analyse", "targets"}, Goes(c, at)
        PROVE  SameTask(c) /\ Others(c)
    BY <1>1, <2>2, GoesFields
  <2>3. Frees(c) \/ \E at \in {"list", "analyse", "targets"} : Goes(c, at)
    BY DEF ImporterContinues, ProjectsListed, AnalysisAnswered, ImportAnswered, ProjectRemoved,
           DeployAnswered, DeploymentRemoved, ReloadTargets
  <2> QED
    BY <1>1, <1>2, <2>1, <2>2, <2>3, FreesFields, DeadKeeps
<1>3. CASE r.live
  <2>1. ASSUME NEW state, Set(c, state)
        PROVE  importer' = state
    BY <1>3, <2>1 DEF Set
  <2>2. ASSUME Frees(c)
        PROVE  call'[c] = Idle /\ Others(c)
    BY <2>2, FreesFields
  <2>3. ASSUME NEW at \in {"list", "analyse", "targets"}, Goes(c, at)
        PROVE  call'[c] # Idle /\ call'[c].at = at /\ SameTask(c) /\ Others(c)
    BY <1>1, <2>3, GoesFields DEF SameTask
  <2>4. CASE ProjectsListed(c)
    <3> DEFINE loaded == [importer EXCEPT !.listed = imported, !.loading = FALSE]
    <3>1. /\ loaded \in Importer /\ ~loaded.loading /\ loaded.busy = importer.busy
          /\ loaded.selected = importer.selected /\ loaded.analyzing = importer.analyzing
          /\ loaded.form = importer.form /\ loaded.analysis = importer.analysis
          /\ loaded.deployment = importer.deployment
      BY DEF Importer, LabTypeOK
    <3>2. r.at = "list" /\ r.task \in ImportTasks \union {"refresh", "delete"}
      BY <2>4 DEF ProjectsListed, At
    <3>3. CASE r.task = "refresh"
      <4>1. importer' = loaded /\ Frees(c)
        BY <2>1, <2>4, <3>3 DEF ProjectsListed, ui
      <4> HIDE DEF loaded
      <4>2. PanelFits'
        BY <3>1, <4>1 DEF IPanel, PanelFits
      <4> QED
        BY <1>1, <1>3, <2>2, <3>1, <3>2, <3>3, <4>1, <4>2, LiveKeeps DEF ImportTasks
    <3>4. CASE r.task = "delete"
      <4>1. importer' = NotBusy(loaded) /\ Frees(c)
        BY <2>1, <2>4, <3>4 DEF ProjectsListed, ui
      <4> HIDE DEF loaded
      <4>2. /\ ~importer'.loading /\ importer'.busy = Nothing
            /\ importer'.selected = importer.selected /\ importer'.analyzing = importer.analyzing
            /\ importer'.form = importer.form /\ importer'.analysis = importer.analysis
            /\ importer'.deployment = importer.deployment
        BY <3>1, <4>1 DEF NotBusy, Importer
      <4>3. PanelFits'
        BY <4>2 DEF IPanel, PanelFits
      <4> QED
        BY <1>1, <1>3, <2>2, <3>2, <4>1, <4>2, <4>3, LiveKeeps
    <3>5. CASE r.task \in ImportTasks
      <4>1. importer' = Selected(loaded, r.of) /\ Goes(c, "analyse")
        BY <2>1, <2>4, <3>5 DEF ProjectsListed, ui, ImportTasks
      <4> HIDE DEF loaded
      <4>2. /\ call'[c] # Idle /\ call'[c].at = "analyse" /\ call'[c].of = r.of
            /\ call'[c].task = r.task /\ call'[c].live /\ Others(c)
        BY <1>3, <2>3, <4>1 DEF SameTask
      <4>3. r.of \in Projects
        BY <1>1, <3>5, Continues DEF ProjectTasks
      <4>4. \A d \in Slots \ {c} : At(d, "analyse") => "analyse" \in overlapped'
        BY <4>2 DEF IOverlap, AloneAt, At, Others
      <4> QED
        BY <3>1, <3>2, <3>5, <4>1, <4>2, <4>3, <4>4, SelectedKeeps
    <3> QED
      BY <3>2, <3>3, <3>4, <3>5
  <2>5. CASE AnalysisAnswered(c)
    <3>1. PICK nudge \in BOOLEAN :
             LET done == Analysed(importer, r.of, r.of \in imported, nudge) IN
             importer' = IF r.task = "select" THEN done ELSE NotBusy(done)
      BY <2>1, <2>5 DEF AnalysisAnswered, ui
    <3> DEFINE ok == r.of \in imported
               done == Analysed(importer, r.of, ok, nudge)
    <3>2. ok \in BOOLEAN
      OBVIOUS
    <3>3. importer' = IF r.task = "select" THEN done ELSE NotBusy(done)
      BY <3>1
    <3> HIDE DEF ok
    <3>4. /\ done \in Importer /\ ~done.analyzing /\ done.busy = importer.busy
          /\ done.selected = importer.selected /\ done.loading = importer.loading
          /\ done.form.typed = importer.form.typed /\ done.deployment = importer.deployment
          /\ done.form.detected \in {importer.form.detected, r.of}
          /\ done.analysis \in {importer.analysis, r.of}
      <4>1. r.of \in Projects
        BY <1>1, <2>5, Continues DEF AnalysisAnswered, At
      <4>2. done \in Importer
        BY <3>2, <4>1, AnalysedTyped
      <4> DEFINE f == [importer.form EXCEPT !.detected = IF ok THEN r.of ELSE importer.form.detected,
                                            !.mode = IF ok /\ nudge THEN "external"
                                                     ELSE importer.form.mode]
                 a == [importer EXCEPT !.analyzing = FALSE,
                                       !.analysis = IF ok THEN r.of ELSE importer.analysis]
      <4>3. importer \in Importer /\ importer.form \in Form
        BY DEF LabTypeOK, Importer
      <4>4. done = [a EXCEPT !.form = f]
        BY <4>3 DEF Analysed, Importer
      <4>5. f.typed = importer.form.typed /\ f.detected \in {importer.form.detected, r.of}
        BY <4>3 DEF Form
      <4>6. /\ ~a.analyzing /\ a.busy = importer.busy /\ a.selected = importer.selected
            /\ a.loading = importer.loading /\ a.deployment = importer.deployment
            /\ a.analysis \in {importer.analysis, r.of}
        BY <4>3 DEF Importer
      <4>7. DOMAIN a = DOMAIN importer /\ "form" \in DOMAIN importer
        BY <4>3 DEF Importer
      <4> HIDE DEF done, a, f
      <4>8. /\ done.form = f /\ done.analyzing = a.analyzing /\ done.busy = a.busy
            /\ done.selected = a.selected /\ done.loading = a.loading
            /\ done.deployment = a.deployment /\ done.analysis = a.analysis
        BY <4>3, <4>4, <4>7 DEF Importer
      <4> QED
        BY <4>2, <4>5, <4>6, <4>8
    <3> HIDE DEF done
    <3>5. /\ ~importer'.analyzing
          /\ importer'.busy = IF r.task = "select" THEN importer.busy ELSE Nothing
          /\ importer'.selected = importer.selected /\ importer'.loading = importer.loading
          /\ importer'.form = done.form /\ importer'.deployment = importer.deployment
          /\ importer'.analysis = done.analysis
      BY <3>3, <3>4 DEF NotBusy, Importer
    <3>6. Frees(c) /\ r.at = "analyse"
      BY <2>5 DEF AnalysisAnswered, At
    <3>7. PanelFits'
      <4>1. importer.selected # None /\ "analyse" \notin overlapped => r.of = importer.selected
        BY <1>1, <1>3, <3>6 DEF IPanel, AnalysisFits
      <4> QED
        BY <3>4, <3>5, <4>1 DEF IPanel, PanelFits
    <3> QED
      BY <1>1, <1>3, <2>2, <3>5, <3>6, <3>7, LiveKeeps DEF ImportTasks
  <2>6. CASE ImportAnswered(c)
    <3>1. r.at = "answered" /\ r.task \in ImportTasks
      BY <2>6 DEF ImportAnswered, At
    <3>2. CASE r.ok
      <4>1. importer' = [importer EXCEPT !.loading = TRUE] /\ Goes(c, "list")
        BY <2>1, <2>6, <3>2 DEF ImportAnswered, ui
      <4>2. /\ importer'.selected = importer.selected /\ importer'.analyzing = importer.analyzing
            /\ importer'.busy = importer.busy /\ importer'.form = importer.form
            /\ importer'.analysis = importer.analysis /\ importer'.deployment = importer.deployment
        BY <4>1 DEF Importer
      <4>3. PanelFits'
        BY <4>2 DEF IPanel, PanelFits
      <4> QED
        BY <1>1, <1>3, <2>3, <3>1, <4>1, <4>2, <4>3, LiveKeeps DEF Reloading
    <3>3. CASE ~r.ok
      <4>1. importer' = NotBusy(importer) /\ Frees(c)
        BY <2>1, <2>6, <3>3 DEF ImportAnswered, ui
      <4>2. /\ importer'.selected = importer.selected /\ importer'.analyzing = importer.analyzing
            /\ importer'.busy = Nothing /\ importer'.form = importer.form
            /\ importer'.loading = importer.loading
            /\ importer'.analysis = importer.analysis /\ importer'.deployment = importer.deployment
        BY <4>1 DEF Importer, NotBusy
      <4>3. PanelFits'
        BY <4>2 DEF IPanel, PanelFits
      <4> QED
        BY <1>1, <1>3, <2>2, <3>1, <4>1, <4>2, <4>3, LiveKeeps
    <3> QED
      BY <3>2, <3>3
  <2>7. CASE ProjectRemoved(c)
    <3> DEFINE gone == IF r.saw = r.of
                       THEN [importer EXCEPT !.selected = None, !.analysis = None,
                                             !.deployment = NoDeployment]
                       ELSE importer
    <3>1. /\ gone \in Importer /\ gone.selected \in {None, importer.selected}
          /\ gone.selected # None => gone = importer
          /\ gone.analyzing = importer.analyzing /\ gone.busy = importer.busy
      BY GoneTyped DEF Importer
    <3>2. importer' = [gone EXCEPT !.loading = TRUE] /\ Goes(c, "list")
      BY <2>1, <2>7 DEF ProjectRemoved, ui
    <3>3. r.at = "answered" /\ r.task = "delete"
      BY <2>7 DEF ProjectRemoved, At
    <3> HIDE DEF gone
    <3>4. /\ importer'.selected = gone.selected /\ importer'.analyzing = gone.analyzing
          /\ importer'.busy = gone.busy /\ importer'.form = gone.form
          /\ importer'.analysis = gone.analysis /\ importer'.deployment = gone.deployment
      BY <3>1, <3>2 DEF Importer
    <3>5. PanelFits'
      BY <3>1, <3>4 DEF IPanel, PanelFits
    <3> QED
      BY <1>1, <1>3, <2>3, <3>1, <3>2, <3>3, <3>4, <3>5, LiveKeeps DEF Reloading
  <2>8. CASE DeployAnswered(c)
    <3>1. r.at = "answered" /\ r.task = "deploy"
      BY <2>8 DEF DeployAnswered, At
    <3>2. CASE r.ok
      <4> DEFINE d == [of |-> r.of, id |-> r.id, target |-> LabTarget(r.of, r.form.type),
                       external |-> r.form.mode = "external"]
      <4>1. importer' = [NotBusy(importer) EXCEPT !.deployment = d] /\ Goes(c, "targets")
        BY <2>1, <2>8, <3>2 DEF DeployAnswered, ReloadTargets, ui
      <4>2. d.of = r.of
        OBVIOUS
      <4> HIDE DEF d
      <4>3. /\ importer'.selected = importer.selected /\ importer'.analyzing = importer.analyzing
            /\ importer'.busy = Nothing /\ importer'.form = importer.form
            /\ importer'.loading = importer.loading
            /\ importer'.analysis = importer.analysis /\ importer'.deployment = d
        BY <4>1 DEF Importer, NotBusy
      <4>4. PanelFits'
        <5>1. "moved" \notin overlapped => r.of = importer.selected
          BY <1>1, <1>3, <3>1 DEF IOverlap
        <5> QED
          BY <4>2, <4>3, <5>1 DEF IPanel, PanelFits
      <4> QED
        BY <1>1, <1>3, <2>3, <3>1, <4>1, <4>3, <4>4, LiveKeeps
    <3>3. CASE ~r.ok
      <4>1. importer' = NotBusy(importer) /\ Frees(c)
        BY <2>1, <2>8, <3>3 DEF DeployAnswered, ui
      <4>2. /\ importer'.selected = importer.selected /\ importer'.analyzing = importer.analyzing
            /\ importer'.busy = Nothing /\ importer'.form = importer.form
            /\ importer'.loading = importer.loading
            /\ importer'.analysis = importer.analysis /\ importer'.deployment = importer.deployment
        BY <4>1 DEF Importer, NotBusy
      <4>3. PanelFits'
        BY <4>2 DEF IPanel, PanelFits
      <4> QED
        BY <1>1, <1>3, <2>2, <3>1, <4>1, <4>2, <4>3, LiveKeeps
    <3> QED
      BY <3>2, <3>3
  <2>9. CASE DeploymentRemoved(c)
    <3>1. r.at = "answered" /\ r.task = "undeploy"
      BY <2>9 DEF DeploymentRemoved, At
    <3>2. \/ importer' = [NotBusy(importer) EXCEPT !.deployment = NoDeployment] /\ Goes(c, "targets")
          \/ importer' = NotBusy(importer) /\ Frees(c)
      BY <2>1, <2>9 DEF DeploymentRemoved, ReloadTargets, ui
    <3>3. /\ importer'.selected = importer.selected /\ importer'.analyzing = importer.analyzing
          /\ importer'.busy = Nothing /\ importer'.form = importer.form
          /\ importer'.loading = importer.loading /\ importer'.analysis = importer.analysis
          /\ importer'.deployment \in {importer.deployment, NoDeployment}
      BY <3>2 DEF Importer, NotBusy
    <3>4. PanelFits'
      BY <3>3 DEF IPanel, PanelFits, NoDeployment
    <3> QED
      BY <1>1, <1>3, <2>2, <2>3, <3>1, <3>2, <3>3, <3>4, LiveKeeps
  <2> QED
    BY <2>4, <2>5, <2>6, <2>7, <2>8, <2>9 DEF ImporterContinues
<1> QED
  BY <1>1, <1>2, <1>3

-----------------------------------------------------------------------------
(* The Agents view. *)

(* The text under an agent is its own, or its own is on the way. *)
ILogs ==
    host.logsFor # None /\ "logs" \notin overlapped =>
       \/ \E c \in Slots : At(c, "logs") /\ call[c].live /\ call[c].of = host.logsFor
       \/ (\A c \in Slots : ~At(c, "logs")) /\ host.logs = host.logsFor

IHost == HostSpins /\ ILogs

(* The Projects view goes on, or a handler: the logs stay. *)
LEMMA LogsKept ==
    ASSUME ILogs, overlapped \subseteq overlapped', host' = host, NEW c \in Slots, Others(c),
           call[c].at # "logs", call'[c].at # "logs"
    PROVE  ILogs'
BY DEF ILogs, At, Others

LEMMA HostBegins ==
    ASSUME CallFits, IPanel, ImporterSpins, IHost, IOverlap', overlapped \subseteq overlapped',
           NEW r \in Requests, Begin(r), r.at # "analyse", Sends(r, overlapped'),
           importer' = importer, view' = view, KeyFits',
           \/ host'.deploying = host.deploying
           \/ r.live /\ r.task \in Deploys /\ r.at \notin Reloading,
           \/ host'.loading = host.loading
           \/ r.live /\ r.task \in HostTasks /\ r.at = "list",
           \/ r.at # "logs" /\ host'.logsFor = host.logsFor /\ host'.logs = host.logs
           \/ r.at = "logs" /\ r.live /\ host'.logsFor = r.of
    PROVE  IPanel' /\ ImporterSpins' /\ IHost'
<1>1. PICK n \in Slots : call[n] = Idle /\ call'[n] = r /\ Others(n)
  BY BeginFields
<1>2. r # Idle
  BY DEF Requests, Shape, Idle
<1>3. AnalysisFits(call[n])' /\ Sends(call'[n], overlapped')
  BY <1>1 DEF AnalysisFits
<1>4. \A d \in Slots \ {n} : call'[d] # Idle => AnalysisFits(call[d])' /\ Sends(call'[d], overlapped')
  BY <1>1, RequestKept DEF Others
<1>5. IPanel'
  <2>1. PanelFits'
    BY DEF IPanel, PanelFits
  <2> QED
    BY <1>3, <1>4, <2>1 DEF IPanel
<1>6. ImporterSpins'
  BY <1>1, ImporterSpinsKept
<1>7. \A d \in Slots : call[d] # Idle => call'[d] = call[d]
  BY <1>1 DEF Others
<1>8. DeployingHeld'
  BY <1>1, <1>2, <1>7 DEF IHost, HostSpins, DeployingHeld, Live
<1>9. AgentsHeld'
  BY <1>1, <1>2, <1>7 DEF IHost, HostSpins, AgentsHeld, Live, At
<1>10. ILogs'
  <2>1. CASE r.at # "logs"
    BY <1>1, <2>1, IdleIs DEF IHost, ILogs, At, Others
  <2>2. CASE r.at = "logs"
    BY <1>1, <2>2 DEF ILogs, At
  <2> QED
    BY <2>1, <2>2
<1> QED
  BY <1>5, <1>6, <1>8, <1>9, <1>10 DEF IHost, HostSpins

LEMMA HostStays ==
    ASSUME IPanel, ImporterSpins, IHost, overlapped \subseteq overlapped', call' = call,
           importer' = importer, view' = view, KeyFits', host'.deploying = host.deploying,
           host'.loading = host.loading, host'.logs = host.logs,
           host'.logsFor \in {None, host.logsFor}
    PROVE  IPanel' /\ ImporterSpins' /\ IHost'
<1>1. PanelFits'
  BY DEF IPanel, PanelFits
<1>2. \A d \in Slots : call'[d] # Idle => AnalysisFits(call[d])' /\ Sends(call'[d], overlapped')
  BY RequestKept
<1>3. IPanel'
  BY <1>1, <1>2 DEF IPanel
<1>4. ImporterSpins'
  BY DEF ImporterSpins, AnalyzingHeld, BusyHeld, LoadingHeld, Live, At
<1>5. HostSpins'
  BY DEF IHost, HostSpins, DeployingHeld, AgentsHeld, Live, At
<1>6. ILogs'
  BY DEF IHost, ILogs, At
<1> QED
  BY <1>3, <1>4, <1>5, <1>6 DEF IHost

(* The gestures of the Agents view keep what it shows and waits for. *)
LEMMA HostActsKeep ==
    ASSUME IType, IPanel, ImporterSpins, IHost, IOverlap', overlapped \subseteq overlapped',
           HostActs, importer' = importer, view' = view
    PROVE  IPanel' /\ ImporterSpins' /\ IHost'
<1> USE DEF IType, TypeOK
<1>1. CASE RefreshAgents
  <2> DEFINE r == HostTask("agents", None, "list")
  <2>1. r \in Requests
    BY HostRequestOf DEF Opening
  <2>2. r.at = "list" /\ r.task = "agents" /\ r.live
    BY DEF HostTask, Call
  <2>3. Begin(r) /\ host' = [host EXCEPT !.loading = TRUE]
    BY <1>1 DEF RefreshAgents
  <2> HIDE DEF r
  <2>4. /\ host'.deploying = host.deploying /\ host'.logsFor = host.logsFor
        /\ host'.logs = host.logs /\ KeyFits'
    BY <2>3 DEF Host, IPanel, KeyFits
  <2>5. Sends(r, overlapped')
    BY <2>2 DEF Sends, Deploys
  <2> QED
    BY <2>1, <2>2, <2>3, <2>4, <2>5, HostBegins DEF HostTasks
<1>2. CASE TypeKey
  <2>1. /\ host'.deploying = host.deploying /\ host'.logsFor = host.logsFor
        /\ host'.logs = host.logs /\ host'.loading = host.loading /\ KeyFits' /\ call' = call
    BY <1>2 DEF TypeKey, Host, KeyFits
  <2> QED
    BY <2>1, HostStays
<1>3. CASE DeployCustom
  <2> DEFINE form == [provider |-> None, key |-> None, publishes |-> host.port]
             r == [HostTask("deploy-image", host.image, "run-agent") EXCEPT !.form = form]
  <2>1. host.image \in Agents /\ form \in AgentForm /\ "deploy-image" \in Deploys
    BY <1>3, LabAssumption DEF DeployCustom, OffersCustom, Host, AgentForm, Deploys
  <2>2. r \in Requests
    <3> HIDE DEF form
    <3> QED
      BY <2>1, HostRequestOf, Zenon DEF Opening
  <2>3. /\ r.at = "run-agent" /\ r.task = "deploy-image" /\ r.live
        /\ r.form.key = None
    BY DEF HostTask, Call
  <2>4. Begin(r) /\ host' = [host EXCEPT !.deploying = TRUE]
    BY <1>3 DEF DeployCustom
  <2> HIDE DEF form, r
  <2>5. /\ host'.loading = host.loading /\ host'.logsFor = host.logsFor
        /\ host'.logs = host.logs /\ KeyFits'
    BY <2>4 DEF Host, IPanel, KeyFits
  <2>6. Sends(r, overlapped')
    BY <2>3 DEF Sends
  <2> QED
    BY <2>1, <2>2, <2>3, <2>4, <2>5, <2>6, HostBegins DEF Reloading
<1>4. CASE CloseLogs
  <2>1. /\ host'.deploying = host.deploying /\ host'.logsFor = None
        /\ host'.logs = host.logs /\ host'.loading = host.loading /\ KeyFits' /\ call' = call
    BY <1>4 DEF CloseLogs, Host, IPanel, KeyFits
  <2> QED
    BY <2>1, HostStays
<1>5. ASSUME NEW k \in Providers \union {None}, ChooseProvider(k)
      PROVE  IPanel' /\ ImporterSpins' /\ IHost'
  <2>1. /\ host'.deploying = host.deploying /\ host'.logsFor = host.logsFor
        /\ host'.logs = host.logs /\ host'.loading = host.loading /\ KeyFits' /\ call' = call
    BY <1>5 DEF ChooseProvider, Host, KeyFits
  <2> QED
    BY <2>1, HostStays
<1>6. ASSUME NEW a \in Agents \ Custom, DeployTemplate(a)
      PROVE  IPanel' /\ ImporterSpins' /\ IHost'
  <2> DEFINE form == [provider |-> host.provider, publishes |-> TRUE,
                      key |-> IF host.provider = None THEN None ELSE host.key]
             r == [HostTask("deploy-template", a, "run-agent") EXCEPT !.form = form]
  <2>1. form \in AgentForm /\ "deploy-template" \in Deploys
    BY DEF Host, AgentForm, Deploys
  <2>2. r \in Requests
    <3> HIDE DEF form
    <3> QED
      BY <2>1, HostRequestOf, Zenon DEF Opening
  <2>3. r.at = "run-agent" /\ r.task = "deploy-template" /\ r.live /\ r.form = form
    BY DEF HostTask, Call
  <2>4. Begin(r) /\ host' = [host EXCEPT !.deploying = TRUE]
    BY <1>6 DEF DeployTemplate
  <2>5. form.key \in {None, form.provider}
    BY DEF IPanel, KeyFits
  <2> HIDE DEF form, r
  <2>6. /\ host'.loading = host.loading /\ host'.logsFor = host.logsFor
        /\ host'.logs = host.logs /\ KeyFits'
    BY <2>4 DEF Host, IPanel, KeyFits
  <2>7. Sends(r, overlapped')
    BY <2>3, <2>5 DEF Sends
  <2> QED
    BY <2>1, <2>2, <2>3, <2>4, <2>6, <2>7, HostBegins DEF Reloading
<1>7. ASSUME NEW a \in Agents \ Custom, NEW action \in {"save-template", "delete-template"},
             Begin(HostTask(action, a, action)), host' = host
      PROVE  IPanel' /\ ImporterSpins' /\ IHost'
  <2> DEFINE r == HostTask(action, a, action)
  <2>1. r \in Requests
    BY HostRequestOf DEF Opening
  <2>2. r.at = action /\ r.task = action
    BY DEF HostTask, Call
  <2> HIDE DEF r
  <2>3. Sends(r, overlapped')
    BY <2>2 DEF Sends, Deploys
  <2>4. KeyFits'
    BY <1>7 DEF IPanel, KeyFits
  <2> QED
    BY <1>7, <2>1, <2>2, <2>3, <2>4, HostBegins DEF r
<1>8. ASSUME NEW a \in Custom, NEW port \in BOOLEAN, FillCustom(a, port)
      PROVE  IPanel' /\ ImporterSpins' /\ IHost'
  <2>1. /\ host'.deploying = host.deploying /\ host'.logsFor = host.logsFor
        /\ host'.logs = host.logs /\ host'.loading = host.loading /\ KeyFits' /\ call' = call
    BY <1>8 DEF FillCustom, Host, IPanel, KeyFits
  <2> QED
    BY <2>1, HostStays
<1>9. ASSUME NEW s \in Subjects, OpenLogs(s)
      PROVE  IPanel' /\ ImporterSpins' /\ IHost'
  <2> DEFINE r == HostTask("logs", s, "logs")
  <2>1. r \in Requests
    BY HostRequestOf DEF Opening
  <2>2. r.at = "logs" /\ r.task = "logs" /\ r.live /\ r.of = s
    BY DEF HostTask, Call
  <2>3. Begin(r) /\ host' = [host EXCEPT !.logsFor = s]
    BY <1>9 DEF OpenLogs
  <2> HIDE DEF r
  <2>4. /\ host'.deploying = host.deploying /\ host'.loading = host.loading
        /\ host'.logsFor = s /\ KeyFits'
    BY <2>3 DEF Host, IPanel, KeyFits
  <2>5. Sends(r, overlapped')
    BY <2>2 DEF Sends, Deploys
  <2> QED
    BY <2>1, <2>2, <2>3, <2>4, <2>5, HostBegins
<1>10. ASSUME NEW s \in Subjects, NEW action \in {"stop", "start", "remove"},
              AgentAction(s, action)
       PROVE  IPanel' /\ ImporterSpins' /\ IHost'
  <2> DEFINE r == HostTask(action, s, action)
  <2>1. r \in Requests
    BY HostRequestOf DEF Opening
  <2>2. r.at = action /\ r.task = action
    BY DEF HostTask, Call
  <2>3. Begin(r) /\ host' = host
    BY <1>10 DEF AgentAction
  <2> HIDE DEF r
  <2>4. Sends(r, overlapped')
    BY <2>2 DEF Sends, Deploys
  <2>5. KeyFits'
    BY <2>3 DEF IPanel, KeyFits
  <2> QED
    BY <2>1, <2>2, <2>3, <2>4, <2>5, HostBegins
<1> QED
  BY <1>1, <1>2, <1>3, <1>4, <1>5, <1>6, <1>7, <1>8, <1>9, <1>10
     DEF HostActs, AddTemplate, DropTemplate

LEMMA ImporterBegins ==
    ASSUME CallFits, importer \in Importer, scanTarget \in TargetIds \union {None}, ImporterActs
    PROVE  call' = call \/ \E r \in Opening : Begin(r) /\ r.at # "logs"
<1>1. CASE Refresh
  BY <1>1, RequestOf DEF Refresh, Task, Call
<1>2. CASE Deploy
  <2>1. importer.selected \in Projects /\ importer.form \in Form
    BY <1>2 DEF Deploy, MayDeploy, ui, Importer
  <2>2. [Task("deploy", importer.selected, "deploy") EXCEPT !.form = importer.form] \in Opening
    BY <2>1, RequestOf, Zenon
  <2> QED
    BY <1>2, <2>2 DEF Deploy, ui, Task, Call
<1>3. CASE RemoveDeployment
  <2>1. importer.deployment.of \in Projects /\ importer.deployment.id \in Nat
    BY <1>3 DEF RemoveDeployment, MayUndeploy, ui, Importer, Deployment
  <2>2. [Task("undeploy", importer.deployment.of, "undeploy")
            EXCEPT !.id = importer.deployment.id] \in Opening
    BY <2>1, RequestOf, Zenon
  <2> QED
    BY <1>3, <2>2 DEF RemoveDeployment, ui, Task, Call
<1>4. ASSUME NEW p \in Projects, SelectProject(p)
      PROVE  \E r \in Opening : Begin(r) /\ r.at # "logs"
  <2>1. Task("select", p, "analyse") \in Opening
    BY RequestOf
  <2> QED
    BY <1>4, <2>1 DEF SelectProject, Task, Call
<1>5. ASSUME NEW p \in Projects, RemoveProject(p)
      PROVE  \E r \in Opening : Begin(r) /\ r.at # "logs"
  <2>1. importer.selected \in Projects \union {None}
    BY DEF Importer
  <2>2. [Task("delete", p, "delete") EXCEPT !.saw = importer.selected] \in Opening
    BY <2>1, RequestOf, Zenon
  <2> QED
    BY <1>5, <2>2 DEF RemoveProject, ui, Task, Call
<1>6. ASSUME NEW p \in Projects, NEW kind \in ImportTasks, ImportProject(kind, p)
      PROVE  \E r \in Opening : Begin(r) /\ r.at # "logs"
  <2>1. Task(kind, p, "import") \in Opening
    BY RequestOf
  <2> QED
    BY <1>6, <2>1 DEF ImportProject, Task, Call
<1> QED
  BY <1>1, <1>2, <1>3, <1>4, <1>5, <1>6 DEF ImporterActs, FillIn

(* An answer for the view that asked, or for one that was left. *)
LEMMA HostContinuesOn ==
    ASSUME IPanel, ImporterSpins, IHost, IOverlap, overlapped \subseteq overlapped',
           importer' = importer, view' = view, KeyFits', NEW c \in Slots, Others(c),
           call[c] # Idle, call[c].task \in HostTasks \union {"logs"},
           call'[c] = Idle \/ (SameTask(c) /\ call'[c].at \notin {"analyse", "logs"}),
           \/ ~call[c].live /\ host' = host
           \/ /\ call[c].live
              /\ \/ ~host'.deploying
                 \/ /\ host'.deploying = host.deploying
                    /\ \/ call[c].task \notin Deploys
                       \/ call'[c] # Idle /\ call'[c].at \notin Reloading
              /\ \/ ~host'.loading
                 \/ host'.loading = host.loading /\ call[c].at # "list"
                 \/ /\ call'[c] # Idle /\ call'[c].at = "list"
                    /\ call[c].task \in HostTasks
              /\ \/ /\ call[c].at # "logs" /\ host'.logs = host.logs
                    /\ host'.logsFor \in {None, host.logsFor}
                 \/ /\ call[c].at = "logs" /\ host'.logs = call[c].of
                    /\ host'.logsFor = host.logsFor
    PROVE  IPanel' /\ ImporterSpins' /\ IHost'
<1>1. call'[c] # Idle => AnalysisFits(call[c])' /\ Sends(call'[c], overlapped')
  BY DEF SameTask, IPanel, AnalysisFits, Sends
<1>2. \A d \in Slots \ {c} : call'[d] # Idle => AnalysisFits(call[d])' /\ Sends(call'[d], overlapped')
  BY RequestKept DEF Others
<1>3. IPanel'
  <2>1. PanelFits'
    BY DEF IPanel, PanelFits
  <2> QED
    BY <1>1, <1>2, <2>1 DEF IPanel
<1>4. ImporterSpins'
  BY ViewTasks, ImporterSpinsKept
<1>5. DeployingHeld'
  BY DEF IHost, HostSpins, DeployingHeld, Live, Others, SameTask
<1>6. AgentsHeld'
  BY DEF IHost, HostSpins, AgentsHeld, Live, At, Others, SameTask
<1>7. ILogs'
  <2>1. call'[c].at # "logs"
    BY IdleIs
  <2>2. CASE call[c].at = "logs"
    BY <2>1, <2>2 DEF IHost, ILogs, At, Others, IOverlap, AloneAt
  <2>3. CASE call[c].at # "logs"
    BY <2>1, <2>3 DEF IHost, ILogs, At, Others
  <2> QED
    BY <2>2, <2>3
<1> QED
  BY <1>3, <1>4, <1>5, <1>6, <1>7 DEF IHost, HostSpins

LEMMA HostFreesFields ==
    ASSUME CallFits, NEW c \in Slots, HostFrees(c)
    PROVE  call'[c] = Idle /\ Others(c)
BY DEF CallFits, HostFrees, Others

(* The continuations of the Agents view keep it too. *)
LEMMA HostContinuesKeep ==
    ASSUME IType, IPanel, ImporterSpins, IHost, IOverlap, overlapped \subseteq overlapped',
           NEW c \in Slots, HostContinues(c), importer' = importer, view' = view
    PROVE  IPanel' /\ ImporterSpins' /\ IHost'
<1> USE DEF IType, TypeOK
<1> DEFINE r == call[c]
<1>1. r \in Requests /\ r # Idle /\ r.live \in BOOLEAN
  BY StandsThere, BusyIs, Continues DEF HostContinues, AgentsListed, HostAnswered, LogsAnswered, At
<1>2. r.task \in HostTasks \union {"logs"}
  <2>1. r.at = "logs" => r.task = "logs"
    BY <1>1 DEF Requests, Stands, ImportTasks, Deploys
  <2> QED
    BY <2>1 DEF HostContinues, AgentsListed, HostAnswered, LogsAnswered, At
<1>3. ASSUME NEW at \in {"list", "targets"}, Goes(c, at)
      PROVE  call'[c] # Idle /\ call'[c].at = at /\ SameTask(c) /\ Others(c)
  BY <1>1, <1>3, GoesFields DEF SameTask
<1>4. CASE ~r.live
  <2>1. host' = host
    BY <1>4 DEF HostContinues, AgentsListed, HostAnswered, LogsAnswered, HostSet
  <2>2. HostFrees(c) \/ \E at \in {"list", "targets"} : Goes(c, at)
    BY DEF HostContinues, AgentsListed, HostAnswered, LogsAnswered, HostReloads
  <2>3. Others(c) /\ (call'[c] = Idle \/ (SameTask(c) /\ call'[c].at \notin {"analyse", "logs"}))
    BY <1>3, <2>2, HostFreesFields
  <2>4. KeyFits'
    BY <2>1 DEF IPanel, KeyFits
  <2> QED
    BY <1>1, <1>2, <1>4, <2>1, <2>3, <2>4, HostContinuesOn
<1>5. ASSUME r.live, NEW state, HostSet(c, state)
      PROVE  host' = state
  BY <1>5 DEF HostSet
<1>6. ASSUME NEW state \in Host
      PROVE  /\ DeployEnds(state).deploying = FALSE /\ DeployEnds(state).key = None
             /\ DeployEnds(state).loading = state.loading
             /\ DeployEnds(state).logs = state.logs /\ DeployEnds(state).logsFor = state.logsFor
  BY DEF DeployEnds, Host
<1>7. CASE r.live
  <2>1. CASE AgentsListed(c)
    <3> DEFINE loaded == [host EXCEPT !.loading = FALSE, !.listed = Labelled,
                                      !.running = {s \in Labelled : container[s].at = "up"},
                                      !.offered = templates]
    <3>1. /\ loaded \in Host /\ ~loaded.loading /\ loaded.deploying = host.deploying
          /\ loaded.logs = host.logs /\ loaded.logsFor = host.logsFor
          /\ loaded.key = host.key /\ loaded.provider = host.provider
      <4>1. Labelled \subseteq Subjects /\ templates \subseteq Agents
        BY DEF Labelled, LabTypeOK
      <4>2. {s \in Labelled : container[s].at = "up"} \in SUBSET Subjects
        BY <4>1
      <4> QED
        BY <4>1, <4>2 DEF Host
    <3>2. r.at = "list" /\ r.task \in HostTasks
      BY <2>1 DEF AgentsListed, At
    <3>3. host' = IF r.task \in Deploys THEN DeployEnds(loaded) ELSE loaded
      BY <1>5, <1>7, <2>1 DEF AgentsListed
    <3> HIDE DEF loaded
    <3>4. /\ ~host'.loading /\ host'.logs = host.logs /\ host'.logsFor = host.logsFor
          /\ r.task \in Deploys => ~host'.deploying
          /\ r.task \notin Deploys => host'.deploying = host.deploying
      BY <1>6, <3>1, <3>3
    <3>5. KeyFits'
      <4>1. CASE r.task \in Deploys
        BY <1>6, <3>1, <3>3, <4>1 DEF KeyFits
      <4>2. CASE r.task \notin Deploys
        BY <3>1, <3>3, <4>2 DEF IPanel, KeyFits
      <4> QED
        BY <4>1, <4>2
    <3>6. Others(c) /\ (call'[c] = Idle \/ (SameTask(c) /\ call'[c].at = "targets"))
      BY <1>3, <2>1, HostFreesFields DEF AgentsListed, HostReloads
    <3> QED
      BY <1>1, <1>2, <1>7, <3>2, <3>4, <3>5, <3>6, HostContinuesOn
  <2>2. CASE HostAnswered(c)
    <3>1. r.at = "answered" /\ r.task \in HostTasks
      BY <2>2 DEF HostAnswered, At
    <3>2. CASE r.ok
      <4>1. /\ Goes(c, "list")
            /\ host' = [host EXCEPT !.loading = TRUE,
                           !.logsFor = IF r.task = "remove" THEN None ELSE host.logsFor]
        BY <1>5, <1>7, <2>2, <3>2 DEF HostAnswered
      <4>2. /\ host'.deploying = host.deploying /\ host'.logs = host.logs
            /\ host'.logsFor \in {None, host.logsFor} /\ KeyFits'
        BY <4>1 DEF Host, IPanel, KeyFits
      <4> QED
        BY <1>1, <1>2, <1>3, <1>7, <3>1, <4>1, <4>2, HostContinuesOn DEF Reloading
    <3>3. CASE ~r.ok
      <4>1. HostFrees(c) /\ host' = IF r.task \in Deploys THEN DeployEnds(host) ELSE host
        BY <1>5, <1>7, <2>2, <3>3 DEF HostAnswered
      <4>2. /\ host'.loading = host.loading /\ host'.logs = host.logs
            /\ host'.logsFor = host.logsFor
            /\ r.task \in Deploys => ~host'.deploying
            /\ r.task \notin Deploys => host'.deploying = host.deploying
        BY <1>6, <4>1
      <4>3. KeyFits'
        <5>1. CASE r.task \in Deploys
          BY <1>6, <4>1, <5>1 DEF KeyFits
        <5>2. CASE r.task \notin Deploys
          BY <4>1, <5>2 DEF IPanel, KeyFits
        <5> QED
          BY <5>1, <5>2
      <4> QED
        BY <1>1, <1>2, <1>7, <3>1, <4>1, <4>2, <4>3, HostFreesFields, HostContinuesOn
    <3> QED
      BY <3>2, <3>3
  <2>3. CASE LogsAnswered(c)
    <3>1. r.at = "logs" /\ HostFrees(c) /\ host' = [host EXCEPT !.logs = r.of]
      BY <1>5, <1>7, <2>3 DEF LogsAnswered, At
    <3>2. r.task = "logs"
      BY <1>1, <3>1 DEF Requests, Stands, ImportTasks, Deploys
    <3>3. /\ host'.deploying = host.deploying /\ host'.logs = r.of
          /\ host'.loading = host.loading /\ host'.logsFor = host.logsFor /\ KeyFits'
      BY <3>1 DEF Host, IPanel, KeyFits
    <3> QED
      BY <1>1, <1>2, <1>7, <3>1, <3>2, <3>3, HostFreesFields, HostContinuesOn DEF Deploys
  <2> QED
    BY <2>1, <2>2, <2>3 DEF HostContinues
<1> QED
  BY <1>1, <1>4, <1>7
-----------------------------------------------------------------------------
(* Both views and the shell. *)

IViews == IOverlap /\ IPanel /\ ImporterSpins /\ IHost

LEMMA InitViews == Init => IViews
<1> SUFFICES ASSUME Init PROVE IViews
  OBVIOUS
<1>1. IType
  BY InitTyped
<1>2. \A c \in Slots : call[c] = Idle
  BY InitIdle
<1>3. PICK p \in IF view = "agents" \/ imported = {} THEN {None} ELSE imported :
         \E d \in Shown(p) :
            importer = [NewImporter EXCEPT !.loading = FALSE, !.listed = imported,
                           !.selected = p, !.analysis = p, !.form.detected = p,
                           !.deployment = d]
  BY DEF Init
<1>4. /\ ~importer.loading /\ ~importer.analyzing /\ importer.busy = Nothing
      /\ importer.selected = p /\ importer.analysis = p /\ importer.form.typed = None
      /\ importer.form.detected = p /\ importer.deployment.of \in {None, p}
  BY <1>3 DEF NewImporter, EmptyForm, Shown, NoDeployment
<1>5. ~host.loading /\ ~host.deploying /\ host.logsFor = None /\ host.key = None
  BY DEF Init, NewHost
<1>6. IPanel
  BY <1>2, <1>4, <1>5 DEF IPanel, PanelFits, KeyFits
<1>7. ImporterSpins /\ IHost
  BY <1>4, <1>5 DEF ImporterSpins, AnalyzingHeld, BusyHeld, LoadingHeld, IHost, HostSpins,
                    DeployingHeld, AgentsHeld, ILogs
<1> QED
  BY <1>6, <1>7, InitOverlap DEF IViews

(* A view is left. *)
LEMMA LeavesViews ==
    ASSUME IType, IPanel, IOverlap', overlapped \subseteq overlapped',
           importer' = NewImporter, host' = NewHost,
           \A c \in Slots : \/ call'[c] = Idle
                            \/ call[c] # Idle /\ call'[c] = [call[c] EXCEPT !.live = FALSE]
                            \/ /\ call'[c] # Idle /\ call'[c].live /\ call'[c].at = "list"
                               /\ call'[c].task \in {"agents", "refresh"},
           \/ view' = "overview"
           \/ \E c \in Slots : /\ call'[c] # Idle /\ call'[c].live /\ call'[c].at = "list"
                               /\ call'[c].task = IF view' = "agents" THEN "agents" ELSE "refresh"
    PROVE  IViews'
<1>1. /\ NewImporter.selected = None /\ ~NewImporter.analyzing /\ NewImporter.busy = Nothing
      /\ NewHost.key = None /\ NewHost.logsFor = None /\ ~NewHost.deploying
  BY DEF NewImporter, NewHost
<1>2. PanelFits' /\ KeyFits'
  BY <1>1 DEF PanelFits, KeyFits
<1>3. ASSUME NEW c \in Slots, call'[c] # Idle
      PROVE  AnalysisFits(call[c])' /\ Sends(call'[c], overlapped')
  <2>1. AnalysisFits(call[c])'
    BY <1>1 DEF AnalysisFits
  <2>2. CASE call[c] # Idle /\ call'[c] = [call[c] EXCEPT !.live = FALSE]
    <3>1. /\ call'[c].task = call[c].task /\ call'[c].form = call[c].form
          /\ call'[c].of = call[c].of
      BY <2>2, BusyIs DEF IType, Requests, Shape
    <3> QED
      BY <2>1, <2>2, <3>1 DEF IPanel, Sends
  <2>3. CASE call'[c].task \in {"agents", "refresh"}
    BY <2>1, <2>3 DEF Sends, Deploys
  <2> QED
    BY <1>3, <2>1, <2>2, <2>3
<1>4. ImporterSpins'
  <2>1. AnalyzingHeld' /\ BusyHeld'
    BY <1>1 DEF AnalyzingHeld, BusyHeld
  <2>2. LoadingHeld'
    BY DEF LoadingHeld, Live, At
  <2> QED
    BY <2>1, <2>2 DEF ImporterSpins
<1>5. IHost'
  <2>1. DeployingHeld' /\ ILogs'
    BY <1>1 DEF DeployingHeld, ILogs
  <2>2. AgentsHeld'
    BY DEF AgentsHeld, Live, At, HostTasks
  <2> QED
    BY <2>1, <2>2 DEF IHost, HostSpins
<1> QED
  BY <1>2, <1>3, <1>4, <1>5 DEF IViews, IPanel

(* Leaving a view starts the next from nothing. *)
LEMMA ShellKeeps ==
    ASSUME IType, IViews, IOverlap', overlapped \subseteq overlapped',
           \/ RunBaselineScan
           \/ \E v \in Views : Navigate(v)
           \/ \E t \in TargetIds : ChooseTarget(t)
           \/ \E c \in Slots : /\ TargetsServed(c) \/ TargetsLoaded(c)
                               /\ UNCHANGED <<importer, host, view>>
    PROVE  IViews'
<1> USE DEF IType, TypeOK
<1>1. \A c \in Slots : /\ call[c] = Idle => Unmounted[c] = Idle
                       /\ call[c] # Idle => Unmounted[c] = [call[c] EXCEPT !.live = FALSE]
  BY UnmountedFits
<1>2. CASE RunBaselineScan
  BY <1>1, <1>2, LeavesViews DEF RunBaselineScan, IViews
<1>3. ASSUME NEW v \in Views, Navigate(v)
      PROVE  IViews'
  <2>1. importer' = NewImporter /\ host' = NewHost /\ view' = v
    BY <1>3 DEF Navigate
  <2>2. CASE v = "overview"
    BY <1>1, <1>3, <2>1, <2>2, LeavesViews DEF Navigate, IViews
  <2>3. CASE v # "overview"
    <3> DEFINE r == Task(IF v = "agents" THEN "agents" ELSE "refresh", None, "list")
    <3>1. HasSlot /\ call' = [Unmounted EXCEPT ![NextSlot] = r]
      BY <1>3, <2>3 DEF Navigate
    <3>2. NextSlot \in Slots /\ call[NextSlot] = Idle
      BY <3>1, NextSlotIsFree
    <3>3. /\ r # Idle /\ r.live /\ r.at = "list"
          /\ r.task = IF v = "agents" THEN "agents" ELSE "refresh"
      BY DEF Task, Call, Idle
    <3> HIDE DEF r
    <3>4. Unmounted \in [Slots -> {Idle} \union Requests]
      BY UnmountedFits
    <3>5. \A c \in Slots : call'[c] = IF c = NextSlot THEN r ELSE Unmounted[c]
      BY <3>1, <3>4
    <3> QED
      BY <1>1, <2>1, <2>3, <3>2, <3>3, <3>5, LeavesViews DEF IViews
  <2> QED
    BY <2>2, <2>3
<1>4. ASSUME NEW t \in TargetIds, ChooseTarget(t)
      PROVE  IViews'
  <2>1. call' = call /\ importer' = importer /\ host' = host /\ view' = view
    BY <1>4 DEF ChooseTarget
  <2>2. KeyFits'
    BY <2>1 DEF IViews, IPanel, KeyFits
  <2> QED
    BY <2>1, <2>2, HostStays DEF IViews
<1>5. ASSUME NEW c \in Slots, TargetsServed(c) \/ TargetsLoaded(c),
             UNCHANGED <<importer, host, view>>
      PROVE  IViews'
  <2>1. call[c] \in Requests /\ call[c] # Idle /\ call[c].at \in Reloading
    BY <1>5, StandsThere, BusyIs DEF TargetsServed, TargetsLoaded, At, Reloading
  <2>2. Others(c) /\ (call'[c] = Idle \/ (SameTask(c) /\ call'[c].at = "offered"))
    <3>1. CASE TargetsServed(c)
      <4>1. call' = [call EXCEPT ![c] = [call[c] EXCEPT !.at = "offered", !.copy = targets]]
        BY <3>1 DEF TargetsServed, CallFits
      <4> QED
        BY <2>1, <4>1 DEF CallFits, Requests, Shape, Others, SameTask, Idle
    <3>2. CASE TargetsLoaded(c)
      BY <3>2, FreesFields DEF TargetsLoaded
    <3> QED
      BY <1>5, <3>1, <3>2
  <2>3. call'[c] # Idle => AnalysisFits(call[c])' /\ Sends(call'[c], overlapped')
    BY <2>1, <2>2 DEF SameTask, IViews, IPanel, AnalysisFits, Sends
  <2>4. \A d \in Slots \ {c} : call'[d] # Idle => AnalysisFits(call[d])' /\ Sends(call'[d], overlapped')
    BY <1>5, <2>2, RequestKept DEF Others, IViews
  <2>5. PanelFits' /\ KeyFits'
    BY <1>5 DEF IViews, IPanel, PanelFits, KeyFits
  <2>6. IPanel'
    BY <2>3, <2>4, <2>5 DEF IPanel
  <2>7. \A d \in Slots : call[d] # Idle /\ call[d].at \notin Reloading => call'[d] = call[d]
    BY <2>1, <2>2 DEF Others
  <2>8. \A d \in Slots : call[d] # Idle /\ call[d].at \in {"list", "analyse", "logs"} => call'[d] = call[d]
    BY <2>7 DEF Reloading
  <2>9. ImporterSpins'
    BY <1>5, <2>7, <2>8 DEF IViews, ImporterSpins, AnalyzingHeld, BusyHeld, LoadingHeld, Live, At
  <2>10. HostSpins'
    BY <1>5, <2>7, <2>8 DEF IViews, IHost, HostSpins, DeployingHeld, AgentsHeld, Live, At
  <2>11. ILogs'
    BY <1>5, <2>1, <2>2, LogsKept, IdleIs DEF IViews, IHost, Reloading
  <2> QED
    BY <2>6, <2>9, <2>10, <2>11 DEF IViews, IHost
<1> QED
  BY <1>2, <1>3, <1>4, <1>5

(* A handler answers to nobody's view. *)
LEMMA HandlerViews ==
    ASSUME IType, IViews, IOverlap', overlapped \subseteq overlapped', NEW c \in Slots,
           CallHandled(c), UNCHANGED <<importer, host, view>>
    PROVE  IViews'
<1> USE DEF IType
<1>1. PICK w \in Requests : Handled(call[c], w) /\ call' = [call EXCEPT ![c] = w]
  BY DEF CallHandled
<1>2. /\ call[c] \in Requests /\ Others(c) /\ call'[c] = w
      /\ w # Idle /\ call[c] # Idle
  BY <1>1 DEF CallHandled, CallFits, Others, Requests, Shape, Idle
<1>3. SameTask(c)
  BY <1>1, <1>2 DEF Handled, Same, Fields, Reply, SameTask
<1>4. call[c].at \notin Reads /\ call'[c].at \notin Reads
  BY <1>1, <1>2 DEF Handled
<1>5. call'[c] # Idle => AnalysisFits(call[c])' /\ Sends(call'[c], overlapped')
  BY <1>2, <1>3, <1>4 DEF SameTask, IViews, IPanel, AnalysisFits, Sends, Reads
<1>6. \A d \in Slots \ {c} : call'[d] # Idle => AnalysisFits(call[d])' /\ Sends(call'[d], overlapped')
  BY <1>2, RequestKept DEF Others, IViews
<1>7. PanelFits' /\ KeyFits'
  BY DEF IViews, IPanel, PanelFits, KeyFits
<1>8. IPanel'
  BY <1>5, <1>6, <1>7 DEF IPanel
<1>9. AnalyzingHeld'
  BY <1>2, <1>4 DEF IViews, ImporterSpins, AnalyzingHeld, Live, At, Others, Reads
<1>10. BusyHeld'
  BY <1>2, <1>3, <1>4 DEF IViews, ImporterSpins, BusyHeld, Live, Others, SameTask, Reads, Reloading
<1>11. LoadingHeld'
  BY <1>2, <1>4 DEF IViews, ImporterSpins, LoadingHeld, Live, At, Others, Reads
<1>12. DeployingHeld'
  BY <1>2, <1>3, <1>4 DEF IViews, IHost, HostSpins, DeployingHeld, Live, Others, SameTask, Reads,
                          Reloading
<1>13. AgentsHeld'
  BY <1>2, <1>4 DEF IViews, IHost, HostSpins, AgentsHeld, Live, At, Others, Reads
<1>14. ILogs'
  BY <1>2, <1>4, LogsKept DEF IViews, IHost, Reads
<1> QED
  BY <1>8, <1>9, <1>10, <1>11, <1>12, <1>13, <1>14 DEF IViews, ImporterSpins, IHost, HostSpins

(* Every step keeps the invariant of the views. *)
LEMMA NextViews == IType /\ IViews /\ [Next]_vars => IViews'
<1> SUFFICES ASSUME IType, IViews, [Next]_vars
             PROVE  IViews'
  OBVIOUS
<1>1. ASSUME Next
      PROVE  IOverlap' /\ overlapped \subseteq overlapped'
  BY <1>1, NextOverlap DEF Next
<1>2. CASE Next /\ Operate
  <2>1. CASE ImporterActs /\ UNCHANGED <<host, shellVars>>
    <3>1. host' = host /\ view' = view
      BY <2>1 DEF shellVars
    <3>2. IPanel' /\ ImporterSpins'
      BY <1>1, <1>2, <2>1, <3>1, ImporterActsKeep DEF IViews
    <3>3. Opened
      BY <2>1, ImporterActsTyped DEF IType, TypeOK
    <3>4. IHost'
      <4>1. CASE call' = call
        BY <1>1, <1>2, <3>1, <4>1 DEF IViews, IHost, HostSpins, DeployingHeld, AgentsHeld, ILogs, Live, At
      <4>2. ASSUME NEW r \in Opening, Begin(r), r.at # "logs"
            PROVE  IHost'
        <5>1. PICK n \in Slots : call[n] = Idle /\ call'[n] = r /\ Others(n)
          BY <4>2, BeginFields DEF IType, Opening
        <5>2. HostSpins'
          BY <3>1, <5>1, HostSpinsKept DEF IViews, IHost
        <5>3. ILogs'
          BY <1>1, <1>2, <3>1, <4>2, <5>1, IdleIs, LogsKept DEF IViews, IHost
        <5> QED
          BY <5>2, <5>3 DEF IHost
      <4> QED
        BY <2>1, <4>1, <4>2, ImporterBegins DEF IType, TypeOK
    <3> QED
      BY <1>1, <1>2, <3>2, <3>4 DEF IViews
  <2>2. CASE HostActs /\ UNCHANGED <<importer, shellVars>>
    BY <1>1, <1>2, <2>2, HostActsKeep DEF IViews, shellVars
  <2>3. CASE \/ RunBaselineScan
             \/ \E v \in Views : Navigate(v)
             \/ \E t \in TargetIds : ChooseTarget(t)
    BY <1>1, <1>2, <2>3, ShellKeeps
  <2> QED
    BY <1>2, <2>1, <2>2, <2>3 DEF Operate
<1>3. CASE Next /\ Handle
  <2>1. PICK c \in Slots : Serving(c)
    BY <1>3 DEF Handle
  <2>2. CallHandled(c)
    BY <2>1, HandlerStep DEF IType, TypeOK
  <2> QED
    BY <1>1, <1>3, <2>2, HandlerViews DEF Handle, shellVars
<1>4. CASE Next /\ Continue
  <2>1. PICK c \in Slots :
           \/ ImporterContinues(c) /\ UNCHANGED <<host, shellVars>>
           \/ HostContinues(c) /\ UNCHANGED <<importer, shellVars>>
           \/ (TargetsServed(c) \/ TargetsLoaded(c)) /\ UNCHANGED <<importer, host, view>>
    BY <1>4 DEF Continue
  <2>2. CASE ImporterContinues(c) /\ UNCHANGED <<host, shellVars>>
    <3>1. host' = host /\ view' = view
      BY <2>2 DEF shellVars
    <3>2. IPanel' /\ ImporterSpins'
      BY <1>1, <1>4, <2>2, <3>1, ImporterContinuesKeep DEF IViews
    <3>3. call[c] \in Requests /\ call[c] # Idle /\ call[c].task \in ProjectTasks \union {"refresh"}
      BY <2>2, ImporterTask DEF IType
    <3>4. Frees(c) \/ \E at \in {"list", "analyse", "targets"} : Goes(c, at)
      BY <2>2 DEF ImporterContinues, ProjectsListed, AnalysisAnswered, ImportAnswered,
                  ProjectRemoved, DeployAnswered, DeploymentRemoved, ReloadTargets
    <3>5. Others(c) /\ call'[c].at # "logs"
      BY <3>3, <3>4, FreesFields, GoesFields, IdleIs DEF IType
    <3>6. HostSpins'
      BY <3>1, <3>3, <3>5, ViewTasks, HostSpinsKept DEF IViews, IHost
    <3>7. call[c].at # "logs"
      BY <2>2 DEF ImporterContinues, ProjectsListed, AnalysisAnswered, ImportAnswered,
                  ProjectRemoved, DeployAnswered, DeploymentRemoved, At
    <3>8. ILogs'
      BY <1>1, <1>4, <3>1, <3>5, <3>7, LogsKept DEF IViews, IHost
    <3> QED
      BY <1>1, <1>4, <3>2, <3>6, <3>8 DEF IViews, IHost
  <2>3. CASE HostContinues(c) /\ UNCHANGED <<importer, shellVars>>
    BY <1>1, <1>4, <2>3, HostContinuesKeep DEF IViews, shellVars
  <2>4. CASE (TargetsServed(c) \/ TargetsLoaded(c)) /\ UNCHANGED <<importer, host, view>>
    BY <1>1, <1>4, <2>4, ShellKeeps
  <2> QED
    BY <2>1, <2>2, <2>3, <2>4
<1>5. CASE UNCHANGED vars
  BY <1>5 DEF vars, labVars, dockerVars, registryVars, shellVars, IViews, IOverlap, AloneAt, At,
     Reloads, IPanel, PanelFits, KeyFits, AnalysisFits, Sends, ImporterSpins, AnalyzingHeld,
     BusyHeld, LoadingHeld, IHost, HostSpins, DeployingHeld, AgentsHeld, ILogs, Live
<1> QED
  BY <1>2, <1>3, <1>4, <1>5 DEF Next

(* What a deploy sends was filled in or detected for its own project, unless *)
(* the analyses of two projects were under way at once, and a key goes to    *)
(* the provider it was typed for.                                            *)
THEOREM LeaksNothing == Spec => []NothingTypedLeaks
<1>1. Init => IType /\ IViews
  BY InitTyped, InitViews
<1>2. IType /\ IViews /\ [Next]_vars => IType' /\ IViews'
  BY NextTyped, NextViews
<1>3. IViews => NothingTypedLeaks
  BY DEF IViews, IPanel, Sends, NothingTypedLeaks
<1> QED
  BY <1>1, <1>2, <1>3, PTL DEF Spec

(* The analysis and the deployment shown are of the selected project, unless  *)
(* two analyses, or a deploy and another selection, were under way at once.   *)
THEOREM PanelOfSelected == Spec => []PanelIsOfSelected
<1>1. Init => IType /\ IViews
  BY InitTyped, InitViews
<1>2. IType /\ IViews /\ [Next]_vars => IType' /\ IViews'
  BY NextTyped, NextViews
<1>3. IViews => PanelIsOfSelected
  BY DEF IViews, IPanel, PanelFits, PanelIsOfSelected
<1> QED
  BY <1>1, <1>2, <1>3, PTL DEF Spec

(* A spinner or a disabled button waits for a request that will release it. *)
THEOREM SpinnersHeld == Spec => []SpinnersWait
<1>1. Init => IType /\ IViews
  BY InitTyped, InitViews
<1>2. IType /\ IViews /\ [Next]_vars => IType' /\ IViews'
  BY NextTyped, NextViews
<1>3. IViews => SpinnersWait
  BY DEF IViews, ImporterSpins, AnalyzingHeld, BusyHeld, LoadingHeld, IHost, HostSpins,
         DeployingHeld, AgentsHeld, Live, At, Reloading, SpinnersWait
<1> QED
  BY <1>1, <1>2, <1>3, PTL DEF Spec

(* The text under an agent is its own once no request for logs is open, *)
(* unless two were open at once.                                        *)
THEOREM LogsOwn == Spec => []LogsBelong
<1>1. Init => IType /\ IViews
  BY InitTyped, InitViews
<1>2. IType /\ IViews /\ [Next]_vars => IType' /\ IViews'
  BY NextTyped, NextViews
<1>3. IViews => LogsBelong
  BY DEF IViews, IHost, ILogs, LogsBelong
<1> QED
  BY <1>1, <1>2, <1>3, PTL DEF Spec
-----------------------------------------------------------------------------
(* The targets the header offers. *)

(* The request will have the shell reload the registry as it is now, or has. *)
Due(c) ==
    /\ call[c] # Idle /\ call[c].task \in Registering
    /\ \/ call[c].at \in {"record", "save", "drop", "dropping", "list", "targets"}
       \/ call[c].at = "answered" /\ call[c].ok
       \/ call[c].at = "offered" /\ Registered(call[c].copy) = Registered(targets)

OffersFit == offers = Registered(targets) \/ \E c \in Slots : Due(c)
AnswersFit ==
    \A c \in Slots : At(c, "offered") =>
        Registered(call[c].copy) = Registered(targets) \/ \E d \in Slots : Due(d)

AllRecorded == \A p \in Projects : <<p, "unrecorded">> \notin spoiled

IOffers == "reloads" \notin overlapped /\ AllRecorded => OffersFit /\ AnswersFit

(* Nothing happens to the header, and what was due still is. *)
LEMMA OffersKept ==
    ASSUME IOffers, overlapped \subseteq overlapped', spoiled \subseteq spoiled',
           offers' = offers, targets' = targets,
           \A c \in Slots : Due(c) => Due(c)',
           \A c \in Slots : At(c, "offered")' => At(c, "offered") /\ call'[c].copy = call[c].copy
    PROVE  IOffers'
<1> SUFFICES ASSUME "reloads" \notin overlapped', AllRecorded'
             PROVE  OffersFit' /\ AnswersFit'
  BY DEF IOffers
<1>1. OffersFit /\ AnswersFit
  BY DEF IOffers, AllRecorded
<1>2. Registered(targets)' = Registered(targets)
  BY DEF Registered
<1>3. OffersFit'
  BY <1>1, <1>2 DEF OffersFit
<1>4. \A c \in Slots : At(c, "offered")' => Registered(call[c].copy)' = Registered(call[c].copy)
  BY DEF Registered
<1>5. AnswersFit'
  BY <1>1, <1>2, <1>4 DEF AnswersFit
<1> QED
  BY <1>3, <1>5

(* A reload that is due serves for all. *)
LEMMA DueServes ==
    ASSUME NEW c \in Slots, Due(c)'
    PROVE  IOffers'
BY DEF IOffers, OffersFit, AnswersFit

LEMMA InitOffers == Init => IOffers
BY InitIdle, IdleIs DEF Init, IOffers, OffersFit, AnswersFit, At

(* The offers are the registered targets, or a reload is due: kept by each kind of step. *)
LEMMA OperateOffers ==
    ASSUME IType, IOffers, overlapped \subseteq overlapped', Operate
    PROVE  IOffers'
<1>1. offers' = offers /\ targets' = targets /\ spoiled \subseteq spoiled'
  BY ConsoleAsks DEF Operate, shellVars, RunBaselineScan, Navigate, ChooseTarget
<1>2. ASSUME NEW c \in Slots
      PROVE  /\ Due(c) => Due(c)'
             /\ At(c, "offered")' => At(c, "offered") /\ call'[c].copy = call[c].copy
  <2>1. Unserved(c)
    BY OperateKeeps
  <2>2. CASE call'[c] = call[c]
    BY <1>1, <2>2 DEF Due, At, Registered
  <2>3. CASE call[c] \in Requests /\ call'[c] = [call[c] EXCEPT !.live = FALSE]
    <3>1. /\ call'[c].at = call[c].at /\ call'[c].task = call[c].task
          /\ call'[c].ok = call[c].ok /\ call'[c].copy = call[c].copy /\ call'[c] # Idle
      BY <2>3 DEF Requests, Shape, Idle
    <3> QED
      BY <1>1, <3>1 DEF Due, At, Registered
  <2>4. CASE call[c] = Idle /\ call'[c] \in Opening
    BY <2>4 DEF Due, At, Opening, FirstSteps
  <2> QED
    BY <2>1, <2>2, <2>3, <2>4 DEF Unserved
<1> QED
  BY <1>1, <1>2, OffersKept

LEMMA HandlerOffers ==
    ASSUME IType, IOffers, overlapped \subseteq overlapped', offers' = offers,
           NEW c \in Slots, Serving(c)
    PROVE  IOffers'
<1> USE DEF IType, TypeOK
<1>1. PICK w \in Requests : Handled(call[c], w) /\ call' = [call EXCEPT ![c] = w]
  BY HandlerStep DEF CallHandled
<1>2. /\ call[c] \in Requests /\ Others(c) /\ call'[c] = w
      /\ w # Idle /\ call[c] # Idle
  BY <1>1, HandlerStep DEF CallHandled, CallFits, Others, Requests, Shape, Idle
<1>3. SameTask(c)
  BY <1>1, <1>2 DEF Handled, Same, Fields, Reply, SameTask
<1>4. call[c].at \notin Reads \union {"answered"} /\ call'[c].at \notin Reads
  BY <1>1, <1>2 DEF Handled
<1>5. CASE WriteTargets(c)
  <2>1. call[c].task \in Registering /\ call[c].after \in {"record", "drop", "answered"}
    BY <1>2, <1>5 DEF WriteTargets, At, Requests, Shape, Stands, Registering
  <2>2. call'[c].at = call[c].after /\ call'[c].ok = (call[c].after = "answered")
    BY <1>2, <1>5, WriteFields
  <2>3. Due(c)'
    BY <1>3, <2>1, <2>2 DEF Due, SameTask
  <2> QED
    BY <2>3, DueServes
<1>6. CASE FileFails(c) /\ call[c].at \in {"save", "dropping"}
  <2>1. <<call[c].of, "unrecorded">> \in spoiled'
    BY <1>6 DEF FileFails, At
  <2>2. call[c].of \in Projects
    BY <1>2, <1>6, AtStep
  <2> QED
    BY <2>1, <2>2 DEF IOffers, AllRecorded
<1>7. CASE ~WriteTargets(c) /\ ~(FileFails(c) /\ call[c].at \in {"save", "dropping"})
  <2>1. targets' = targets
    BY <1>7 DEF Serving, LoadTargets, LoadRecords, FileFails, Importing, CheckImport, Unpack,
       UnpackFails, DeleteProject, Deploying, StartDeploy, StartDeployFails, RunContainer, RunFails,
       HealthPasses, HealthFails, CleanUpFails, SaveDeployment, Undeploying, RemoveContainer,
       RemoveContainerFails, DropRecords, Hosting, RunAgent, RunAgentFails, StopAgent, StartAgent,
       RemoveAgent, SaveTemplate, DeleteTemplate, registryVars
  <2>2. Due(c) => Due(c)'
    <3> SUFFICES ASSUME Due(c) PROVE Due(c)'
      OBVIOUS
    <3>1. call[c].at \in {"record", "save", "drop", "dropping"}
      BY <1>4 DEF Due, Reads
    <3>2. LoadRecords(c) \/ SaveDeployment(c) \/ DropRecords(c)
      BY <1>7, <3>1 DEF Serving, LoadTargets, WriteTargets, FileFails, Importing, CheckImport,
         Unpack, UnpackFails, DeleteProject, Deploying, StartDeploy, StartDeployFails,
         RunContainer, RunFails, HealthPasses, HealthFails, CleanUpFails, Undeploying,
         RemoveContainer, RemoveContainerFails, Hosting, RunAgent, RunAgentFails, StopAgent,
         StartAgent, RemoveAgent, SaveTemplate, DeleteTemplate, At
    <3>3. \/ call'[c].at \in {"save", "dropping"}
          \/ call'[c].at = "answered" /\ call'[c].ok
      BY <1>2, <3>2, ReadFields, DroppedFields, RecordedFields
    <3> QED
      BY <1>3, <3>3 DEF Due, SameTask
  <2>3. \A d \in Slots \ {c} : Due(d) => Due(d)'
    BY <1>2, <2>1 DEF Due, Others, Registered
  <2>4. ASSUME NEW d \in Slots, At(d, "offered")'
        PROVE  At(d, "offered") /\ call'[d].copy = call[d].copy
    BY <1>2, <1>4, <2>4 DEF At, Others, Reads
  <2>5. spoiled \subseteq spoiled'
    BY ServedRecords DEF LabTypeOK
  <2> QED
    BY <2>1, <2>2, <2>3, <2>4, <2>5, OffersKept
<1> QED
  BY <1>5, <1>6, <1>7

LEMMA ContinueOffers ==
    ASSUME IType, IOverlap, IOffers, overlapped \subseteq overlapped', Continue
    PROVE  IOffers'
<1> USE DEF IType, TypeOK
<1>1. targets' = targets /\ spoiled' = spoiled
  BY ConsoleAsks
<1>2. PICK c \in Slots :
         \/ ImporterContinues(c) /\ UNCHANGED <<host, shellVars>>
         \/ HostContinues(c) /\ UNCHANGED <<importer, shellVars>>
         \/ (TargetsServed(c) \/ TargetsLoaded(c)) /\ UNCHANGED <<importer, host, view>>
  BY DEF Continue
<1>3. CASE (ImporterContinues(c) \/ HostContinues(c)) /\ UNCHANGED shellVars
  <2>1. call[c].at \in {"list", "answered", "analyse", "logs"}
    BY <1>3 DEF ImporterContinues, ProjectsListed, AnalysisAnswered, ImportAnswered, ProjectRemoved,
       DeployAnswered, DeploymentRemoved, HostContinues, AgentsListed, HostAnswered, LogsAnswered, At
  <2>2. call[c] \in Requests
    BY <2>1, StandsThere
  <2>3. Frees(c) \/ HostFrees(c) \/ \E at \in {"list", "analyse", "targets"} : Goes(c, at)
    BY <1>3 DEF ImporterContinues, ProjectsListed, AnalysisAnswered, ImportAnswered, ProjectRemoved,
       DeployAnswered, DeploymentRemoved, ReloadTargets, HostContinues, AgentsListed, HostAnswered,
       LogsAnswered, HostReloads
  <2>4. Others(c) /\ (call'[c] = Idle \/ call'[c].at \in {"list", "analyse", "targets"})
    BY <2>2, <2>3, FreesFields, HostFreesFields, GoesFields
  <2>5. Due(c) => Due(c)'
    <3> SUFFICES ASSUME Due(c) PROVE Due(c)'
      OBVIOUS
    <3>1. call[c].task \in Registering
      BY DEF Due
    <3>2. Goes(c, "list") \/ Goes(c, "targets")
      <4>1. CASE call[c].at = "list"
        <5>1. call[c].task \in Deploys \union {"remove"}
          BY <2>2, <3>1, <4>1 DEF Requests, Stands, Registering, ImportTasks, Deploys
        <5> QED
          BY <1>3, <4>1, <5>1 DEF ImporterContinues, ProjectsListed, AnalysisAnswered,
             ImportAnswered, ProjectRemoved, DeployAnswered, DeploymentRemoved, HostContinues,
             AgentsListed, HostAnswered, LogsAnswered, HostReloads, At, ImportTasks, Deploys
      <4>2. CASE call[c].at = "answered" /\ call[c].ok
        BY <1>3, <3>1, <4>2 DEF ImporterContinues, ProjectsListed, AnalysisAnswered,
           ImportAnswered, ProjectRemoved, DeployAnswered, DeploymentRemoved, ReloadTargets,
           HostContinues, AgentsListed, HostAnswered, LogsAnswered, At, ImportTasks, Deploys,
           Registering
      <4> QED
        BY <2>1, <4>1, <4>2 DEF Due
    <3> QED
      BY <2>2, <3>1, <3>2, GoesFields DEF Due, SameTask
  <2>6. \A d \in Slots \ {c} : Due(d) => Due(d)'
    BY <1>1, <2>4 DEF Due, Others, Registered
  <2>7. ASSUME NEW d \in Slots, At(d, "offered")'
        PROVE  At(d, "offered") /\ call'[d].copy = call[d].copy
    BY <2>4, <2>7, IdleIs DEF At, Others
  <2>8. offers' = offers
    BY <1>3 DEF shellVars
  <2> QED
    BY <1>1, <2>5, <2>6, <2>7, <2>8, OffersKept
<1>4. CASE TargetsServed(c)
  <2>1. call[c] \in Requests /\ call[c].at = "targets"
    BY <1>4, StandsThere DEF TargetsServed, At
  <2>2. call' = [call EXCEPT ![c] = [call[c] EXCEPT !.at = "offered", !.copy = targets]]
    BY <1>4 DEF TargetsServed, CallFits
  <2>3. /\ call'[c] # Idle /\ call'[c].at = "offered" /\ call'[c].copy = targets
        /\ call'[c].task = call[c].task
    BY <2>1, <2>2 DEF CallFits, Requests, Shape, Idle
  <2>4. call[c].task \in Registering
    BY <2>1 DEF Requests, Stands, Registering
  <2>5. Due(c)'
    BY <1>1, <2>3, <2>4 DEF Due
  <2> QED
    BY <2>5, DueServes
<1>5. CASE TargetsLoaded(c)
  <2> SUFFICES ASSUME "reloads" \notin overlapped', AllRecorded'
               PROVE  OffersFit' /\ AnswersFit'
    BY DEF IOffers
  <2>1. /\ call[c].at = "offered" /\ offers' = Registered(call[c].copy)
        /\ call'[c] = Idle /\ Others(c)
    BY <1>5, FreesFields DEF TargetsLoaded, At
  <2>2. Registered(call[c].copy) = Registered(targets) \/ \E d \in Slots : Due(d)
    BY <1>1, <2>1 DEF IOffers, AllRecorded, AnswersFit, At
  <2>3. OffersFit'
    <3>1. CASE Registered(call[c].copy) = Registered(targets)
      BY <1>1, <2>1, <3>1 DEF OffersFit, Registered
    <3>2. CASE Registered(call[c].copy) # Registered(targets)
      <4>1. PICK d \in Slots : Due(d)
        BY <2>2, <3>2
      <4>2. d # c
        BY <2>1, <3>2, <4>1 DEF Due
      <4>3. Due(d)'
        BY <1>1, <2>1, <4>1, <4>2 DEF Due, Others, Registered
      <4> QED
        BY <4>3 DEF OffersFit
    <3> QED
      BY <3>1, <3>2
  <2>4. \A d \in Slots : ~At(d, "offered")'
    BY <2>1, IdleIs DEF IOverlap, At, Others, Reloading
  <2> QED
    BY <2>3, <2>4 DEF AnswersFit
<1> QED
  BY <1>2, <1>3, <1>4, <1>5

(* Every step keeps the invariant of the offers. *)
LEMMA NextOffers == IType /\ IViews /\ IOffers /\ [Next]_vars => IOffers'
<1> SUFFICES ASSUME IType, IViews, IOffers, [Next]_vars
             PROVE  IOffers'
  OBVIOUS
<1>1. CASE Next
  <2>1. overlapped \subseteq overlapped'
    BY <1>1 DEF Next
  <2>2. CASE Operate
    BY <2>1, <2>2, OperateOffers
  <2>3. CASE Handle
    BY <2>1, <2>3, HandlerOffers DEF Handle, shellVars
  <2>4. CASE Continue
    BY <2>1, <2>4, ContinueOffers DEF IViews
  <2> QED
    BY <1>1, <2>2, <2>3, <2>4 DEF Next
<1>2. CASE UNCHANGED vars
  BY <1>2 DEF vars, labVars, dockerVars, registryVars, shellVars, IOffers, AllRecorded, OffersFit,
     AnswersFit, Due, At, Registered
<1> QED
  BY <1>1, <1>2

(* With no request open the header offers exactly the registered targets, unless *)
(* two reloads were open at once or a record could not be written.               *)
THEOREM OffersRegistered == Spec => []OffersAreRegistered
<1>1. Init => IType /\ IViews /\ IOffers
  BY InitTyped, InitViews, InitOffers
<1>2. IType /\ IViews /\ IOffers /\ [Next]_vars => IType' /\ IViews' /\ IOffers'
  BY NextTyped, NextViews, NextOffers
<1>3. IOffers => OffersAreRegistered
  BY DEF IOffers, AllRecorded, OffersFit, Due, OffersAreRegistered
<1> QED
  BY <1>1, <1>2, <1>3, PTL DEF Spec

(* A reload takes the scan target from the operator only when it is not offered, *)
(* unless it was chosen while a reload was due.                                  *)
THEOREM ChoiceKept == Spec => ChoiceIsKept
<1> DEFINE Keeps == offers' # offers /\ "chosen" \notin overlapped =>
                       /\ scanTarget' \in offers' \union {None}
                       /\ scanTarget \in offers' => scanTarget' = scanTarget
<1>1. Init => IType /\ IViews
  BY InitTyped, InitViews
<1>2. IType /\ IViews /\ [Next]_vars => IType' /\ IViews'
  BY NextTyped, NextViews
<1>3. IType /\ IViews /\ [Next]_vars => [Keeps]_vars
  <2> SUFFICES ASSUME IType, IViews, [Next]_vars, offers' # offers, "chosen" \notin overlapped
               PROVE  /\ scanTarget' \in offers' \union {None}
                      /\ scanTarget \in offers' => scanTarget' = scanTarget
    OBVIOUS
  <2>1. Continue
    BY DEF Next, Operate, Handle, shellVars, RunBaselineScan, Navigate, ChooseTarget, vars
  <2>2. PICK c \in Slots : TargetsLoaded(c)
    BY <2>1 DEF Continue, shellVars, TargetsServed
  <2>3. call[c] \in Requests /\ call[c] # Idle /\ call[c].at = "offered"
    BY <2>2, StandsThere, BusyIs DEF TargetsLoaded, At, IType
  <2>4. Reloads(call[c])
    BY <2>3 DEF Requests, Stands, Reloads
  <2>5. call[c].saw = scanTarget
    BY <2>4 DEF IViews, IOverlap
  <2>6. scanTarget' \in Choice(scanTarget, offers')
    BY <2>2, <2>5 DEF TargetsLoaded
  <2> QED
    BY <2>6 DEF Choice
<1> QED
  BY <1>1, <1>2, <1>3, PTL DEF Spec, ChoiceIsKept
-----------------------------------------------------------------------------
(* The server: containers, records and targets, subject by subject. *)

(* The records of the file, and of the copies that are to be written back. *)
Filed ==
    records \union UNION {call[c].copy : c \in {c \in Slots : call[c].at \in {"save", "dropping"}}}

(* A deployment of the project p may have the id: no other project has. *)
Knows(id, p) == id <= stamps /\ \A d \in Filed : d.id = id => d.of = p

IRecords ==
    /\ \A d \in Filed : d.id \in 1..stamps /\ d.target \in {d.of} \X TargetTypes
    /\ Knows(importer.deployment.id, importer.deployment.of)
    /\ \A c \in Slots : call[c] # Idle =>
          /\ call[c].task = "undeploy" /\ call[c].at \notin Reads => Knows(call[c].id, call[c].of)
          /\ call[c].task = "deploy" /\ call[c].at = "answered" /\ call[c].ok
                => Knows(call[c].id, call[c].of)

(* What a request changes in the registry. *)
EditFits(r) ==
    /\ r.at \in {"load", "write"} =>
          /\ r.task = "deploy" => r.ids = {LabTarget(r.of, r.form.type)}
          /\ r.task = "undeploy" => r.ids \subseteq {r.of} \X TargetTypes /\ r.url = None
          /\ r.task \in Deploys => r.ids = {AgentTarget(r.of)} /\ r.url = AgentUrl
          /\ r.task = "remove" =>
                /\ r.url = None
                /\ r.of \in Agents => AgentTarget(r.of) \in r.ids
                /\ \A t \in r.ids : \E a \in Agents :
                      t = AgentTarget(a) /\ (a = r.of \/ <<a, "image">> \in spoiled)
    /\ r.task = "deploy" /\ r.at \in {"load", "write", "record", "save"} =>
          r.url \in Ports \union {External}
    /\ r.task \in Deploys /\ r.at = "run-agent" => r.of \in Custom \/ r.form.publishes

IEdits == \A c \in Slots : call[c] # Idle => EditFits(call[c])

(* No port is published twice. *)
IPorts ==
    \A s, t \in Subjects :
        /\ container[s].at = "up" /\ container[t].at = "up"
        /\ container[s].port = container[t].port /\ container[s].port \in Ports
        => s = t

(* The request is being served, for s. *)
Works(c, s) == call[c].at \notin Reads \union {"idle", "answered"} /\ call[c].of = s

Alone(s) == \A c, d \in Slots : Works(c, s) /\ Works(d, s) => c = d

Url(p, type) == targets[LabTarget(p, type)]

(* What holds of a subject while no request works on it. *)
Accounted(p) == container[p].at = "up" => RecordsOf(p) # {}

Alive(p) ==
    \A type \in TargetTypes : Url(p, type) \in Ports => container[p] = Running(Url(p, type), TRUE)

Backed(p, types) ==
    \A type \in types : Url(p, type) \in Ports =>
        \E d \in RecordsOf(p) : d.target = LabTarget(p, type)

Together(a) ==
    /\ targets[AgentTarget(a)] # None => container[a] # Absent
    /\ a \notin Custom /\ container[a] # Absent => targets[AgentTarget(a)] # None

Tracked(p) ==
    \A why \in {"docker", "unsaved", "unrecorded", "overwritten", "agents"} : <<p, why>> \notin spoiled
Trusted(s) == ~staleWrite /\ \A why \in SpoiledBy : <<s, why>> \notin spoiled

Rests(s) ==
    /\ s \in Projects /\ Tracked(s) => Accounted(s)
    /\ s \in Projects /\ Trusted(s) => Alive(s) /\ Backed(s, TargetTypes)
    /\ s \in Agents /\ Trusted(s) => Together(s)

(* What holds while one does, at each of its stages. *)
Editing(r) == r.at \in {"load", "write"}
Recording(r) == r.at \in {"record", "save"}
Clears(r) == r.task = "undeploy" /\ r.at \in {"load", "write", "drop", "dropping"}
Raises(r) ==
    /\ r.task = "deploy"
    /\ r.at = "health" \/ ((Editing(r) \/ Recording(r)) /\ r.url \in Ports)

AccountStage(r) ==
    /\ Clears(r) => container[r.of].at # "up"
    /\ Raises(r) \/ Accounted(r.of)

(* The types whose target has its record: all, but the one that is recorded next. *)
BackedTypes(r) == TargetTypes \ (IF Raises(r) /\ Recording(r) THEN {r.form.type} ELSE {})

AliveStage(r) ==
    LET p == r.of IN
    /\ r.task = "deploy" /\ r.at = "run" => container[p] = Absent \/ Alive(p)
    /\ r.task = "deploy" /\ r.at = "health" => \E b \in BOOLEAN : container[p] = Running(r.url, b)
    /\ r.task = "deploy" /\ Editing(r) /\ r.url \in Ports =>
          /\ container[p] = Running(r.url, TRUE)
          /\ \A type \in TargetTypes \ {r.form.type} : Url(p, type) \in Ports => Url(p, type) = r.url
    /\ Clears(r) => \A type \in TargetTypes : Url(p, type) \in Ports =>
                       Editing(r) /\ LabTarget(p, type) \in r.ids
    /\ Clears(r) /\ r.at = "write" =>
          \A type \in TargetTypes : r.copy[LabTarget(p, type)] = Url(p, type)
    /\ Backed(p, BackedTypes(r))
    /\ \/ Alive(p)
       \/ r.task = "deploy" /\ r.at = "run"
       \/ Raises(r) /\ ~Recording(r)
       \/ Clears(r)

AgentStage(r) ==
    LET a == r.of IN
    /\ r.task \in Deploys /\ Editing(r) => container[a] # Absent
    /\ r.task = "remove" /\ Editing(r) => container[a] = Absent
    /\ r.task = "remove" /\ r.at = "write" => r.copy[AgentTarget(a)] = targets[AgentTarget(a)]
    /\ Together(a) \/ (r.task \in Deploys \union {"remove"} /\ Editing(r))

Stage(r) ==
    /\ r.of \in Projects /\ Tracked(r.of) => AccountStage(r)
    /\ r.of \in Projects /\ Trusted(r.of) => AliveStage(r)
    /\ r.of \in Agents /\ Trusted(r.of) => AgentStage(r)

Fits(s) ==
    /\ Alone(s)
    /\ (\A c \in Slots : ~Works(c, s)) => Rests(s)
    /\ \A c \in Slots : Works(c, s) => Stage(call[c])

IFits == \A s \in Subjects \ overlapped : Fits(s)

IServer == IRecords /\ IEdits /\ IPorts /\ IFits

(* A handler's action belongs to the task of its request. *)
LEMMA WhoServes ==
    ASSUME CallFits, NEW c \in Slots, Serving(c)
    PROVE  /\ call[c] \in Requests /\ call[c] # Idle
           /\ call[c].at \notin Reads \union {"idle", "answered"}
           /\ \/ call[c].task \in ImportTasks \union {"delete"} /\ Importing(c)
              \/ call[c].task = "deploy" /\ (LoadTargets(c) \/ WriteTargets(c) \/ Deploying(c))
              \/ call[c].task = "undeploy" /\ (LoadTargets(c) \/ WriteTargets(c) \/ Undeploying(c))
              \/ /\ call[c].task \in Deploys
                 /\ LoadTargets(c) \/ WriteTargets(c) \/ RunAgent(c) \/ RunAgentFails(c)
              \/ call[c].task = "remove" /\ (LoadTargets(c) \/ WriteTargets(c) \/ RemoveAgent(c))
              \/ call[c].task = "stop" /\ StopAgent(c)
              \/ call[c].task = "start" /\ StartAgent(c)
              \/ call[c].task = "save-template" /\ SaveTemplate(c)
              \/ call[c].task = "delete-template" /\ DeleteTemplate(c)
              \/ call[c].task \in {"deploy", "undeploy"} /\ LoadRecords(c)
              \/ call[c].task \in Registering /\ FileFails(c)
<1>1. ASSUME Importing(c)
      PROVE  call[c].at \in {"import", "unpack", "delete"}
  BY <1>1 DEF Importing, CheckImport, Unpack, UnpackFails, DeleteProject, At
<1>2. ASSUME Deploying(c)
      PROVE  call[c].at \in {"deploy", "run", "health", "save"}
  BY <1>2 DEF Deploying, StartDeploy, StartDeployFails, RunContainer, RunFails, HealthPasses,
     HealthFails, CleanUpFails, SaveDeployment, At
<1>3. ASSUME Undeploying(c)
      PROVE  call[c].at \in {"undeploy", "dropping"}
  BY <1>3 DEF Undeploying, RemoveContainer, RemoveContainerFails, DropRecords, At
<1>4. /\ LoadTargets(c) \/ WriteTargets(c) => call[c].at \in {"load", "write"}
      /\ LoadRecords(c) => call[c].at \in {"record", "drop"}
      /\ FileFails(c) => call[c].at \in {"write", "save", "dropping"}
  BY DEF LoadTargets, WriteTargets, LoadRecords, FileFails, At
<1>5. /\ RunAgent(c) \/ RunAgentFails(c) => call[c].at = "run-agent"
      /\ StopAgent(c) => call[c].at = "stop"
      /\ StartAgent(c) => call[c].at = "start"
      /\ RemoveAgent(c) => call[c].at = "remove"
      /\ SaveTemplate(c) => call[c].at = "save-template"
      /\ DeleteTemplate(c) => call[c].at = "delete-template"
  BY DEF RunAgent, RunAgentFails, StopAgent, StartAgent, RemoveAgent, SaveTemplate,
     DeleteTemplate, At
<1>6. call[c].at \notin Reads \union {"idle", "answered"}
  BY <1>1, <1>2, <1>3, <1>4, <1>5 DEF Serving, Hosting, Reads
<1>7. call[c] \in Requests /\ call[c] # Idle
  BY <1>6, StandsThere, BusyIs
<1>8. Stands(call[c])
  BY <1>7 DEF Requests
<1>9. CASE LoadTargets(c) \/ WriteTargets(c)
  BY <1>4, <1>6, <1>7, <1>8, <1>9 DEF Stands, ImportTasks, Deploys
<1>10. CASE Importing(c)
  BY <1>1, <1>6, <1>7, <1>8, <1>10 DEF Stands, ImportTasks, Deploys
<1>11. CASE Deploying(c)
  BY <1>2, <1>6, <1>7, <1>8, <1>11 DEF Stands, ImportTasks, Deploys
<1>12. CASE Undeploying(c)
  BY <1>3, <1>6, <1>7, <1>8, <1>12 DEF Stands, ImportTasks, Deploys
<1>13. CASE Hosting(c)
  BY <1>5, <1>6, <1>7, <1>8, <1>13 DEF Hosting, Stands, ImportTasks, Deploys
<1>14. CASE LoadRecords(c)
  BY <1>4, <1>6, <1>7, <1>8, <1>14 DEF Stands, ImportTasks, Deploys
<1>15. CASE FileFails(c)
  BY <1>4, <1>6, <1>7, <1>8, <1>15 DEF Stands, ImportTasks, Registering
<1> QED
  BY <1>9, <1>10, <1>11, <1>12, <1>13, <1>14, <1>15 DEF Serving

(* What a handler leaves of its request. *)
LEMMA ServedCall ==
    ASSUME CallFits, LabTypeOK, NEW c \in Slots, Serving(c)
    PROVE  /\ Others(c) /\ SameTask(c) /\ call'[c] \in Requests /\ call'[c].at \notin Reads
           /\ \A s : Works(c, s)' <=> s = call[c].of /\ call'[c].at # "answered"
           /\ \A d \in Slots \ {c} : \A s : Works(d, s)' <=> Works(d, s)
<1>1. PICK w \in Requests : Handled(call[c], w) /\ call' = [call EXCEPT ![c] = w]
  BY HandlerStep DEF CallHandled
<1>2. call[c] \in Requests /\ Others(c) /\ call'[c] = w /\ w # Idle /\ call[c] # Idle
  BY <1>1, HandlerStep DEF CallHandled, CallFits, Others, Requests, Shape, Idle
<1>3. SameTask(c)
  BY <1>1, <1>2 DEF Handled, Same, Fields, Reply, SameTask
<1>4. call'[c].at \notin Reads /\ call'[c].at # "idle"
  BY <1>1, <1>2 DEF Handled, Requests, Shape, Steps, Reads
<1> QED
  BY <1>2, <1>3, <1>4 DEF Works, Others, SameTask

(* What a handler does to its id, its container's name and the records. *)
LEMMA KnowsKept ==
    ASSUME stamps \in Nat, stamps' \in {stamps, stamps + 1}, NEW id \in Nat, NEW p, Knows(id, p),
           \A d \in Filed' : d \in Filed \/ d.id = stamps + 1
    PROVE  Knows(id, p)'
BY DEF Knows

LEMMA ServedId ==
    ASSUME CallFits, LabTypeOK, NEW c \in Slots, Serving(c)
    PROVE  /\ call[c].task = "undeploy" => call'[c].id = call[c].id
           /\ call[c].task = "deploy" /\ call'[c].at = "answered" /\ call'[c].ok
                 => SaveDeployment(c)
<1>1. call[c] \in Requests
  BY WhoServes
<1>2. CASE call[c].task = "undeploy"
  <2>1. CASE LoadTargets(c)
    BY <1>1, <1>2, <2>1, LoadFields
  <2>2. CASE WriteTargets(c)
    BY <1>1, <1>2, <2>2, WriteFields
  <2>3. CASE RemoveContainer(c)
    BY <1>1, <1>2, <2>3, AnswersFields, EditsFields DEF RemoveContainer
  <2>4. CASE RemoveContainerFails(c)
    BY <1>1, <1>2, <2>4, AnswersFields, EditsFields DEF RemoveContainerFails
  <2>5. CASE DropRecords(c) \/ LoadRecords(c) \/ FileFails(c)
    BY <1>1, <1>2, <2>5, DroppedFields, ReadFields, FailedFields
  <2> QED
    BY <1>2, <2>1, <2>2, <2>3, <2>4, <2>5, WhoServes DEF Undeploying, ImportTasks, Deploys
<1>3. CASE call[c].task = "deploy"
  <2>1. CASE LoadTargets(c)
    BY <1>1, <1>3, <2>1, LoadFields
  <2>2. CASE WriteTargets(c)
    BY <1>1, <1>3, <2>2, WriteFields DEF WriteTargets, At, Requests, Stands, ImportTasks, Deploys
  <2>3. CASE StartDeploy(c)
    BY <1>1, <1>3, <2>3, GoesFields, EditsFields DEF StartDeploy
  <2>4. CASE StartDeployFails(c) \/ RunFails(c) \/ HealthFails(c) \/ CleanUpFails(c)
    BY <1>1, <1>3, <2>4, AnswersFields DEF StartDeployFails, RunFails, HealthFails, CleanUpFails
  <2>5. CASE RunContainer(c)
    BY <1>1, <1>3, <2>5, AnswersFields, StartedFields DEF RunContainer
  <2>6. CASE HealthPasses(c)
    BY <1>1, <1>3, <2>6, EditsFields DEF HealthPasses
  <2>7. CASE SaveDeployment(c)
    BY <1>3, <2>7
  <2>8. CASE LoadRecords(c) \/ FileFails(c)
    BY <1>1, <1>3, <2>8, ReadFields, FailedFields
  <2> QED
    BY <1>3, <2>1, <2>2, <2>3, <2>4, <2>5, <2>6, <2>7, <2>8, WhoServes
       DEF Deploying, ImportTasks, Deploys
<1> QED
  BY <1>2, <1>3

(* Where a record may come from: the file, or a copy of it. *)
LEMMA FiledIs ==
    /\ \A d : d \in Filed <=>
          \/ d \in records
          \/ \E c \in Slots : call[c].at \in {"save", "dropping"} /\ d \in call[c].copy
    /\ \A d : d \in Filed' <=>
          \/ d \in records'
          \/ \E c \in Slots : call'[c].at \in {"save", "dropping"} /\ d \in call'[c].copy
BY DEF Filed

LEMMA CopiesOnly ==
    ASSUME CallFits, LabTypeOK, NEW c \in Slots, Serving(c), call'[c].at \in {"save", "dropping"}
    PROVE  LoadRecords(c)
<1>1. call[c] \in Requests
  BY WhoServes
<1>2. ASSUME NEW ok, Answers(c, ok)
      PROVE  FALSE
  BY <1>1, <1>2, AnswersFields
<1>3. ASSUME NEW ids, NEW url, NEW after, Edits(c, ids, url, after)
      PROVE  FALSE
  BY <1>1, <1>3, EditsFields
<1>4. ASSUME NEW at \in {"unpack", "run"}, Goes(c, at)
      PROVE  FALSE
  BY <1>1, <1>4, GoesFields
<1>5. ~LoadTargets(c) /\ ~WriteTargets(c)
  <2>1. call[c].after \in {"answered", "record", "drop"}
    BY <1>1 DEF Requests, Shape
  <2> QED
    BY <1>1, <2>1, LoadFields, WriteFields
<1>6. ~FileFails(c) /\ ~SaveDeployment(c) /\ ~DropRecords(c)
  BY <1>1, FailedFields, RecordedFields, DroppedFields
<1>7. ~Importing(c)
  BY <1>2, <1>4 DEF Importing, CheckImport, Unpack, UnpackFails, DeleteProject
<1>8. ~RunContainer(c)
  <2>1. ASSUME NEW port, call' = [call EXCEPT ![c].at = "health", ![c].url = port]
        PROVE  FALSE
    BY <1>1, <2>1, StartedFields
  <2> QED
    BY <1>2, <2>1 DEF RunContainer
<1>9. ~Deploying(c)
  BY <1>2, <1>3, <1>4, <1>6, <1>8 DEF Deploying, StartDeploy, StartDeployFails, RunFails,
     HealthPasses, HealthFails, CleanUpFails
<1>10. ~Undeploying(c)
  BY <1>2, <1>3, <1>6 DEF Undeploying, RemoveContainer, RemoveContainerFails
<1>11. ~Hosting(c)
  BY <1>2, <1>3 DEF Hosting, RunAgent, RunAgentFails, StopAgent, StartAgent, RemoveAgent,
     SaveTemplate, DeleteTemplate
<1> QED
  BY <1>5, <1>6, <1>7, <1>9, <1>10, <1>11 DEF Serving

LEMMA HandlerFiled ==
    ASSUME CallFits, LabTypeOK, NEW c \in Slots, Serving(c), NEW d \in Filed'
    PROVE  d \in Filed \/ (SaveDeployment(c) /\ d = NewRecord(c))
<1>1. call[c] \in Requests /\ Others(c)
  BY WhoServes, ServedCall
<1>2. \A r \in records : r \in Filed
  BY FiledIs
<1>3. call[c].at \in {"save", "dropping"} => \A r \in call[c].copy : r \in Filed
  BY FiledIs
<1>4. CASE d \in records'
  <2>1. CASE SaveDeployment(c)
    BY <1>3, <1>4, <2>1 DEF SaveDeployment, WriteRecords, At
  <2>2. CASE DropRecords(c)
    <3>1. call[c].at = "dropping" /\ (records' = records \/ records' \subseteq call[c].copy)
      BY <2>2 DEF DropRecords, WriteRecords, At
    <3> QED
      BY <1>2, <1>3, <1>4, <3>1
  <2>3. CASE records' = records
    BY <1>2, <1>4, <2>3
  <2> QED
    BY <2>1, <2>2, <2>3, ServedRecords DEF LabTypeOK
<1>5. ASSUME NEW e \in Slots, call'[e].at \in {"save", "dropping"}, d \in call'[e].copy
      PROVE  d \in Filed
  <2>1. CASE e = c
    BY <1>1, <1>2, <1>5, <2>1, CopiesOnly, ReadFields
  <2>2. CASE e # c
    BY <1>1, <1>5, <2>2, FiledIs DEF Others
  <2> QED
    BY <2>1, <2>2
<1> QED
  BY <1>4, <1>5, FiledIs

(* A handler keeps the records consistent, and who may ask for them. *)
LEMMA HandlerRecords ==
    ASSUME IType, IRecords, NEW c \in Slots, Serving(c), importer' = importer
    PROVE  IRecords'
<1> USE DEF IType, TypeOK
<1>1. /\ call[c] \in Requests /\ call[c] # Idle
      /\ Others(c) /\ SameTask(c) /\ call'[c] \in Requests
  BY WhoServes, ServedCall
<1>2. /\ stamps \in Nat /\ records \subseteq Record /\ importer.deployment.id \in Nat
      /\ \A d \in Slots : call[d] # Idle => call[d].id \in Nat
  BY BusyIs DEF LabTypeOK, Importer, Deployment, NoDeployment, Shape
<1>3. /\ stamps' \in {stamps, stamps + 1}
      /\ \A d \in Filed' : d \in Filed \/ d.id = stamps + 1
      /\ \A d \in Filed' : d.id \in 1..stamps' /\ d.target \in {d.of} \X TargetTypes
  <2>1. stamps' = IF SaveDeployment(c) THEN stamps + 1 ELSE stamps
    BY ServedRecords DEF SaveDeployment, DropRecords, LabTypeOK
  <2>2. SaveDeployment(c) => /\ NewRecord(c).id = stamps + 1
                             /\ NewRecord(c).target \in {NewRecord(c).of} \X TargetTypes
    <3>1. SaveDeployment(c) => call[c].of \in Projects /\ call[c].form \in Form
      BY <1>1, AtStep DEF SaveDeployment, At
    <3> QED
      BY <3>1 DEF NewRecord, LabTarget, Form
  <2>3. \A d \in Filed : d.id \in 1..stamps /\ d.target \in {d.of} \X TargetTypes
    BY DEF IRecords
  <2>4. \A d \in Filed' : d \in Filed \/ (SaveDeployment(c) /\ d = NewRecord(c))
    BY HandlerFiled
  <2> QED
    BY <1>2, <2>1, <2>2, <2>3, <2>4
<1>4. Knows(importer.deployment.id, importer.deployment.of)'
  BY <1>2, <1>3, KnowsKept DEF IRecords
<1>5. ASSUME NEW d \in Slots \ {c}, call'[d] # Idle
      PROVE  /\ call'[d].task = "undeploy" /\ call'[d].at \notin Reads
                   => Knows(call[d].id, call[d].of)'
             /\ call'[d].task = "deploy" /\ call'[d].at = "answered" /\ call'[d].ok
                   => Knows(call[d].id, call[d].of)'
  <2>1. call'[d] = call[d] /\ call[d].id \in Nat
    BY <1>1, <1>2, <1>5 DEF Others
  <2>2. Knows(call[d].id, call[d].of) => Knows(call[d].id, call[d].of)'
    BY <1>2, <1>3, <2>1 DEF Knows
  <2> QED
    BY <1>5, <2>1, <2>2 DEF IRecords
<1>6. ASSUME call[c].task = "undeploy"
      PROVE  Knows(call[c].id, call[c].of)'
  <2>1. call'[c].id = call[c].id /\ call'[c].of = call[c].of /\ call[c].id \in Nat
    BY <1>1, <1>2, <1>6, ServedId DEF SameTask
  <2>2. Knows(call[c].id, call[c].of)
    BY <1>1, <1>6, WhoServes DEF IRecords
  <2> QED
    BY <1>2, <1>3, <2>1, <2>2 DEF Knows
<1>7. ASSUME SaveDeployment(c)
      PROVE  Knows(call[c].id, call[c].of)'
  <2>1. call'[c].id = stamps + 1 /\ call'[c].of = call[c].of
    BY <1>1, <1>7, RecordedFields DEF SameTask
  <2>2. \A d \in Filed : d.id # stamps + 1
    BY <1>2 DEF IRecords
  <2>3. \A d \in Filed' : d.id = stamps + 1 => d.of = call[c].of
    BY <2>2, HandlerFiled DEF NewRecord
  <2>4. stamps' = stamps + 1
    BY <1>7 DEF SaveDeployment
  <2> QED
    BY <1>2, <2>1, <2>3, <2>4 DEF Knows
<1>8. /\ call'[c].task = "undeploy" /\ call'[c].at \notin Reads => Knows(call[c].id, call[c].of)'
      /\ call'[c].task = "deploy" /\ call'[c].at = "answered" /\ call'[c].ok
            => Knows(call[c].id, call[c].of)'
  BY <1>1, <1>6, <1>7, ServedId DEF SameTask
<1> QED
  BY <1>3, <1>4, <1>5, <1>8 DEF IRecords

(* What the operator asks for. *)
Asks(r) ==
    /\ r.task = "undeploy" => Knows(r.id, r.of)
    /\ r.task \in Deploys => r.of \in Custom \/ r.form.publishes

LEMMA ImporterAsks ==
    ASSUME IType, IRecords, ImporterActs
    PROVE  /\ call' = call \/ \E r : Begin(r) /\ Asks(r)
           /\ importer'.deployment \in {importer.deployment, NoDeployment}
<1> USE DEF IType, TypeOK, Importer
<1>1. CASE Refresh
  <2>1. Task("refresh", None, "list").task = "refresh"
    BY DEF Task, Call
  <2> QED
    BY <1>1, <2>1 DEF Refresh, ui, Asks, Deploys
<1>2. CASE Deploy
  <2> DEFINE r == [Task("deploy", importer.selected, "deploy") EXCEPT !.form = importer.form]
  <2>1. r.task = "deploy"
    BY DEF Task, Call
  <2> QED
    BY <1>2, <2>1 DEF Deploy, ui, Asks, Deploys
<1>3. CASE RemoveDeployment
  <2> DEFINE r == [Task("undeploy", importer.deployment.of, "undeploy")
                      EXCEPT !.id = importer.deployment.id]
  <2>1. r.task = "undeploy" /\ r.of = importer.deployment.of /\ r.id = importer.deployment.id
    BY DEF Task, Call
  <2> QED
    BY <1>3, <2>1 DEF RemoveDeployment, ui, Asks, Deploys, IRecords
<1>4. ASSUME NEW p \in Projects, SelectProject(p)
      PROVE  /\ \E r : Begin(r) /\ Asks(r)
             /\ importer'.deployment = NoDeployment
  <2>1. Task("select", p, "analyse").task = "select"
    BY DEF Task, Call
  <2> QED
    BY <1>4, <2>1 DEF SelectProject, Selected, ui, Asks, Deploys
<1>5. ASSUME NEW p \in Projects, RemoveProject(p)
      PROVE  /\ \E r : Begin(r) /\ Asks(r)
             /\ importer'.deployment = importer.deployment
  <2>1. [Task("delete", p, "delete") EXCEPT !.saw = importer.selected].task = "delete"
    BY DEF Task, Call
  <2> QED
    BY <1>5, <2>1 DEF RemoveProject, ui, Asks, Deploys
<1>6. ASSUME NEW p \in Projects, NEW kind \in ImportTasks, ImportProject(kind, p)
      PROVE  /\ \E r : Begin(r) /\ Asks(r)
             /\ importer'.deployment = importer.deployment
  <2>1. Task(kind, p, "import").task = kind
    BY DEF Task, Call
  <2> QED
    BY <1>6, <2>1 DEF ImportProject, ui, Asks, Deploys, ImportTasks
<1>7. ASSUME NEW mode \in Modes, NEW type \in TargetTypes, FillIn(mode, type)
      PROVE  call' = call /\ importer'.deployment = importer.deployment
  BY <1>7 DEF FillIn, ui, Form
<1> QED
  BY <1>1, <1>2, <1>3, <1>4, <1>5, <1>6, <1>7 DEF ImporterActs

LEMMA HostAsks ==
    ASSUME IType, HostActs
    PROVE  call' = call \/ \E r : Begin(r) /\ Asks(r)
<1> USE DEF IType, TypeOK, Host
<1>1. ASSUME NEW task, NEW of, NEW at, task \notin {"undeploy"} \union Deploys,
             Begin(HostTask(task, of, at))
      PROVE  \E r : Begin(r) /\ Asks(r)
  <2>1. HostTask(task, of, at).task = task
    BY DEF HostTask, Call
  <2> QED
    BY <1>1, <2>1 DEF Asks
<1>2. CASE DeployCustom
  <2> DEFINE r == [HostTask("deploy-image", host.image, "run-agent") EXCEPT
                      !.form = [provider |-> None, key |-> None, publishes |-> host.port]]
  <2>1. r.task = "deploy-image" /\ r.of \in Custom
    BY <1>2 DEF HostTask, Call, DeployCustom, OffersCustom
  <2> QED
    BY <1>2, <2>1 DEF DeployCustom, Asks
<1>3. ASSUME NEW a \in Agents \ Custom, DeployTemplate(a)
      PROVE  \E r : Begin(r) /\ Asks(r)
  <2> DEFINE r == [HostTask("deploy-template", a, "run-agent") EXCEPT
                      !.form = [provider |-> host.provider, publishes |-> TRUE,
                                key |-> IF host.provider = None THEN None ELSE host.key]]
  <2>1. r.task = "deploy-template" /\ r.form.publishes
    BY DEF HostTask, Call
  <2> QED
    BY <1>3, <2>1 DEF DeployTemplate, Asks
<1> QED
  BY <1>1, <1>2, <1>3 DEF HostActs, RefreshAgents, TypeKey, CloseLogs, ChooseProvider, AddTemplate,
     DropTemplate, FillCustom, OpenLogs, AgentAction, Deploys

(* A request that begins asks for what the view knows. *)
LEMMA OperateAsks ==
    ASSUME IType, IRecords, Operate, NEW d \in Slots, call[d] = Idle, call'[d] # Idle
    PROVE  Asks(call'[d])
<1> USE DEF IType, TypeOK
<1>1. ASSUME NEW r, Begin(r), Asks(r)
      PROVE  Asks(call'[d])
  <2>1. call' = [call EXCEPT ![NextSlot] = r] /\ NextSlot \in Slots
    BY <1>1, NextSlotIsFree DEF Begin
  <2> QED
    BY <1>1, <2>1 DEF CallFits
<1>2. ASSUME NEW task \in {"agents", "refresh"}, call'[d] = Task(task, None, "list")
      PROVE  Asks(call'[d])
  BY <1>2 DEF Asks, Task, Call, Deploys
<1>3. Unmounted[d] = Idle
  BY DEF Unmounted
<1>4. CASE ImporterActs
  BY <1>1, <1>4, ImporterAsks
<1>5. CASE HostActs
  BY <1>1, <1>5, HostAsks
<1>6. CASE RunBaselineScan \/ \E t \in TargetIds : ChooseTarget(t)
  BY <1>3, <1>6 DEF RunBaselineScan, ChooseTarget
<1>7. ASSUME NEW v \in Views, Navigate(v)
      PROVE  Asks(call'[d])
  <2>1. CASE v = "overview"
    BY <1>3, <1>7, <2>1 DEF Navigate
  <2>2. CASE v # "overview"
    <3>1. PICK task \in {"agents", "refresh"} :
             call' = [Unmounted EXCEPT ![NextSlot] = Task(task, None, "list")]
      BY <1>7, <2>2 DEF Navigate
    <3>2. Unmounted \in [Slots -> {Idle} \union Requests]
      BY UnmountedFits
    <3> QED
      BY <1>2, <1>3, <3>1, <3>2
  <2> QED
    BY <2>1, <2>2
<1> QED
  BY <1>4, <1>5, <1>6, <1>7 DEF Operate

(* The console neither records nor forgets. *)
LEMMA ConsoleRecords ==
    ASSUME IType, IRecords, Operate \/ Continue
    PROVE  IRecords'
<1> USE DEF IType, TypeOK
<1>1. stamps' = stamps /\ \A d \in Filed' : d \in Filed
  <2>1. records' = records /\ stamps' = stamps
    BY ConsoleAsks
  <2>2. ASSUME NEW c \in Slots, call'[c].at \in {"save", "dropping"}
        PROVE  call[c].at = call'[c].at /\ call'[c].copy = call[c].copy
    <3>1. CASE call'[c] = call[c]
      BY <3>1
    <3>2. CASE call[c] \in Requests /\ call'[c] = [call[c] EXCEPT !.live = FALSE]
      BY <3>2 DEF Requests, Shape
    <3>3. call'[c] # Idle /\ call'[c] \notin Opening /\ call'[c].at \notin Reads
      BY <2>2, IdleIs DEF Opening, FirstSteps, Reads
    <3> QED
      BY <3>1, <3>2, <3>3, ConsoleKeeps DEF Kept, Unserved
  <2> QED
    BY <2>1, <2>2, FiledIs
<1>2. ASSUME NEW id, NEW p, Knows(id, p)
      PROVE  Knows(id, p)'
  BY <1>1, <1>2 DEF Knows
<1>3. Knows(NoDeployment.id, NoDeployment.of)
  BY DEF IRecords, Knows, NoDeployment, LabTypeOK
<1>4. Knows(importer.deployment.id, importer.deployment.of)'
  <2>1. CASE Operate
    <3>1. importer'.deployment \in {importer.deployment, NoDeployment}
      BY <2>1, ImporterAsks DEF Operate, RunBaselineScan, Navigate, ChooseTarget, NewImporter
    <3>2. Knows(importer.deployment.id, importer.deployment.of)
      BY DEF IRecords
    <3> QED
      BY <1>1, <1>3, <3>1, <3>2 DEF Knows
  <2>2. CASE Continue
    <3>1. PICK c \in Slots :
             \/ ImporterContinues(c)
             \/ importer' = importer
      BY <2>2 DEF Continue
    <3>2. CASE DeployAnswered(c) /\ call[c].ok /\ call[c].live
      <4>1. call[c].at = "answered" /\ call[c].task = "deploy" /\ call[c] # Idle
        BY <3>2, StandsThere, BusyIs DEF DeployAnswered, At
      <4>2. Knows(call[c].id, call[c].of)
        BY <3>2, <4>1 DEF IRecords
      <4>3. importer' = [NotBusy(importer) EXCEPT !.deployment =
                           [of |-> call[c].of, id |-> call[c].id,
                            target |-> LabTarget(call[c].of, call[c].form.type),
                            external |-> call[c].form.mode = "external"]]
        BY <3>2 DEF DeployAnswered, Set, ui
      <4>4. importer'.deployment.id = call[c].id /\ importer'.deployment.of = call[c].of
        BY <4>3, NotBusyTyped DEF Importer
      <4> QED
        BY <1>1, <4>2, <4>4 DEF Knows
    <3>3. CASE ~(DeployAnswered(c) /\ call[c].ok /\ call[c].live)
      <4>1. importer'.deployment \in {importer.deployment, NoDeployment}
        BY <3>1, <3>3 DEF ImporterContinues, ProjectsListed, AnalysisAnswered, ImportAnswered,
           ProjectRemoved, DeployAnswered, DeploymentRemoved, Set, ui, NotBusy, Analysed, Selected,
           Importer
      <4>2. Knows(importer.deployment.id, importer.deployment.of)
        BY DEF IRecords
      <4> QED
        BY <1>1, <1>3, <4>1, <4>2 DEF Knows
    <3> QED
      BY <3>2, <3>3
  <2> QED
    BY <2>1, <2>2
<1>5. ASSUME NEW d \in Slots, call'[d] # Idle
      PROVE  /\ call'[d].task = "undeploy" /\ call'[d].at \notin Reads
                   => Knows(call[d].id, call[d].of)'
             /\ call'[d].task = "deploy" /\ call'[d].at = "answered" /\ call'[d].ok
                   => Knows(call[d].id, call[d].of)'
  <2>1. CASE Operate
    <3>1. Unserved(d)
      BY <2>1, OperateKeeps
    <3>2. CASE call[d] # Idle
      <4>1. /\ call'[d].at = call[d].at /\ call'[d].task = call[d].task /\ call'[d].of = call[d].of
            /\ call'[d].id = call[d].id /\ call'[d].ok = call[d].ok
        BY <3>1, <3>2 DEF Unserved, Requests, Shape
      <4> QED
        BY <1>1, <3>2, <4>1 DEF IRecords, Knows
    <3>3. CASE call[d] = Idle
      <4>1. Asks(call'[d])
        BY <1>5, <2>1, <3>3, OperateAsks
      <4>2. call'[d].at # "answered"
        BY <1>5, <3>1, <3>3, IdleIs DEF Unserved, Opening, FirstSteps, Requests, Shape
      <4> QED
        BY <1>1, <4>1, <4>2 DEF Asks, Knows
    <3> QED
      BY <3>2, <3>3
  <2>2. CASE Continue
    <3>1. PICK c \in Slots : Continued(c)
      BY <2>2, ContinueKeeps
    <3>2. CASE d = c
      BY <1>5, <3>1, <3>2 DEF Continued, CallFits, Reads
    <3>3. CASE d # c
      BY <1>1, <1>5, <3>1, <3>3 DEF Continued, CallFits, IRecords, Knows
    <3> QED
      BY <3>2, <3>3
  <2> QED
    BY <2>1, <2>2
<1> QED
  BY <1>1, <1>4, <1>5 DEF IRecords

(* What a request edits is settled when it comes to load. *)
LEMMA EditKept ==
    ASSUME NEW d \in Slots, EditFits(call[d]), spoiled \subseteq spoiled',
           call'[d].at = call[d].at, call'[d].task = call[d].task, call'[d].of = call[d].of,
           call'[d].form = call[d].form, call'[d].ids = call[d].ids, call'[d].url = call[d].url
    PROVE  EditFits(call[d])'
BY DEF EditFits

LEMMA NoEdit ==
    ASSUME NEW d \in Slots, call'[d].at \notin {"load", "write", "record", "save", "run-agent"}
    PROVE  EditFits(call[d])'
BY DEF EditFits

LEMMA DeployEdits ==
    ASSUME IType, IEdits, NEW c \in Slots, call[c] \in Requests, call[c].task = "deploy",
           LoadTargets(c) \/ WriteTargets(c) \/ Deploying(c)
    PROVE  EditFits(call[c])'
<1> USE DEF IType, TypeOK
<1>1. EditFits(call[c]) /\ "deploy" \notin Deploys
  BY BusyIs DEF IEdits, Requests, Shape, Idle, Deploys
<1>2. CASE LoadTargets(c)
  <2>1. /\ call'[c].at = "write" /\ call[c].at = "load" /\ call'[c].ids = call[c].ids
        /\ call'[c].url = call[c].url /\ SameTask(c)
    BY <1>2, LoadFields DEF LoadTargets, At
  <2> QED
    BY <1>1, <2>1 DEF EditFits, SameTask
<1>3. CASE WriteTargets(c)
  <2>1. /\ call'[c].at = "record" /\ call[c].at = "write" /\ call'[c].url = call[c].url
        /\ SameTask(c)
    BY <1>3, WriteFields DEF WriteTargets, At, Requests, Stands, ImportTasks, Deploys
  <2> QED
    BY <1>1, <2>1 DEF EditFits, SameTask
<1>4. CASE StartDeploy(c)
  <2>1. CASE Edits(c, {LabTarget(call[c].of, call[c].form.type)}, External, "record")
    <3>1. /\ call'[c].ids = {LabTarget(call[c].of, call[c].form.type)}
          /\ call'[c].url = External /\ SameTask(c) /\ call'[c].at = "load"
      BY <2>1, EditsFields
    <3> QED
      BY <1>1, <3>1 DEF EditFits, SameTask
  <2>2. CASE Goes(c, "run")
    BY <2>2, GoesFields, NoEdit
  <2> QED
    BY <1>4, <2>1, <2>2 DEF StartDeploy
<1>5. CASE StartDeployFails(c) \/ RunFails(c) \/ HealthFails(c) \/ CleanUpFails(c)
  BY <1>5, AnswersFields, NoEdit DEF StartDeployFails, RunFails, HealthFails, CleanUpFails
<1>6. CASE RunContainer(c)
  <2>1. CASE Answers(c, FALSE)
    BY <2>1, AnswersFields, NoEdit
  <2>2. CASE \E port \in MayPublish : call' = [call EXCEPT ![c].at = "health", ![c].url = port]
    <3>1. PICK port : call' = [call EXCEPT ![c].at = "health", ![c].url = port]
      BY <2>2
    <3>2. call'[c].at = "health"
      BY <3>1, StartedFields
    <3> QED
      BY <3>2, NoEdit
  <2> QED
    BY <1>6, <2>1, <2>2 DEF RunContainer
<1>7. CASE HealthPasses(c)
  <2>1. call[c].url \in Ports
    BY <1>7, AtStep DEF HealthPasses, At
  <2>2. /\ call'[c].ids = {LabTarget(call[c].of, call[c].form.type)}
        /\ call'[c].url = call[c].url /\ SameTask(c) /\ call'[c].at = "load"
    BY <1>7, EditsFields DEF HealthPasses
  <2> QED
    BY <1>1, <2>1, <2>2 DEF EditFits, SameTask
<1>8. CASE SaveDeployment(c)
  BY <1>8, RecordedFields, NoEdit
<1> QED
  BY <1>2, <1>3, <1>4, <1>5, <1>6, <1>7, <1>8 DEF Deploying

(* A deployment that is found is of the project the request is about. *)
LEMMA FoundIsOwn ==
    ASSUME IRecords, NEW c \in Slots, call[c] # Idle, call[c].task = "undeploy",
           call[c].at \notin Reads, NEW d \in records, d.id = call[c].id
    PROVE  d.of = call[c].of /\ {d.target} \subseteq {call[c].of} \X TargetTypes
BY FiledIs DEF IRecords, Knows

LEMMA UndeployEdits ==
    ASSUME IType, IRecords, IEdits, NEW c \in Slots, call[c] \in Requests, call[c] # Idle,
           call[c].task = "undeploy", call[c].at \notin Reads,
           LoadTargets(c) \/ WriteTargets(c) \/ Undeploying(c)
    PROVE  EditFits(call[c])'
<1> USE DEF IType, TypeOK
<1>1. EditFits(call[c]) /\ "undeploy" \notin Deploys
  BY DEF IEdits, Deploys
<1>2. CASE LoadTargets(c)
  <2>1. /\ call'[c].at = "write" /\ call[c].at = "load" /\ call'[c].ids = call[c].ids
        /\ call'[c].url = call[c].url /\ SameTask(c)
    BY <1>2, LoadFields DEF LoadTargets, At
  <2> QED
    BY <1>1, <2>1 DEF EditFits, SameTask
<1>3. CASE WriteTargets(c)
  <2>1. call'[c].at = "drop"
    BY <1>3, WriteFields DEF WriteTargets, At, Requests, Stands, ImportTasks, Deploys
  <2> QED
    BY <2>1, NoEdit
<1>4. ASSUME NEW d \in records, d.id = call[c].id, Edits(c, {d.target}, None, "drop")
      PROVE  EditFits(call[c])'
  <2>1. {d.target} \subseteq {call[c].of} \X TargetTypes
    BY <1>4, FoundIsOwn
  <2>2. /\ call'[c].ids = {d.target} /\ call'[c].url = None /\ SameTask(c) /\ call'[c].at = "load"
    BY <1>4, EditsFields
  <2> QED
    BY <1>1, <2>1, <2>2 DEF EditFits, SameTask
<1>5. ASSUME NEW ok, Answers(c, ok)
      PROVE  EditFits(call[c])'
  BY <1>5, AnswersFields, NoEdit
<1>6. CASE DropRecords(c)
  BY <1>6, DroppedFields, NoEdit
<1> QED
  BY <1>2, <1>3, <1>4, <1>5, <1>6 DEF Undeploying, RemoveContainer, RemoveContainerFails

LEMMA AgentEdits ==
    ASSUME IType, IEdits, NEW c \in Slots, call[c] \in Requests,
           call[c].task \in Deploys \union {"remove"},
           LoadTargets(c) \/ WriteTargets(c) \/ RunAgent(c) \/ RunAgentFails(c) \/ RemoveAgent(c)
    PROVE  EditFits(call[c])'
<1> USE DEF IType, TypeOK
<1>1. EditFits(call[c]) /\ {"deploy", "undeploy", "remove"} \intersect Deploys = {}
  BY BusyIs DEF IEdits, Requests, Shape, Idle, Deploys
<1>2. call[c].task \notin {"deploy", "undeploy"}
  BY <1>1
<1>3. CASE LoadTargets(c)
  <2>1. /\ call'[c].at = "write" /\ call[c].at = "load" /\ call'[c].ids = call[c].ids
        /\ call'[c].url = call[c].url /\ SameTask(c) /\ spoiled' = spoiled
    BY <1>3, LoadFields DEF LoadTargets, At, dockerVars
  <2> QED
    BY <1>1, <1>2, <2>1 DEF EditFits, SameTask
<1>4. CASE WriteTargets(c)
  <2>1. call'[c].at = "answered"
    BY <1>2, <1>4, WriteFields DEF WriteTargets, At, Requests, Stands, ImportTasks
  <2> QED
    BY <2>1, NoEdit
<1>5. ASSUME NEW ok, Answers(c, ok)
      PROVE  EditFits(call[c])'
  BY <1>5, AnswersFields, NoEdit
<1>6. CASE RunAgent(c)
  <2>1. CASE AgentIds(c) # {} /\ Edits(c, AgentIds(c), AgentUrl, "answered")
    <3>1. /\ call'[c].ids = {AgentTarget(call[c].of)} /\ call'[c].url = AgentUrl
          /\ SameTask(c) /\ call'[c].at = "load"
      BY <2>1, EditsFields DEF AgentIds
    <3>2. call[c].task \in Deploys
      BY <1>6 DEF RunAgent, At, Requests, Stands, ImportTasks, Deploys
    <3> QED
      BY <1>1, <3>1, <3>2 DEF EditFits, SameTask
  <2> QED
    BY <1>5, <1>6, <2>1 DEF RunAgent
<1>7. CASE RunAgentFails(c)
  BY <1>5, <1>7 DEF RunAgentFails
<1>8. CASE RemoveAgent(c)
  <2> DEFINE s == call[c].of
  <2>1. CASE Edits(c, TargetsOfAgent(s), None, "answered") /\ container[s] # Absent
    <3>1. /\ call'[c].ids = TargetsOfAgent(s) /\ call'[c].url = None
          /\ SameTask(c) /\ call'[c].at = "load"
      BY <2>1, EditsFields
    <3>2. s \in Projects \union Agents /\ call[c].task = "remove"
      BY <1>8, AtStep DEF RemoveAgent, At, Requests, Stands, ImportTasks, Deploys
    <3>3. spoiled' = spoiled \union
             (IF s \in Projects THEN {<<s, "agents">>}
              ELSE {<<a, "image">> : a \in {a \in Agents \ {s} : Image[a] = Image[s]}}
                   \union (IF faults' = faults THEN {} ELSE {<<s, "docker">>}))
      BY <1>8, <2>1 DEF RemoveAgent
    <3>4. \A t \in TargetsOfAgent(s) : \E a \in Agents :
             t = AgentTarget(a) /\ (a = s \/ <<a, "image">> \in spoiled')
      <4>1. CASE s \in Projects
        BY <4>1 DEF TargetsOfAgent
      <4>2. CASE s \notin Projects
        <5>1. templates \subseteq Agents
          BY DEF LabTypeOK
        <5> QED
          BY <3>2, <3>3, <4>2, <5>1 DEF TargetsOfAgent
      <4> QED
        BY <4>1, <4>2
    <3>5. s \in Agents => AgentTarget(s) \in TargetsOfAgent(s)
      BY LabAssumption DEF TargetsOfAgent
    <3>6. /\ call'[c].task = "remove" /\ call'[c].of = s /\ "remove" \notin Deploys
          /\ "remove" \notin {"deploy", "undeploy"}
      BY <3>1, <3>2 DEF SameTask, Deploys
    <3> DEFINE edited == TargetsOfAgent(s)
    <3>7. call'[c].ids = edited
      BY <3>1
    <3> HIDE DEF s, edited
    <3>8. /\ s \in Agents => AgentTarget(s) \in edited
          /\ \A t \in edited : \E a \in Agents :
                t = AgentTarget(a) /\ (a = s \/ <<a, "image">> \in spoiled')
      BY <3>4, <3>5 DEF edited
    <3> QED
      BY <3>1, <3>6, <3>7, <3>8 DEF EditFits
  <2> QED
    BY <1>5, <1>8, <2>1 DEF RemoveAgent
<1> QED
  BY <1>3, <1>4, <1>6, <1>7, <1>8

(* A handler keeps what its request is to change in the registry within its own. *)
LEMMA HandlerEdits ==
    ASSUME IType, IRecords, IEdits, NEW c \in Slots, Serving(c)
    PROVE  IEdits'
<1> USE DEF IType, TypeOK
<1>1. /\ call[c] \in Requests /\ call[c] # Idle /\ call[c].at \notin Reads /\ Others(c)
      /\ spoiled \subseteq spoiled'
  BY WhoServes, ServedCall, ServedRecords DEF LabTypeOK
<1>2. \A d \in Slots \ {c} : call'[d] # Idle => EditFits(call[d])'
  BY <1>1, EditKept DEF IEdits, Others
<1>3. ASSUME NEW ok, Answers(c, ok)
      PROVE  EditFits(call[c])'
  BY <1>1, <1>3, AnswersFields, NoEdit
<1>4. ASSUME Importing(c)
      PROVE  EditFits(call[c])'
  <2>1. Goes(c, "unpack") \/ \E ok : Answers(c, ok)
    BY <1>4 DEF Importing, CheckImport, Unpack, UnpackFails, DeleteProject
  <2> QED
    BY <1>1, <1>3, <2>1, GoesFields, NoEdit
<1>5. ASSUME StopAgent(c) \/ StartAgent(c) \/ SaveTemplate(c) \/ DeleteTemplate(c)
      PROVE  EditFits(call[c])'
  BY <1>3, <1>5 DEF StopAgent, StartAgent, SaveTemplate, DeleteTemplate
<1>6. ASSUME LoadRecords(c)
      PROVE  EditFits(call[c])'
  <2>1. /\ call'[c].at = IF call[c].at = "record" THEN "save" ELSE "dropping"
        /\ call'[c].url = call[c].url /\ call'[c].task = call[c].task
    BY <1>1, <1>6, ReadFields DEF SameTask
  <2>2. CASE call[c].at = "record"
    BY <1>1, <2>1, <2>2 DEF IEdits, EditFits
  <2>3. CASE call[c].at # "record"
    BY <2>1, <2>3, NoEdit
  <2> QED
    BY <2>2, <2>3
<1>7. ASSUME FileFails(c)
      PROVE  EditFits(call[c])'
  BY <1>1, <1>7, FailedFields, NoEdit
<1>8. EditFits(call[c])'
  BY <1>1, <1>4, <1>5, <1>6, <1>7, WhoServes, DeployEdits, UndeployEdits, AgentEdits
<1> QED
  BY <1>2, <1>8 DEF IEdits

(* So do the console's steps. *)
LEMMA ConsoleEdits ==
    ASSUME IType, IRecords, IEdits, Operate \/ Continue
    PROVE  IEdits'
<1> USE DEF IType, TypeOK
<1> SUFFICES ASSUME NEW d \in Slots, call'[d] # Idle
             PROVE  EditFits(call[d])'
  BY DEF IEdits
<1>1. Kept(d) /\ spoiled' = spoiled
  BY ConsoleKeeps, ConsoleAsks
<1>2. CASE call'[d] = call[d] \/ (call[d] \in Requests /\ call'[d] = [call[d] EXCEPT !.live = FALSE])
  <2>1. /\ call'[d].at = call[d].at /\ call'[d].task = call[d].task /\ call'[d].of = call[d].of
        /\ call'[d].form = call[d].form /\ call'[d].ids = call[d].ids /\ call'[d].url = call[d].url
    BY <1>2 DEF Requests, Shape
  <2>2. call[d] # Idle
    BY <1>2 DEF Requests, Shape, Idle
  <2> QED
    BY <1>1, <2>1, <2>2, EditKept DEF IEdits
<1>3. CASE Operate /\ call[d] = Idle /\ call'[d] \in Opening
  <2>1. Asks(call'[d]) /\ call'[d].at \in FirstSteps
    BY <1>3, OperateAsks DEF Opening
  <2> QED
    BY <2>1 DEF Asks, EditFits, FirstSteps
<1>4. CASE call'[d].at \in Reads
  BY <1>4, NoEdit DEF Reads
<1>5. CASE Continue
  <2>1. PICK c \in Slots : Continued(c)
    BY <1>5, ContinueKeeps
  <2>2. CASE d = c
    BY <1>4, <2>1, <2>2 DEF Continued, CallFits
  <2>3. CASE d # c
    BY <1>2, <2>1, <2>3 DEF Continued, CallFits
  <2> QED
    BY <2>2, <2>3
<1>6. CASE Operate
  BY <1>2, <1>3, <1>6, OperateKeeps DEF Unserved
<1> QED
  BY <1>5, <1>6
-----------------------------------------------------------------------------
(* Ports. *)

LEMMA PortsKept ==
    ASSUME LabTypeOK, IPorts, NEW s \in Subjects, NEW to, SetContainer(s, to),
           \/ to.at # "up" \/ to.port \notin Ports
           \/ \A t \in Subjects : container[t].at = "up" => container[t].port # to.port
    PROVE  IPorts'
BY DEF LabTypeOK, IPorts, SetContainer, Subjects

(* A handler publishes a free port only. *)
LEMMA HandlerPorts ==
    ASSUME IType, IRecords, IPorts, NEW c \in Slots, Serving(c)
    PROVE  IPorts'
<1> USE DEF IType, TypeOK
<1>1. /\ call[c] \in Requests /\ call[c] # Idle /\ call[c].at \notin Reads
      /\ DOMAIN container = Subjects /\ None \notin Ports
  BY WhoServes, LabAssumption DEF LabTypeOK, Subjects
<1>2. ASSUME container' = container
      PROVE  IPorts'
  BY <1>2 DEF IPorts
<1>3. ASSUME NEW s \in Subjects, SetContainer(s, Absent)
      PROVE  IPorts'
  BY <1>3, PortsKept DEF Absent
<1>4. ASSUME NEW s \in Subjects, SetContainer(s, [Absent EXCEPT !.at = "created"])
      PROVE  IPorts'
  BY <1>4, PortsKept DEF Absent
<1>5. CASE LoadTargets(c) \/ WriteTargets(c) \/ LoadRecords(c) \/ FileFails(c) \/ Importing(c)
  BY <1>2, <1>5 DEF LoadTargets, WriteTargets, LoadRecords, FileFails, Importing, CheckImport,
     Unpack, UnpackFails, DeleteProject, dockerVars
<1>6. CASE Deploying(c)
  <2>1. call[c].of \in Subjects
    BY <1>1, <1>6, AtStep DEF Deploying, StartDeploy, StartDeployFails, RunContainer, RunFails,
       HealthPasses, HealthFails, CleanUpFails, SaveDeployment, At, Subjects
  <2>2. CASE RunContainer(c)
    <3>1. ASSUME NEW port \in MayPublish, NEW serves \in BOOLEAN,
                 SetContainer(call[c].of, Running(port, serves))
          PROVE  IPorts'
      <4>1. port \notin PortsInUse
        BY <3>1 DEF MayPublish
      <4>2. \A t \in Subjects : container[t].at = "up" => container[t].port # port
        BY <1>1, <4>1 DEF PortsInUse
      <4>3. Running(port, serves).port = port
        BY DEF Running
      <4> QED
        BY <2>1, <3>1, <4>2, <4>3, PortsKept
    <3> QED
      BY <1>2, <2>2, <3>1 DEF RunContainer
  <2> QED
    BY <1>2, <1>3, <1>4, <1>6, <2>1, <2>2 DEF Deploying, StartDeploy, StartDeployFails, RunFails,
       HealthPasses, HealthFails, CleanUpFails, SaveDeployment, dockerVars
<1>7. CASE Undeploying(c)
  <2>1. \A d \in records : d.of \in Subjects
    BY DEF LabTypeOK, Record, Subjects
  <2> QED
    BY <1>2, <1>3, <1>7, <2>1 DEF Undeploying, RemoveContainer, RemoveContainerFails, DropRecords
<1>8. CASE Hosting(c)
  <2> DEFINE s == call[c].of
  <2>1. s \in Subjects
    BY <1>1, <1>8, AtStep DEF Hosting, RunAgent, RunAgentFails, StopAgent, StartAgent, RemoveAgent,
       SaveTemplate, DeleteTemplate, At, Subjects
  <2>2. CASE RunAgent(c)
    <3>1. CASE SetContainer(s, [at |-> "up", port |-> None, serves |-> TRUE])
      <4>1. [at |-> "up", port |-> None, serves |-> TRUE].port \notin Ports
        BY <1>1
      <4> QED
        BY <2>1, <3>1, <4>1, PortsKept
    <3> QED
      BY <1>2, <2>2, <3>1 DEF RunAgent
  <2>3. CASE RunAgentFails(c)
    BY <1>2, <1>4, <2>1, <2>3 DEF RunAgentFails
  <2>4. container[s] \in Container
    BY <2>1 DEF LabTypeOK, Subjects
  <2>5. CASE StopAgent(c)
    <3>1. [container[s] EXCEPT !.at = "exited"].at # "up"
      BY <2>4 DEF Container, Absent
    <3> QED
      BY <1>2, <2>1, <2>5, <3>1, PortsKept DEF StopAgent
  <2>6. CASE StartAgent(c)
    <3> DEFINE to == [container[s] EXCEPT !.at = "up"]
    <3>1. to.port = container[s].port
      BY <2>4 DEF Container, Absent
    <3>2. CASE SetContainer(s, to) /\ container[s].port \notin PortsInUse \intersect Ports
      <4>1. to.port \notin Ports \/ \A t \in Subjects : container[t].at = "up" => container[t].port # to.port
        BY <1>1, <3>1, <3>2 DEF PortsInUse
      <4> HIDE DEF to
      <4> QED
        BY <2>1, <3>2, <4>1, PortsKept
    <3> QED
      BY <1>2, <2>6, <3>2 DEF StartAgent
  <2>7. CASE RemoveAgent(c)
    BY <1>2, <1>3, <2>1, <2>7 DEF RemoveAgent
  <2> QED
    BY <1>2, <1>8, <2>2, <2>3, <2>5, <2>6, <2>7 DEF Hosting, SaveTemplate, DeleteTemplate
<1> QED
  BY <1>5, <1>6, <1>7, <1>8 DEF Serving
-----------------------------------------------------------------------------
(* What a step leaves alone. *)

(* The targets that are a subject's own. *)
Own(s) == IF s \in Projects THEN {s} \X TargetTypes ELSE {AgentTarget(s)}

(* Of a subject the history leaves out, one request at most is being served. *)
LEMMA NextAlone ==
    ASSUME Next, NEW s \in Subjects \ overlapped'
    PROVE  Alone(s)'
<1>1. s \notin Overlaps(call')
  BY DEF Next
<1>2. s \notin {t \in Subjects : Twice(call', LAMBDA r : r.at \notin Reads \union {"idle", "answered"}
                                                        /\ r.of = t)}
  BY <1>1 DEF Overlaps
<1> QED
  BY <1>2 DEF Twice, Alone, Works

(* A subject's own targets are ids of the registry. *)
LEMMA OwnTargets ==
    ASSUME NEW s \in Subjects
    PROVE  /\ s \in Projects => \A type \in TargetTypes : LabTarget(s, type) \in Own(s)
           /\ s \in Agents => AgentTarget(s) \in Own(s)
           /\ Own(s) \subseteq TargetIds
BY LabAssumption DEF Own, Subjects, LabTarget, AgentTarget

(* A subject rests, or its request stays at its stage, when nothing of its own *)
(* changes and no promise is given back.                                       *)
Untouched(s) ==
    /\ container'[s] = container[s]
    /\ Tracked(s)' => RecordsOf(s)' = RecordsOf(s)
    /\ spoiled \subseteq spoiled' /\ (staleWrite => staleWrite')
    /\ Trusted(s)' => \A t \in Own(s) : targets'[t] = targets[t]

(* Who is promised a live target is promised a record too. *)
LEMMA TrustedTracked ==
    ASSUME NEW s
    PROVE  (Trusted(s) => Tracked(s)) /\ (Trusted(s)' => Tracked(s)')
BY DEF Trusted, Tracked, SpoiledBy

LEMMA PromisesStand ==
    ASSUME NEW s, spoiled \subseteq spoiled', staleWrite => staleWrite'
    PROVE  (Tracked(s)' => Tracked(s)) /\ (Trusted(s)' => Trusted(s))
BY DEF Tracked, Trusted

(* What is promised of a subject that a step leaves alone stays. *)
LEMMA PartsKept ==
    ASSUME NEW s \in Subjects, Untouched(s)
    PROVE  /\ Tracked(s)' /\ Accounted(s) => Accounted(s)'
           /\ s \in Projects /\ Trusted(s)' =>
                 /\ \A type \in TargetTypes : Url(s, type)' = Url(s, type)
                 /\ Alive(s) => Alive(s)'
                 /\ \A types \in SUBSET TargetTypes : Backed(s, types) => Backed(s, types)'
           /\ s \in Agents /\ Trusted(s)' =>
                 targets'[AgentTarget(s)] = targets[AgentTarget(s)] /\ (Together(s) => Together(s)')
<1>1. Tracked(s)' /\ Accounted(s) => Accounted(s)'
  BY DEF Untouched, Accounted
<1>2. ASSUME s \in Projects, Trusted(s)'
      PROVE  /\ \A type \in TargetTypes : Url(s, type)' = Url(s, type)
             /\ Alive(s) => Alive(s)'
             /\ \A types \in SUBSET TargetTypes : Backed(s, types) => Backed(s, types)'
  <2>1. \A type \in TargetTypes : Url(s, type)' = Url(s, type)
    BY <1>2, OwnTargets DEF Untouched, Url
  <2>2. Alive(s) => Alive(s)'
    BY <2>1 DEF Untouched, Alive
  <2>3. \A types \in SUBSET TargetTypes : Backed(s, types) => Backed(s, types)'
    BY <1>2, <2>1, TrustedTracked DEF Untouched, Backed
  <2> QED
    BY <2>1, <2>2, <2>3
<1>3. ASSUME s \in Agents, Trusted(s)'
      PROVE  targets'[AgentTarget(s)] = targets[AgentTarget(s)] /\ (Together(s) => Together(s)')
  BY <1>3, OwnTargets DEF Untouched, Together
<1> QED
  BY <1>1, <1>2, <1>3

LEMMA RestsKept ==
    ASSUME NEW s \in Subjects, Untouched(s), Rests(s)
    PROVE  Rests(s)'
<1>1. (Tracked(s)' => Tracked(s)) /\ (Trusted(s)' => Trusted(s))
  BY PromisesStand DEF Untouched
<1>2. s \in Projects /\ Tracked(s)' => Accounted(s)'
  BY <1>1, PartsKept DEF Rests
<1>3. s \in Projects /\ Trusted(s)' => Alive(s)' /\ Backed(s, TargetTypes)'
  BY <1>1, PartsKept DEF Rests
<1>4. s \in Agents /\ Trusted(s)' => Together(s)'
  BY <1>1, PartsKept DEF Rests
<1> QED
  BY <1>2, <1>3, <1>4 DEF Rests

(* The same request, up to whether its view is still there and the records are loaded. *)
SameRequest(d) ==
    /\ call'[d].task = call[d].task /\ call'[d].of = call[d].of
    /\ call'[d].form = call[d].form /\ call'[d].ids = call[d].ids /\ call'[d].url = call[d].url
    /\ \/ call'[d].at = call[d].at /\ call'[d].copy = call[d].copy
       \/ call[d].at = "record" /\ call'[d].at = "save"
       \/ call[d].at = "drop" /\ call'[d].at = "dropping"

LEMMA StageKept ==
    ASSUME NEW s \in Subjects, Untouched(s), NEW d \in Slots, call[d].of = s, SameRequest(d),
           Stage(call[d])
    PROVE  Stage(call[d])'
<1> USE DEF SameRequest
<1>1. (Tracked(s)' => Tracked(s)) /\ (Trusted(s)' => Trusted(s))
  BY PromisesStand DEF Untouched
<1>2. /\ Clears(call[d])' <=> Clears(call[d])
      /\ Raises(call[d])' <=> Raises(call[d])
      /\ Editing(call[d])' <=> Editing(call[d])
      /\ Recording(call[d])' <=> Recording(call[d])
  BY DEF Clears, Raises, Editing, Recording
<1>3. ASSUME s \in Projects, Tracked(s)'
      PROVE  AccountStage(call[d])'
  <2>1. AccountStage(call[d])
    BY <1>1, <1>3 DEF Stage
  <2> QED
    BY <1>2, <1>3, <2>1, PartsKept DEF AccountStage, Untouched
<1>4. ASSUME s \in Projects, Trusted(s)'
      PROVE  AliveStage(call[d])'
  <2>1. AliveStage(call[d])
    BY <1>1, <1>4 DEF Stage
  <2>2. /\ \A type \in TargetTypes : Url(s, type)' = Url(s, type)
        /\ Alive(s) => Alive(s)'
        /\ \A types \in SUBSET TargetTypes : Backed(s, types) => Backed(s, types)'
    BY <1>4, PartsKept
  <2>3. /\ BackedTypes(call[d]) \in SUBSET TargetTypes
        /\ BackedTypes(call[d])' = BackedTypes(call[d])
    BY <1>2 DEF BackedTypes
  <2>4. Backed(s, BackedTypes(call[d])) => Backed(s, BackedTypes(call[d]))'
    BY <2>2, <2>3 DEF Backed
  <2>5. Backed(s, BackedTypes(call[d]))'
    BY <2>1, <2>4 DEF AliveStage
  <2>6. \/ Alive(s)'
        \/ call'[d].task = "deploy" /\ call'[d].at = "run"
        \/ Raises(call[d])' /\ ~Recording(call[d])'
        \/ Clears(call[d])'
    BY <1>2, <2>1, <2>2 DEF AliveStage
  <2>7. /\ Clears(call[d])' => \A type \in TargetTypes : Url(s, type)' \in Ports =>
                                  Editing(call[d])' /\ LabTarget(s, type) \in call'[d].ids
        /\ Clears(call[d])' /\ call'[d].at = "write" =>
              \A type \in TargetTypes : call'[d].copy[LabTarget(s, type)] = Url(s, type)'
    BY <1>2, <2>1, <2>2 DEF AliveStage
  <2>8. /\ call'[d].task = "deploy" /\ call'[d].at = "run" =>
              container'[s] = Absent \/ Alive(s)'
        /\ call'[d].task = "deploy" /\ call'[d].at = "health" =>
              \E b \in BOOLEAN : container'[s] = Running(call'[d].url, b)
        /\ call'[d].task = "deploy" /\ Editing(call[d])' /\ call'[d].url \in Ports =>
              /\ container'[s] = Running(call'[d].url, TRUE)
              /\ \A type \in TargetTypes \ {call'[d].form.type} :
                    Url(s, type)' \in Ports => Url(s, type)' = call'[d].url
    BY <1>2, <2>1, <2>2 DEF AliveStage, Untouched
  <2> QED
    BY <2>5, <2>6, <2>7, <2>8 DEF AliveStage
<1>5. ASSUME s \in Agents, Trusted(s)'
      PROVE  AgentStage(call[d])'
  <2>1. AgentStage(call[d])
    BY <1>1, <1>5 DEF Stage
  <2>2. targets'[AgentTarget(s)] = targets[AgentTarget(s)] /\ (Together(s) => Together(s)')
    BY <1>5, PartsKept
  <2> QED
    BY <1>2, <2>1, <2>2 DEF AgentStage, Untouched
<1> QED
  BY <1>3, <1>4, <1>5 DEF Stage

(* A handler leaves every other subject alone. *)
LEMMA SetElsewhere ==
    ASSUME LabTypeOK, NEW s \in Subjects, NEW t, t # s, NEW to, SetContainer(t, to)
    PROVE  container'[s] = container[s]
BY DEF LabTypeOK, SetContainer, Subjects

(* A write that undoes nothing of a subject's records leaves those it does not change. *)
LEMMA KeepsOthers ==
    ASSUME NEW copy, NEW file, WriteRecords(copy, file), NEW s,
           \A d : d.of = s => (d \in file <=> d \in copy)
    PROVE  Tracked(s)' => RecordsOf(s)' = RecordsOf(s)
<1> SUFFICES ASSUME Tracked(s)'
             PROVE  RecordsOf(s)' = RecordsOf(s)
  OBVIOUS
<1>1. s \notin Undone(copy, file) /\ records' = file
  BY DEF WriteRecords, Tracked
<1>2. \A d : d.of = s => (d \in file <=> d \in records)
  BY <1>1 DEF Undone
<1> QED
  BY <1>1, <1>2 DEF RecordsOf, InContainer

(* The container and the records of every other subject stay. *)
LEMMA DockerElsewhere ==
    ASSUME IType, IRecords, NEW c \in Slots, Serving(c), NEW s \in Subjects, call[c].of # s
    PROVE  container'[s] = container[s] /\ (Tracked(s)' => RecordsOf(s)' = RecordsOf(s))
<1> USE DEF IType, TypeOK
<1>1. Tracked(s)' => RecordsOf(s)' = RecordsOf(s)
  <2>1. CASE UNCHANGED <<records, stamps>>
    BY <2>1 DEF RecordsOf, InContainer
  <2>2. CASE SaveDeployment(c)
    <3> DEFINE file == call[c].copy \union {NewRecord(c)}
    <3>1. WriteRecords(call[c].copy, file) /\ NewRecord(c).of # s
      BY <2>2 DEF SaveDeployment, NewRecord
    <3>2. \A d : d.of = s => (d \in file <=> d \in call[c].copy)
      BY <3>1
    <3> HIDE DEF file
    <3> QED
      BY <3>1, <3>2, KeepsOthers
  <2>3. CASE DropRecords(c) /\ records' # records
    <3> DEFINE file == {d \in call[c].copy : d.of = call[c].of => ~InContainer(d)}
    <3>1. WriteRecords(call[c].copy, file)
      BY <2>3 DEF DropRecords
    <3>2. \A d : d.of = s => (d \in file <=> d \in call[c].copy)
      OBVIOUS
    <3> HIDE DEF file
    <3> QED
      BY <3>1, <3>2, KeepsOthers
  <2> QED
    BY <2>1, <2>2, <2>3, ServedRecords DEF LabTypeOK, DropRecords
<1>2. container'[s] = container[s]
  <2>1. CASE LoadTargets(c) \/ WriteTargets(c) \/ LoadRecords(c) \/ FileFails(c) \/ Importing(c)
    BY <2>1 DEF LoadTargets, WriteTargets, LoadRecords, FileFails, Importing, CheckImport, Unpack,
       UnpackFails, DeleteProject, dockerVars
  <2>2. CASE Deploying(c)
    BY <2>2, SetElsewhere DEF Deploying, StartDeploy, StartDeployFails, RunContainer, RunFails,
       HealthPasses, HealthFails, CleanUpFails, SaveDeployment, dockerVars
  <2>3. CASE RemoveContainer(c)
    <3>1. call[c] # Idle /\ call[c].task = "undeploy" /\ call[c].at = "undeploy"
      BY <2>3, StandsThere, BusyIs DEF RemoveContainer, At, Requests, Stands, ImportTasks, Deploys
    <3>2. \A d \in records : d.id = call[c].id => d.of # s
      BY <3>1, FoundIsOwn DEF Reads
    <3> QED
      BY <2>3, <3>2, SetElsewhere DEF RemoveContainer
  <2>4. CASE RemoveContainerFails(c) \/ DropRecords(c)
    BY <2>4 DEF RemoveContainerFails, DropRecords
  <2>5. CASE Hosting(c)
    BY <2>5, SetElsewhere DEF Hosting, RunAgent, RunAgentFails, StopAgent, StartAgent, RemoveAgent,
       SaveTemplate, DeleteTemplate
  <2> QED
    BY <2>1, <2>2, <2>3, <2>4, <2>5 DEF Serving, Undeploying
<1> QED
  BY <1>1, <1>2

(* Only a write changes the file; one that is not stale changes what it edits. *)
LEMMA OnlyWrites ==
    ASSUME NEW c \in Slots, Serving(c)
    PROVE  \/ targets' = targets
           \/ /\ WriteTargets(c) /\ UNCHANGED dockerVars
              /\ ~staleWrite' => targets' = Changed(targets, call[c].ids, call[c].url)
<1>1. CASE WriteTargets(c)
  BY <1>1 DEF WriteTargets, WriteBack, registryVars
<1>2. CASE LoadTargets(c) \/ LoadRecords(c) \/ FileFails(c)
  BY <1>2 DEF LoadTargets, LoadRecords, FileFails, registryVars
<1>3. CASE Importing(c)
  BY <1>3 DEF Importing, CheckImport, Unpack, UnpackFails, DeleteProject, registryVars
<1>4. CASE Deploying(c)
  BY <1>4 DEF Deploying, StartDeploy, StartDeployFails, RunContainer, RunFails, HealthPasses,
     HealthFails, CleanUpFails, SaveDeployment, registryVars
<1>5. CASE Undeploying(c)
  BY <1>5 DEF Undeploying, RemoveContainer, RemoveContainerFails, DropRecords, registryVars
<1>6. CASE Hosting(c)
  BY <1>6 DEF Hosting, RunAgent, RunAgentFails, StopAgent, StartAgent, RemoveAgent, SaveTemplate,
     DeleteTemplate, registryVars
<1> QED
  BY <1>1, <1>2, <1>3, <1>4, <1>5, <1>6 DEF Serving

(* So do its targets, unless a stale copy was written back. *)
LEMMA TargetsElsewhere ==
    ASSUME IType, IEdits, NEW c \in Slots, Serving(c), NEW s \in Subjects, call[c].of # s,
           Trusted(s)', NEW t \in Own(s)
    PROVE  targets'[t] = targets[t]
<1> USE DEF IType, TypeOK
<1>1. CASE targets' = targets
  BY <1>1
<1>2. CASE /\ WriteTargets(c) /\ UNCHANGED dockerVars
           /\ targets' = Changed(targets, call[c].ids, call[c].url)
  <2>1. t \in TargetIds
    BY OwnTargets
  <2>2. call[c].at = "write" /\ call[c] \in Requests /\ call[c] # Idle /\ EditFits(call[c])
    BY <1>2, WhoServes DEF WriteTargets, At, IEdits
  <2>3. \A why \in SpoiledBy : <<s, why>> \notin spoiled
    BY <1>2 DEF Trusted, dockerVars
  <2>4. t = AgentTarget(s) \/ (s \in Projects /\ t \in {s} \X TargetTypes)
    BY DEF Own
  <2>5. ASSUME call[c].task = "deploy"
      PROVE  t \notin call[c].ids
    BY <2>2, <2>4, <2>5 DEF EditFits, LabTarget, AgentTarget
  <2>6. ASSUME call[c].task = "undeploy"
      PROVE  t \notin call[c].ids
    BY <2>2, <2>4, <2>6 DEF EditFits, AgentTarget
  <2>7. ASSUME call[c].task \in Deploys
      PROVE  t \notin call[c].ids
    BY <2>2, <2>4, <2>7 DEF EditFits, AgentTarget
  <2>8. ASSUME call[c].task = "remove"
      PROVE  t \notin call[c].ids
    <3>1. \A u \in call[c].ids : \E a \in Agents :
             u = AgentTarget(a) /\ (a = call[c].of \/ <<a, "image">> \in spoiled)
      BY <2>2, <2>8 DEF EditFits
    <3>2. \A a : AgentTarget(a) = t => a = s
      BY <2>4 DEF AgentTarget
    <3> QED
      BY <2>3, <3>1, <3>2 DEF SpoiledBy
  <2>9. call[c].task \in Deploys \union {"deploy", "undeploy", "remove"}
    BY <2>2 DEF Requests, Stands, ImportTasks, Deploys
  <2>10. t \notin call[c].ids
    BY <2>5, <2>6, <2>7, <2>8, <2>9
  <2> QED
    BY <1>2, <2>1, <2>10 DEF Changed
<1> QED
  BY <1>1, <1>2, OnlyWrites DEF Trusted
-----------------------------------------------------------------------------
(* A step keeps what another subject was promised. *)

(* At a plain stage the subject of a request is promised what it is at rest. *)
Plain(r) ==
    /\ ~Raises(r) /\ ~Clears(r) /\ ~(r.task = "deploy" /\ r.at = "run")
    /\ r.of \in Agents => ~(r.task \in Deploys \union {"remove"} /\ Editing(r))

LEMMA PlainRests ==
    ASSUME NEW r, Plain(r), r.of \in Subjects
    PROVE  Stage(r) <=> Rests(r.of)
<1>1. AccountStage(r) <=> Accounted(r.of)
  BY DEF Plain, AccountStage
<1>2. AliveStage(r) <=> Alive(r.of) /\ Backed(r.of, TargetTypes)
  BY DEF Plain, AliveStage, BackedTypes, Raises, Clears, Editing
<1>3. r.of \in Agents => (AgentStage(r) <=> Together(r.of))
  BY DEF Plain, AgentStage, Editing
<1> QED
  BY <1>1, <1>2, <1>3 DEF Stage, Rests

LEMMA RestsPlain ==
    ASSUME NEW d \in Slots, Plain(call[d])', NEW s \in Subjects, call'[d].of = s, Rests(s)'
    PROVE  Stage(call[d])'
<1>1. AccountStage(call[d])' <=> Accounted(s)'
  BY DEF Plain, AccountStage
<1>2. AliveStage(call[d])' <=> Alive(s)' /\ Backed(s, TargetTypes)'
  BY DEF Plain, AliveStage, BackedTypes, Raises, Clears, Editing
<1>3. s \in Agents => (AgentStage(call[d])' <=> Together(s)')
  BY DEF Plain, AgentStage, Editing
<1> QED
  BY <1>1, <1>2, <1>3 DEF Stage, Rests

(* A handler keeps what the subjects of other requests were promised. *)
LEMMA HandlerElsewhere ==
    ASSUME IType, IRecords, IEdits, NEW c \in Slots, Serving(c),
           NEW s \in Subjects, call[c].of # s, Fits(s), Alone(s)'
    PROVE  Fits(s)'
<1> USE DEF IType, TypeOK
<1>1. Untouched(s)
  BY DockerElsewhere, TargetsElsewhere, ServedRecords DEF Untouched, LabTypeOK
<1>2. /\ \A d \in Slots : Works(d, s)' <=> Works(d, s)
      /\ \A d \in Slots : Works(d, s) => d # c /\ call'[d] = call[d]
  BY ServedCall DEF Works, Others
<1>3. ASSUME \A d \in Slots : ~Works(d, s)'
      PROVE  Rests(s)'
  BY <1>1, <1>2, <1>3, RestsKept DEF Fits
<1>4. ASSUME NEW d \in Slots, Works(d, s)'
      PROVE  Stage(call[d])'
  <2>1. call[d].of = s /\ Stage(call[d]) /\ SameRequest(d)
    BY <1>2, <1>4 DEF Fits, Works, SameRequest
  <2> QED
    BY <1>1, <2>1, StageKept
<1> QED
  BY <1>3, <1>4 DEF Fits

(* The operator's requests begin at rest, and the console's end at rest. *)
LEMMA ConsoleFits ==
    ASSUME IType, Operate \/ Continue, NEW s \in Subjects, Fits(s), Alone(s)'
    PROVE  Fits(s)'
<1>1. Untouched(s)
  BY ConsoleAsks DEF Untouched, RecordsOf, InContainer
<1>2. ASSUME NEW d \in Slots
      PROVE  \/ ~Works(d, s) /\ ~Works(d, s)'
             \/ Works(d, s) /\ Works(d, s)' /\ SameRequest(d)
             \/ ~Works(d, s) /\ Works(d, s)' /\ call'[d].at \in FirstSteps
  <2>1. CASE call'[d] = call[d]
    BY <2>1 DEF Works, SameRequest
  <2>2. CASE call[d] \in Requests /\ call'[d] = [call[d] EXCEPT !.live = FALSE]
    BY <2>2 DEF Works, SameRequest, Requests, Shape
  <2>3. CASE call[d] = Idle /\ call'[d] \in Opening
    BY <2>3, IdleIs DEF Works, Opening
  <2>4. CASE call[d].at \in Reads \union {"answered"} /\ (call'[d] = Idle \/ call'[d].at \in Reads)
    BY <2>4, IdleIs DEF Works
  <2> QED
    BY <2>1, <2>2, <2>3, <2>4, ConsoleKeeps DEF Kept, Unserved
<1>3. ASSUME \A d \in Slots : ~Works(d, s)
      PROVE  Rests(s)'
  BY <1>1, <1>3, RestsKept DEF Fits
<1>4. ASSUME NEW d \in Slots, Works(d, s)'
      PROVE  Stage(call[d])'
  <2>1. CASE Works(d, s)
    BY <1>1, <1>2, <2>1, StageKept DEF Fits, Works
  <2>2. CASE ~Works(d, s)
    <3>1. call'[d].at \in FirstSteps /\ call'[d].of = s
      BY <1>2, <1>4, <2>2 DEF Works
    <3>2. \A e \in Slots : ~Works(e, s)
      BY <1>2, <1>4, <2>2 DEF Alone
    <3>3. Plain(call[d])'
      BY <3>1 DEF FirstSteps, Plain, Raises, Clears, Editing, Recording
    <3> QED
      BY <1>3, <3>1, <3>2, <3>3, RestsPlain
  <2> QED
    BY <2>1, <2>2
<1> QED
  BY <1>2, <1>3, <1>4 DEF Fits

(* The stage a handler's action leads to, or the rest. *)
Lands(c, s) ==
    /\ call'[c].at = "answered" => Rests(s)'
    /\ call'[c].at # "answered" => Stage(call[c])'

(* Where a handler's action lands decides for the subject of its request. *)
LEMMA LandsFits ==
    ASSUME IType, NEW c \in Slots, Serving(c), NEW s, s = call[c].of, Alone(s), Alone(s)', Lands(c, s)
    PROVE  Fits(s)'
<1>1. Works(c, s)
  BY WhoServes DEF IType, Works
<1>2. \A d \in Slots : Works(d, s)' => d = c
  BY <1>1, ServedCall DEF IType, TypeOK, Alone
<1>3. Works(c, s)' <=> call'[c].at # "answered"
  BY ServedCall DEF IType, TypeOK
<1> QED
  BY <1>2, <1>3 DEF Fits, Lands

LEMMA LandsPlain ==
    ASSUME NEW c \in Slots, NEW s \in Subjects, call'[c].of = s, Rests(s)', Plain(call[c])'
    PROVE  Lands(c, s)
BY RestsPlain DEF Lands

LEMMA LandsAnswered ==
    ASSUME NEW c \in Slots, NEW s, call'[c].at = "answered", Rests(s)'
    PROVE  Lands(c, s)
BY DEF Lands
-----------------------------------------------------------------------------
(* A step keeps what the subject of its own request was promised. *)

(* Nothing changes but the request, which stands where its subject rests. *)
LEMMA QuietLands ==
    ASSUME NEW c \in Slots, NEW s \in Subjects, call[c].of = s, call'[c].of = s, Stage(call[c]),
           Plain(call[c]), call'[c].at = "answered" \/ Plain(call[c])', Untouched(s)
    PROVE  Lands(c, s)
<1>1. Rests(s)'
  BY PlainRests, RestsKept
<1> QED
  BY <1>1, LandsAnswered, LandsPlain

LEMMA SameDocker ==
    ASSUME LabTypeOK, UNCHANGED <<container, records, spoiled, registryVars>>, NEW s
    PROVE  Untouched(s)
BY DEF Untouched, RecordsOf, InContainer, registryVars

(* A request that is answered with what it was about given up. *)
LEMMA SpoiltLands ==
    ASSUME NEW c \in Slots, NEW s, call'[c].at = "answered",
           \E why \in {"docker", "unsaved", "unrecorded"} : <<s, why>> \in spoiled'
    PROVE  Lands(c, s)
<1>1. ~Tracked(s)' /\ ~Trusted(s)'
  BY DEF Tracked, Trusted, SpoiledBy
<1> QED
  BY <1>1 DEF Lands, Rests

(* A file that cannot be read or written. *)
LEMMA FailLands ==
    ASSUME IType, NEW c \in Slots, call[c] \in Requests, NEW s, s = call[c].of, FileFails(c)
    PROVE  Lands(c, s)
<1>1. call'[c].at = "answered"
  BY FailedFields DEF IType
<1>2. \E why \in {"docker", "unsaved", "unrecorded"} : <<s, why>> \in spoiled'
  BY DEF FileFails
<1> QED
  BY <1>1, <1>2, SpoiltLands

(* Reading the records changes nothing. *)
LEMMA ReadLands ==
    ASSUME IType, NEW c \in Slots, call[c] \in Requests, NEW s \in Subjects, s = call[c].of,
           LoadRecords(c), Stage(call[c])
    PROVE  Lands(c, s)
<1> USE DEF IType, TypeOK
<1>1. /\ SameTask(c) /\ call'[c].url = call[c].url
      /\ call'[c].at = IF call[c].at = "record" THEN "save" ELSE "dropping"
  BY ReadFields
<1>2. call[c].at \in {"record", "drop"} /\ call'[c].ids = call[c].ids
  BY DEF LoadRecords, CallFits, Requests, Shape
<1>3. SameRequest(c)
  BY <1>1, <1>2 DEF SameRequest, SameTask
<1>4. Untouched(s)
  BY SameDocker DEF LoadRecords, dockerVars
<1>5. Stage(call[c])'
  BY <1>3, <1>4, StageKept
<1> QED
  BY <1>1, <1>2, <1>5 DEF Lands

(* Importing and deleting a project change no container. *)
LEMMA ImportLands ==
    ASSUME IType, NEW c \in Slots, call[c] \in Requests, NEW s \in Subjects, s = call[c].of,
           call[c].task \in ImportTasks \union {"delete"}, Importing(c), Stage(call[c])
    PROVE  Lands(c, s)
<1> USE DEF IType, TypeOK
<1>1. s \in Projects /\ Projects \intersect Agents = {}
  BY LabAssumption DEF Requests, About, ProjectTasks
<1>2. Plain(call[c])
  BY <1>1 DEF Plain, Raises, Clears, ImportTasks
<1>3. UNCHANGED <<container, records, spoiled, registryVars>>
  BY DEF Importing, CheckImport, Unpack, UnpackFails, DeleteProject, dockerVars
<1>4. Goes(c, "unpack") \/ \E ok : Answers(c, ok)
  BY DEF Importing, CheckImport, Unpack, UnpackFails, DeleteProject
<1>5. SameTask(c)
  BY <1>4, AnswersFields, GoesFields
<1>6. Plain(call[c])'
  BY <1>1, <1>5 DEF Plain, Raises, Clears, ImportTasks, SameTask
<1> QED
  BY <1>2, <1>3, <1>5, <1>6, SameDocker, QuietLands DEF SameTask

(* An agent is where it was, up or not; a project's promises are given back. *)
LEMMA AgentChanges ==
    ASSUME LabTypeOK, NEW s \in Subjects, Rests(s), registryVars' = registryVars,
           spoiled' = spoiled \union ({s} \intersect Projects) \X {"agents"},
           s \in Agents => (container'[s] = Absent <=> container[s] = Absent)
    PROVE  Rests(s)'
<1>1. targets' = targets /\ staleWrite' = staleWrite /\ spoiled \subseteq spoiled'
  BY DEF registryVars
<1>2. (Tracked(s)' => Tracked(s)) /\ (Trusted(s)' => Trusted(s))
  BY <1>1, PromisesStand
<1>3. s \in Projects => ~Tracked(s)' /\ ~Trusted(s)'
  BY DEF Tracked, Trusted, SpoiledBy
<1>4. s \in Agents /\ Trusted(s)' => Together(s)'
  BY <1>1, <1>2 DEF Rests, Together
<1> QED
  BY <1>3, <1>4 DEF Rests

(* Stopping and starting from the Agents view. *)
LEMMA StopStartLands ==
    ASSUME IType, NEW c \in Slots, call[c] \in Requests, NEW s \in Subjects, s = call[c].of,
           Stage(call[c]),
           \/ call[c].task = "stop" /\ StopAgent(c)
           \/ call[c].task = "start" /\ StartAgent(c)
    PROVE  Lands(c, s)
<1> USE DEF IType, TypeOK
<1>1. Rests(s)
  <2>1. Plain(call[c])
    BY DEF Plain, Raises, Clears, Deploys
  <2> QED
    BY <2>1, PlainRests
<1>2. call'[c].at = "answered"
  <2>1. \E ok : Answers(c, ok)
    BY DEF StopAgent, StartAgent
  <2> QED
    BY <2>1, AnswersFields
<1>3. container[s] \in Container /\ DOMAIN container = Subjects
  BY DEF LabTypeOK, Subjects
<1>4. CASE UNCHANGED <<container, records, spoiled, registryVars>>
  BY <1>1, <1>2, <1>4, SameDocker, RestsKept, LandsAnswered
<1>5. CASE \/ StopAgent(c) /\ container[s].at = "up"
           \/ StartAgent(c)
  <2>1. /\ registryVars' = registryVars
        /\ spoiled' = spoiled \union ({s} \intersect Projects) \X {"agents"}
    BY <1>5 DEF StopAgent, StartAgent, Spoil
  <2>2. container'[s] = Absent <=> container[s] = Absent
    <3>1. \/ container' = container
          \/ /\ container[s].at \in {"up", "exited", "created"}
             /\ \E at \in {"up", "exited"} : SetContainer(s, [container[s] EXCEPT !.at = at])
      BY <1>5 DEF StopAgent, StartAgent
    <3>2. ASSUME NEW at \in {"up", "exited"}, SetContainer(s, [container[s] EXCEPT !.at = at])
          PROVE  container'[s] = [container[s] EXCEPT !.at = at]
      BY <1>3, <3>2 DEF SetContainer
    <3>3. container[s].at \in {"up", "exited", "created"} =>
             /\ container[s] # Absent
             /\ \A at \in {"up", "exited"} : [container[s] EXCEPT !.at = at] # Absent
      BY <1>3 DEF Absent, Container
    <3> QED
      BY <3>1, <3>2, <3>3
  <2> QED
    BY <1>1, <1>2, <2>1, <2>2, AgentChanges, LandsAnswered
<1> QED
  BY <1>4, <1>5 DEF StopAgent, registryVars

(* Templates come and go without the agents. *)
LEMMA TemplateLands ==
    ASSUME IType, NEW c \in Slots, call[c] \in Requests, NEW s \in Subjects, s = call[c].of,
           Stage(call[c]),
           \/ call[c].task = "save-template" /\ SaveTemplate(c)
           \/ call[c].task = "delete-template" /\ DeleteTemplate(c)
    PROVE  Lands(c, s)
<1> USE DEF IType, TypeOK
<1>1. Plain(call[c])
  BY DEF Plain, Raises, Clears, Deploys
<1>2. UNCHANGED <<container, records, spoiled, registryVars>> /\ Answers(c, TRUE)
  BY DEF SaveTemplate, DeleteTemplate
<1>3. call'[c].at = "answered" /\ call'[c].of = s
  BY <1>2, AnswersFields DEF SameTask
<1> QED
  BY <1>1, <1>2, <1>3, SameDocker, QuietLands

(* The file after a write that is not stale, at a target of the request's own. *)
LEMMA Written ==
    ASSUME NEW c \in Slots, WriteTargets(c), NEW t \in TargetIds
    PROVE  /\ t \in call[c].ids /\ (call[c].url # None \/ call[c].copy[t] # None)
                 => targets'[t] = call[c].url
           /\ ~staleWrite' => targets' = targets
                              \/ targets' = Changed(targets, call[c].ids, call[c].url)
<1>1. CASE registryVars' = registryVars /\ call[c].url = None
                /\ call[c].ids \intersect Registered(call[c].copy) = {}
  BY <1>1 DEF registryVars, Registered
<1>2. CASE /\ targets' = Changed(call[c].copy, call[c].ids, call[c].url)
           /\ staleWrite' = (staleWrite \/ call[c].copy # targets)
  BY <1>2 DEF Changed
<1> QED
  BY <1>1, <1>2 DEF WriteTargets, WriteBack

(* An agent that runs without a target is one the operator typed in. *)
LEMMA RunAgentLands ==
    ASSUME IType, IEdits, NEW c \in Slots, call[c] \in Requests, call[c] # Idle,
           NEW s \in Subjects, s = call[c].of,
           Stage(call[c]), call[c].task \in Deploys, RunAgent(c) \/ RunAgentFails(c)
    PROVE  Lands(c, s)
<1> USE DEF IType, TypeOK
<1>1. /\ s \in Agents /\ s \notin Projects /\ DOMAIN container = Subjects
      /\ call[c].task \notin {"deploy", "undeploy", "remove"}
  BY LabAssumption DEF Requests, About, AgentTasks, LabTypeOK, Subjects, Deploys
<1>2. call[c].at = "run-agent" /\ EditFits(call[c])
  BY DEF RunAgent, RunAgentFails, At, IEdits
<1>3. Plain(call[c])
  BY <1>1, <1>2 DEF Plain, Raises, Clears, Editing
<1>4. Rests(s)
  BY <1>3, PlainRests
<1>5. CASE RunAgentFails(c)
  <2>1. call'[c].at = "answered"
    BY <1>5, AnswersFields DEF RunAgentFails
  <2>2. ~Trusted(s)'
    BY <1>5 DEF RunAgentFails, Trusted, SpoiledBy
  <2> QED
    BY <1>1, <2>1, <2>2, LandsAnswered DEF Rests
<1>6. CASE RunAgent(c) /\ container' = container /\ Answers(c, FALSE)
  <2>1. Untouched(s)
    BY <1>6, SameDocker DEF RunAgent
  <2>2. call'[c].at = "answered"
    BY <1>6, AnswersFields
  <2> QED
    BY <1>4, <2>1, <2>2, RestsKept, LandsAnswered
<1>7. CASE /\ RunAgent(c) /\ SetContainer(s, [at |-> "up", port |-> None, serves |-> TRUE])
           /\ IF AgentIds(c) = {} THEN Answers(c, TRUE)
                                  ELSE Edits(c, AgentIds(c), AgentUrl, "answered")
  <2>1. container'[s].at = "up" /\ container'[s] # Absent
    BY <1>1, <1>7 DEF SetContainer, Absent
  <2>2. CASE AgentIds(c) = {}
    <3>1. s \in Custom
      BY <1>1, <1>2, <2>2 DEF AgentIds, EditFits
    <3>2. Rests(s)'
      BY <1>1, <2>1, <3>1 DEF Rests, Together
    <3> QED
      BY <1>7, <2>2, <3>2, AnswersFields, LandsAnswered
  <2>3. CASE AgentIds(c) # {}
    <3>1. call'[c].at = "load" /\ call'[c].task = call[c].task /\ call'[c].of = s
      BY <1>7, <2>3, EditsFields DEF SameTask
    <3>2. AgentStage(call[c])'
      BY <1>1, <2>1, <3>1 DEF AgentStage, Editing
    <3> QED
      BY <1>1, <3>1, <3>2 DEF Lands, Stage
  <2> QED
    BY <2>2, <2>3
<1> QED
  BY <1>5, <1>6, <1>7 DEF RunAgent

(* The target of an agent that runs is registered. *)
LEMMA AgentEditLands ==
    ASSUME IType, IEdits, NEW c \in Slots, call[c] \in Requests, call[c] # Idle,
           NEW s \in Subjects, s = call[c].of,
           Stage(call[c]), call[c].task \in Deploys, LoadTargets(c) \/ WriteTargets(c)
    PROVE  Lands(c, s)
<1> USE DEF IType, TypeOK
<1>1. /\ s \in Agents /\ s \notin Projects /\ AgentTarget(s) \in TargetIds
      /\ call[c].task \notin {"deploy", "undeploy", "remove"}
      /\ AgentUrl # None
  BY LabAssumption DEF Requests, About, AgentTasks, Deploys, AgentTarget
<1>2. Editing(call[c]) /\ EditFits(call[c])
  BY DEF LoadTargets, WriteTargets, At, IEdits, Editing
<1>3. Trusted(s) => container[s] # Absent
  BY <1>1, <1>2 DEF Stage, AgentStage
<1>4. CASE LoadTargets(c)
  <2>1. call'[c].at = "write" /\ call'[c].task = call[c].task /\ call'[c].of = s
    BY <1>4, LoadFields DEF SameTask
  <2>2. Trusted(s)' => container'[s] # Absent
    BY <1>3, <1>4 DEF LoadTargets, Trusted, dockerVars, registryVars
  <2>3. Trusted(s)' => AgentStage(call[c])'
    BY <1>1, <2>1, <2>2 DEF AgentStage, Editing
  <2> QED
    BY <1>1, <2>1, <2>3 DEF Lands, Stage
<1>5. CASE WriteTargets(c)
  <2>1. call'[c].at = "answered"
    BY <1>1, <1>2, <1>5, WriteFields DEF Requests, Stands, Editing, ImportTasks, Deploys
  <2>2. targets'[AgentTarget(s)] = AgentUrl
    BY <1>1, <1>2, <1>5, Written DEF EditFits, Editing
  <2>3. (Trusted(s)' => Trusted(s)) /\ container' = container
    BY <1>5 DEF WriteTargets, WriteBack, Trusted, dockerVars, registryVars
  <2>4. Rests(s)'
    BY <1>1, <1>3, <2>2, <2>3 DEF Rests, Together
  <2> QED
    BY <2>1, <2>4, LandsAnswered
<1> QED
  BY <1>4, <1>5

(* A project's container that the Agents view removes: its promises are given back. *)
LEMMA RemoveAgentLands ==
    ASSUME IType, NEW c \in Slots, call[c] \in Requests, NEW s \in Subjects, s = call[c].of,
           Stage(call[c]), call[c].task = "remove", RemoveAgent(c)
    PROVE  Lands(c, s)
<1> USE DEF IType, TypeOK
<1>1. /\ s \in Projects \union Agents /\ DOMAIN container = Subjects
      /\ Projects \intersect Agents = {}
  BY LabAssumption DEF LabTypeOK, Subjects
<1>2. CASE UNCHANGED <<container, spoiled>> /\ Answers(c, TRUE)
  <2>1. Rests(s)
    <3>1. Plain(call[c])
      BY DEF RemoveAgent, At, Plain, Raises, Clears, Editing
    <3> QED
      BY <3>1, PlainRests
  <2>2. Untouched(s)
    BY <1>2, SameDocker DEF RemoveAgent
  <2> QED
    BY <1>2, <2>1, <2>2, RestsKept, AnswersFields, LandsAnswered
<1>3. CASE /\ container[s] # Absent
           /\ Edits(c, TargetsOfAgent(s), None, "answered")
           /\ \/ SetContainer(s, Absent) /\ UNCHANGED faults
              \/ UNCHANGED container /\ Fault
           /\ spoiled' = spoiled \union
                 (IF s \in Projects THEN {<<s, "agents">>}
                  ELSE {<<a, "image">> : a \in {a \in Agents \ {s} : Image[a] = Image[s]}}
                       \union (IF faults' = faults THEN {} ELSE {<<s, "docker">>}))
  <2>1. call'[c].at = "load" /\ call'[c].task = "remove" /\ call'[c].of = s
    BY <1>3, EditsFields DEF SameTask
  <2>2. CASE s \in Projects
    <3>1. ~Tracked(s)' /\ ~Trusted(s)'
      BY <1>3, <2>2 DEF Tracked, Trusted, SpoiledBy
    <3> QED
      BY <1>1, <2>1, <2>2, <3>1 DEF Lands, Stage
  <2>3. CASE s \in Agents
    <3>1. Trusted(s)' => container'[s] = Absent
      <4>1. CASE SetContainer(s, Absent)
        BY <1>1, <4>1 DEF SetContainer
      <4>2. CASE Fault
        <5>1. faults' # faults
          BY <4>2 DEF Fault, LabTypeOK
        <5>2. <<s, "docker">> \in spoiled'
          BY <1>1, <1>3, <2>3, <5>1
        <5> QED
          BY <5>2 DEF Trusted, SpoiledBy
      <4> QED
        BY <1>3, <4>1, <4>2
    <3>2. Trusted(s)' => AgentStage(call[c])'
      BY <2>1, <3>1 DEF AgentStage, Editing, Deploys
    <3> QED
      BY <1>1, <2>1, <2>3, <3>2 DEF Lands, Stage
  <2> QED
    BY <1>1, <2>2, <2>3
<1> QED
  BY <1>2, <1>3 DEF RemoveAgent

(* The target of an agent that was removed is taken out. *)
LEMMA RemovalEditLands ==
    ASSUME IType, IEdits, NEW c \in Slots, call[c] \in Requests, call[c] # Idle,
           NEW s \in Subjects, s = call[c].of,
           Stage(call[c]), call[c].task = "remove", LoadTargets(c) \/ WriteTargets(c)
    PROVE  Lands(c, s)
<1> USE DEF IType, TypeOK
<1>1. /\ s \in Projects \/ s \in Agents
      /\ Projects \intersect Agents = {}
      /\ s \in Agents => AgentTarget(s) \in TargetIds
      /\ "remove" \notin Deploys
  BY LabAssumption DEF Subjects, AgentTarget, Deploys
<1>2. Editing(call[c]) /\ EditFits(call[c])
  BY DEF LoadTargets, WriteTargets, At, IEdits, Editing
<1>3. s \in Agents /\ Trusted(s) => container[s] = Absent
  BY <1>1, <1>2 DEF Stage, AgentStage
<1>4. SameTask(c) /\ call'[c].of = s /\ call'[c].task = "remove"
  BY LoadFields, WriteFields DEF SameTask
<1>5. (Trusted(s)' => Trusted(s)) /\ container' = container
  BY DEF LoadTargets, WriteTargets, WriteBack, Trusted, dockerVars, registryVars
<1>6. CASE s \in Projects
  <2>1. Plain(call[c]) /\ Plain(call[c])'
    BY <1>1, <1>4, <1>6 DEF Plain, Raises, Clears
  <2>2. ASSUME Trusted(s)', NEW t \in Own(s)
        PROVE  targets'[t] = targets[t]
    <3>1. CASE LoadTargets(c)
      BY <3>1 DEF LoadTargets, registryVars
    <3>2. CASE WriteTargets(c)
      <4>1. t \notin call[c].ids /\ t \in TargetIds
        <5>1. \A u \in call[c].ids : \E a \in Agents : u = AgentTarget(a)
          BY <1>2 DEF EditFits, Editing
        <5>2. PICK type \in TargetTypes : t = <<s, type>>
          BY <1>6 DEF Own
        <5>3. type # "agent"
          BY DEF TargetTypes
        <5> QED
          BY <5>1, <5>2, <5>3, OwnTargets DEF AgentTarget
      <4> QED
        BY <2>2, <3>2, <4>1, Written DEF Trusted, Changed
    <3> QED
      BY <3>1, <3>2
  <2>3. /\ container'[s] = container[s] /\ RecordsOf(s)' = RecordsOf(s)
        /\ spoiled \subseteq spoiled' /\ (staleWrite => staleWrite')
    BY DEF LoadTargets, WriteTargets, WriteBack, dockerVars, registryVars, RecordsOf, InContainer,
       LabTypeOK
  <2>4. Untouched(s)
    BY <2>2, <2>3 DEF Untouched
  <2> QED
    BY <1>4, <2>1, <2>4, QuietLands
<1>7. CASE s \in Agents /\ LoadTargets(c)
  <2>1. call'[c].at = "write" /\ call'[c].copy = targets /\ targets' = targets
    BY <1>7, LoadFields DEF LoadTargets, registryVars
  <2>2. Trusted(s)' => AgentStage(call[c])'
    BY <1>1, <1>3, <1>4, <1>5, <1>7, <2>1 DEF AgentStage, Editing
  <2> QED
    BY <1>1, <1>4, <1>7, <2>1, <2>2 DEF Lands, Stage
<1>8. CASE s \in Agents /\ WriteTargets(c)
  <2>1. call'[c].at = "answered"
    BY <1>1, <1>2, <1>8, WriteFields DEF Requests, Stands, Editing, ImportTasks
  <2>2. ASSUME Trusted(s)'
        PROVE  Together(s)'
    <3>1. container'[s] = Absent
      BY <1>3, <1>5, <1>8, <2>2
    <3>2. call[c].at = "write" /\ AgentTarget(s) \in call[c].ids /\ call[c].url = None
      BY <1>2, <1>8 DEF WriteTargets, At, EditFits
    <3>3. call[c].copy[AgentTarget(s)] = targets[AgentTarget(s)]
      BY <1>1, <1>5, <1>8, <2>2, <3>2 DEF Stage, AgentStage
    <3>4. targets'[AgentTarget(s)] = None
      <4>1. CASE targets' = targets
        BY <1>1, <1>8, <3>2, <3>3, <4>1, Written
      <4>2. CASE targets' = Changed(targets, call[c].ids, call[c].url)
        BY <1>1, <1>8, <3>2, <4>2 DEF Changed
      <4> QED
        BY <1>1, <1>8, <2>2, <4>1, <4>2, Written DEF Trusted
    <3> QED
      BY <3>1, <3>4 DEF Together
  <2>3. Rests(s)'
    BY <1>1, <1>8, <2>2 DEF Rests
  <2> QED
    BY <2>1, <2>3, LandsAnswered
<1> QED
  BY <1>1, <1>6, <1>7, <1>8

(* An undeploy takes the container first, when no other target is left behind. *)
LEMMA UndeployLands ==
    ASSUME IType, IRecords, NEW c \in Slots, call[c] \in Requests, call[c] # Idle,
           NEW s \in Subjects, s = call[c].of,
           Stage(call[c]), call[c].task = "undeploy", RemoveContainer(c) \/ RemoveContainerFails(c)
    PROVE  Lands(c, s)
<1> USE DEF IType, TypeOK
<1>1. /\ s \in Projects /\ s \notin Agents /\ DOMAIN container = Subjects
      /\ call[c].at = "undeploy" /\ "undeploy" \notin Deploys
  BY LabAssumption DEF RemoveContainer, RemoveContainerFails, At, Requests, About, ProjectTasks,
     LabTypeOK, Subjects, Deploys
<1>2. Rests(s)
  <2>1. Plain(call[c])
    BY <1>1 DEF Plain, Raises, Clears, Editing
  <2> QED
    BY <2>1, PlainRests
<1>3. CASE (\E ok : Answers(c, ok)) /\ UNCHANGED <<container, spoiled>>
  <2>1. Untouched(s)
    BY <1>3, SameDocker DEF RemoveContainer, RemoveContainerFails
  <2> QED
    BY <1>2, <1>3, <2>1, RestsKept, AnswersFields, LandsAnswered
<1>4. ASSUME NEW d \in records, d.id = call[c].id, Edits(c, {d.target}, None, "drop")
      PROVE  /\ d.of = s
             /\ call'[c].at = "load" /\ call'[c].task = "undeploy" /\ call'[c].of = s
             /\ call'[c].ids = {d.target}
  BY <1>1, <1>4, FoundIsOwn, EditsFields DEF SameTask, Reads
<1>5. ASSUME NEW d \in records, d.id = call[c].id, Edits(c, {d.target}, None, "drop"),
             spoiled' = spoiled \union {<<d.of, "docker">>}
      PROVE  Lands(c, s)
  <2>1. ~Tracked(s)' /\ ~Trusted(s)'
    BY <1>4, <1>5 DEF Tracked, Trusted, SpoiledBy
  <2> QED
    BY <1>1, <1>4, <1>5, <2>1 DEF Lands, Stage
<1>6. ASSUME NEW d \in records, d.id = call[c].id, Edits(c, {d.target}, None, "drop"),
             RemoveContainer(c), SetContainer(d.of, Absent),
             spoiled' = IF LeavesTargets(d) THEN spoiled \union {<<d.of, "types">>} ELSE spoiled
      PROVE  Lands(c, s)
  <2>1. container'[s] = Absent /\ Absent.at # "up"
    BY <1>1, <1>4, <1>6 DEF SetContainer, Absent
  <2>2. ~Raises(call[c])' /\ Clears(call[c])' /\ Editing(call[c])'
    BY <1>4, <1>6 DEF Raises, Clears, Editing
  <2>3. AccountStage(call[c])'
    BY <1>4, <1>6, <2>1, <2>2 DEF AccountStage, Accounted
  <2>4. ASSUME Trusted(s)'
        PROVE  AliveStage(call[c])'
    <3>1. ~LeavesTargets(d) /\ Trusted(s) /\ targets' = targets /\ records' = records
      BY <1>4, <1>6, <2>4 DEF RemoveContainer, Trusted, SpoiledBy, registryVars
    <3>2. Backed(s, TargetTypes)
      BY <1>1, <1>2, <3>1 DEF Rests
    <3>3. \A type \in TargetTypes : Url(s, type)' \in Ports => LabTarget(s, type) \in call'[c].ids
      BY <1>4, <1>6, <3>1, <3>2 DEF Backed, LeavesTargets, Url
    <3>4. Backed(s, TargetTypes)'
      BY <3>1, <3>2 DEF Backed, Url, RecordsOf, InContainer
    <3> QED
      BY <1>4, <1>6, <2>2, <3>3, <3>4 DEF AliveStage, BackedTypes
  <2> QED
    BY <1>1, <1>4, <1>6, <2>3, <2>4 DEF Lands, Stage
<1> QED
  BY <1>3, <1>5, <1>6 DEF RemoveContainer, RemoveContainerFails

(* Then the target, then the records: nothing on a port is left at the end. *)
LEMMA UndeployEditLands ==
    ASSUME IType, IEdits, NEW c \in Slots, call[c] \in Requests, call[c] # Idle,
           NEW s \in Subjects, s = call[c].of,
           Stage(call[c]), call[c].task = "undeploy",
           LoadTargets(c) \/ WriteTargets(c) \/ DropRecords(c)
    PROVE  Lands(c, s)
<1> USE DEF IType, TypeOK
<1>1. /\ s \in Projects /\ s \notin Agents
      /\ "undeploy" \notin Deploys /\ None \notin Ports
      /\ \A type \in TargetTypes : LabTarget(s, type) \in TargetIds
  BY LabAssumption DEF Requests, About, ProjectTasks, Deploys, LabTarget
<1>2. Clears(call[c]) /\ EditFits(call[c])
  BY DEF LoadTargets, WriteTargets, DropRecords, At, IEdits, Clears
<1>3. Tracked(s) => container[s].at # "up"
  BY <1>1, <1>2 DEF Stage, AccountStage
<1>4. ASSUME Trusted(s), NEW type \in TargetTypes, Url(s, type) \in Ports
      PROVE  Editing(call[c]) /\ LabTarget(s, type) \in call[c].ids
  BY <1>1, <1>2, <1>4 DEF Stage, AliveStage
<1>5. /\ container' = container
      /\ (Tracked(s)' => Tracked(s)) /\ (Trusted(s)' => Trusted(s))
  <2>1. container' = container /\ spoiled \subseteq spoiled' /\ (staleWrite => staleWrite')
    BY DEF LoadTargets, WriteTargets, WriteBack, DropRecords, WriteRecords, dockerVars,
       registryVars, LabTypeOK
  <2> QED
    BY <2>1, PromisesStand
<1>6. Accounted(s)' \/ ~Tracked(s)'
  BY <1>3, <1>5 DEF Accounted
<1>7. CASE LoadTargets(c)
  <2>1. /\ call'[c].at = "write" /\ call'[c].task = "undeploy" /\ call'[c].of = s
        /\ call'[c].ids = call[c].ids /\ call'[c].copy = targets
        /\ call[c].at = "load" /\ targets' = targets /\ records' = records
    BY <1>7, LoadFields DEF SameTask, LoadTargets, At, registryVars, dockerVars
  <2>2. Clears(call[c])' /\ ~Raises(call[c])' /\ ~Raises(call[c]) /\ Editing(call[c])'
    BY <2>1, <1>2 DEF Clears, Raises, Editing
  <2>3. Tracked(s)' => AccountStage(call[c])'
    BY <1>3, <1>5, <1>6, <2>1 DEF AccountStage
  <2>4. ASSUME Trusted(s)'
        PROVE  AliveStage(call[c])'
    <3>1. \A type \in TargetTypes : Url(s, type)' = Url(s, type)
      BY <2>1 DEF Url
    <3>2. \A type \in TargetTypes : Url(s, type)' \in Ports => LabTarget(s, type) \in call'[c].ids
      BY <1>4, <1>5, <2>1, <2>4, <3>1
    <3>3. Backed(s, TargetTypes)
      BY <1>1, <1>5, <2>2, <2>4 DEF Stage, AliveStage, BackedTypes
    <3>4. Backed(s, TargetTypes)'
      BY <2>1, <3>1, <3>3 DEF Backed, RecordsOf, InContainer
    <3>5. \A type \in TargetTypes : call'[c].copy[LabTarget(s, type)] = Url(s, type)'
      BY <2>1 DEF Url
    <3> QED
      BY <2>1, <2>2, <3>2, <3>4, <3>5 DEF AliveStage, BackedTypes
  <2> QED
    BY <1>1, <2>1, <2>3, <2>4 DEF Lands, Stage
<1>8. CASE WriteTargets(c)
  <2>1. /\ call'[c].at = "drop" /\ call'[c].task = "undeploy" /\ call'[c].of = s
        /\ call[c].at = "write" /\ call[c].url = None
    BY <1>2, <1>8, WriteFields DEF SameTask, WriteTargets, At, Requests, Stands, ImportTasks,
       Deploys, EditFits
  <2>2. Clears(call[c])' /\ ~Raises(call[c])' /\ ~Editing(call[c])'
    BY <2>1 DEF Clears, Raises, Editing
  <2>3. Tracked(s)' => AccountStage(call[c])'
    BY <1>3, <1>5, <1>6, <2>1 DEF AccountStage
  <2>4. ASSUME Trusted(s)', NEW type \in TargetTypes
        PROVE  Url(s, type)' \notin Ports
    <3>1. call[c].copy[LabTarget(s, type)] = Url(s, type)
      BY <1>1, <1>2, <1>5, <2>1, <2>4 DEF Stage, AliveStage
    <3>2. CASE LabTarget(s, type) \in call[c].ids /\ Url(s, type) # None
      BY <1>1, <1>8, <2>1, <3>1, <3>2, Written DEF Url
    <3>3. CASE LabTarget(s, type) \notin call[c].ids
      <4>1. Url(s, type) \notin Ports
        BY <1>4, <1>5, <2>4, <3>3
      <4>2. targets'[LabTarget(s, type)] = targets[LabTarget(s, type)]
        BY <1>1, <1>8, <2>4, <3>3, Written DEF Trusted, Changed
      <4> QED
        BY <4>1, <4>2 DEF Url
    <3>4. CASE Url(s, type) = None
      <4>1. targets'[LabTarget(s, type)] = None
        BY <1>1, <1>8, <2>1, <2>4, <3>4, Written DEF Trusted, Changed, Url
      <4> QED
        BY <1>1, <4>1 DEF Url
    <3> QED
      BY <3>2, <3>3, <3>4
  <2>5. Trusted(s)' => AliveStage(call[c])'
    BY <2>1, <2>2, <2>4 DEF AliveStage, Backed, BackedTypes
  <2> QED
    BY <1>1, <2>1, <2>3, <2>5 DEF Lands, Stage
<1>9. CASE DropRecords(c)
  <2>1. call'[c].at = "answered"
    BY <1>9, DroppedFields
  <2>2. ASSUME Trusted(s)', NEW type \in TargetTypes
        PROVE  Url(s, type)' \notin Ports
    <3>1. ~Editing(call[c]) /\ targets' = targets
      BY <1>9 DEF DropRecords, At, Editing, registryVars
    <3> QED
      BY <1>4, <1>5, <2>2, <3>1 DEF Url
  <2>3. Rests(s)'
    BY <1>1, <1>6, <2>2 DEF Rests, Alive, Backed
  <2> QED
    BY <2>1, <2>3, LandsAnswered
<1> QED
  BY <1>7, <1>8, <1>9

(* docker run failed, or the container never served: it is not up, and a redeploy *)
(* has lost the container before it.                                              *)
LEMMA LosesLands ==
    ASSUME IType, NEW c \in Slots, NEW s \in Projects, s \notin Agents, call'[c].at = "answered",
           container'[s].at # "up", Trusted(s) => Backed(s, TargetTypes),
           UNCHANGED <<records, registryVars>>, LosesOld(s)
    PROVE  Lands(c, s)
<1>1. Accounted(s)'
  BY DEF Accounted
<1>2. ASSUME Trusted(s)'
      PROVE  Alive(s)' /\ Backed(s, TargetTypes)'
  <2>1. RecordsOf(s) = {} /\ Trusted(s) /\ targets' = targets
    BY <1>2 DEF LosesOld, Trusted, SpoiledBy, registryVars
  <2>2. \A type \in TargetTypes : Url(s, type)' \notin Ports
    BY <2>1 DEF Backed, Url
  <2> QED
    BY <2>2 DEF Alive, Backed
<1> QED
  BY <1>1, <1>2, LandsAnswered DEF Rests

(* A deploy takes the old container away, or only registers an endpoint. *)
LEMMA StartLands ==
    ASSUME IType, NEW c \in Slots, call[c] \in Requests, call[c] # Idle,
           NEW s \in Projects, s = call[c].of, s \notin Agents, Stage(call[c]),
           call[c].task = "deploy", StartDeploy(c) \/ StartDeployFails(c)
    PROVE  Lands(c, s)
<1> USE DEF IType, TypeOK
<1>1. /\ call[c].at = "deploy" /\ DOMAIN container = Subjects /\ s \in Subjects
      /\ "deploy" \notin Deploys
  BY DEF StartDeploy, StartDeployFails, At, LabTypeOK, Subjects, Deploys
<1>2. Plain(call[c])
  BY <1>1 DEF Plain, Raises, Clears, Editing, Recording
<1>3. Rests(s)
  BY <1>1, <1>2, PlainRests
<1>4. CASE Answers(c, FALSE) /\ UNCHANGED <<container, records, spoiled, registryVars>>
  BY <1>1, <1>2, <1>4, SameDocker, AnswersFields, QuietLands DEF SameTask
<1>5. CASE /\ \E ids : Edits(c, ids, External, "record")
           /\ UNCHANGED <<container, records, spoiled, registryVars>>
  <2>1. call'[c].url = External /\ call'[c].task = "deploy" /\ call'[c].of = s /\ call'[c].at = "load"
    BY <1>5, EditsFields DEF SameTask
  <2>2. Plain(call[c])'
    BY <2>1, LabAssumption DEF Plain, Raises, Clears
  <2> QED
    BY <1>1, <1>2, <1>5, <2>1, <2>2, SameDocker, QuietLands
<1>6. CASE /\ Goes(c, "run") /\ SetContainer(s, Absent)
           /\ UNCHANGED <<records, spoiled, registryVars>>
  <2>1. call'[c].task = "deploy" /\ call'[c].of = s /\ call'[c].at = "run"
    BY <1>6, GoesFields DEF SameTask
  <2>2. container'[s] = Absent /\ Absent.at # "up"
    BY <1>1, <1>6 DEF SetContainer, Absent, Subjects
  <2>3. ~Raises(call[c])' /\ ~Clears(call[c])' /\ ~Editing(call[c])'
    BY <2>1 DEF Raises, Clears, Editing, Recording
  <2>4. AccountStage(call[c])'
    BY <2>1, <2>2, <2>3 DEF AccountStage, Accounted
  <2>5. ASSUME Trusted(s)'
        PROVE  AliveStage(call[c])'
    <3>1. Backed(s, TargetTypes) /\ targets' = targets /\ records' = records
      BY <1>3, <1>6, <2>5 DEF Rests, Trusted, registryVars
    <3>2. Backed(s, TargetTypes)'
      BY <3>1 DEF Backed, Url, RecordsOf, InContainer
    <3> QED
      BY <2>1, <2>2, <2>3, <3>2 DEF AliveStage, BackedTypes
  <2> QED
    BY <2>1, <2>4, <2>5 DEF Lands, Stage
<1>7. CASE Goes(c, "run") /\ UNCHANGED <<container, records, spoiled, registryVars>>
  <2>1. call'[c].task = "deploy" /\ call'[c].of = s /\ call'[c].at = "run"
    BY <1>7, GoesFields DEF SameTask
  <2>2. Rests(s)'
    BY <1>1, <1>3, <1>7, SameDocker, RestsKept
  <2>3. ~Raises(call[c])' /\ ~Clears(call[c])' /\ ~Editing(call[c])'
    BY <2>1 DEF Raises, Clears, Editing, Recording
  <2>4. Tracked(s)' => AccountStage(call[c])'
    BY <2>1, <2>2, <2>3 DEF Rests, AccountStage
  <2>5. Trusted(s)' => AliveStage(call[c])'
    BY <2>1, <2>2, <2>3 DEF Rests, AliveStage, BackedTypes
  <2> QED
    BY <2>1, <2>4, <2>5 DEF Lands, Stage
<1> QED
  BY <1>4, <1>5, <1>6, <1>7 DEF StartDeploy, StartDeployFails, dockerVars

(* The new container is up or its promises are given back. *)
LEMMA RunLands ==
    ASSUME IType, NEW c \in Slots, call[c] \in Requests, call[c] # Idle,
           NEW s \in Projects, s = call[c].of, s \notin Agents, Stage(call[c]),
           call[c].task = "deploy", RunContainer(c) \/ RunFails(c)
    PROVE  Lands(c, s)
<1> USE DEF IType, TypeOK
<1>1. /\ call[c].at = "run" /\ DOMAIN container = Subjects /\ s \in Subjects
      /\ "deploy" \notin Deploys /\ ~Raises(call[c]) /\ ~Clears(call[c])
  <2>1. call[c].at = "run" /\ DOMAIN container = Subjects /\ s \in Subjects
    BY DEF RunContainer, RunFails, At, LabTypeOK, Subjects
  <2> QED
    BY <2>1 DEF Deploys, Raises, Clears, Editing, Recording
<1>2. /\ Tracked(s) => Accounted(s)
      /\ Trusted(s) => (container[s] = Absent \/ Alive(s)) /\ Backed(s, TargetTypes)
  BY <1>1 DEF Stage, AccountStage, AliveStage, BackedTypes
<1>3. CASE /\ container[s] # Absent /\ Answers(c, FALSE)
           /\ UNCHANGED <<container, records, spoiled, registryVars>>
  <2>1. Untouched(s)
    BY <1>3, SameDocker
  <2>2. Rests(s)
    BY <1>2, <1>3 DEF Rests
  <2> QED
    BY <1>1, <1>3, <2>1, <2>2, RestsKept, AnswersFields, LandsAnswered
<1>4. ASSUME NEW port \in Ports, NEW serves \in BOOLEAN, SetContainer(s, Running(port, serves)),
             call' = [call EXCEPT ![c].at = "health", ![c].url = port],
             UNCHANGED <<records, spoiled, registryVars>>
      PROVE  Lands(c, s)
  <2>1. /\ call'[c].task = "deploy" /\ call'[c].of = s /\ call'[c].at = "health"
        /\ call'[c].url = port
    BY <1>4, StartedFields DEF SameTask
  <2>2. container'[s] = Running(port, serves)
    BY <1>1, <1>4 DEF SetContainer, Subjects
  <2>3. Raises(call[c])' /\ ~Clears(call[c])' /\ ~Editing(call[c])'
    BY <2>1 DEF Raises, Clears, Editing
  <2>4. AccountStage(call[c])'
    BY <2>3 DEF AccountStage
  <2>5. ASSUME Trusted(s)'
        PROVE  AliveStage(call[c])'
    <3>1. Backed(s, TargetTypes) /\ targets' = targets /\ records' = records
      BY <1>2, <1>4, <2>5 DEF Trusted, registryVars
    <3>2. Backed(s, TargetTypes)'
      BY <3>1 DEF Backed, Url, RecordsOf, InContainer
    <3> QED
      BY <2>1, <2>2, <2>3, <3>2 DEF AliveStage, BackedTypes, Recording
  <2> QED
    BY <2>1, <2>4, <2>5 DEF Lands, Stage
<1>5. CASE RunFails(c)
  <2>1. container'[s].at # "up"
    BY <1>1, <1>5 DEF RunFails, SetContainer, Absent, Subjects
  <2>2. call'[c].at = "answered"
    BY <1>5, AnswersFields DEF RunFails
  <2> QED
    BY <1>2, <1>5, <2>1, <2>2, LosesLands DEF RunFails
<1> QED
  BY <1>3, <1>4, <1>5, Publishes DEF RunContainer

(* Only a container that serves its port goes on to be registered. *)
LEMMA HealthLands ==
    ASSUME IType, IPorts, NEW c \in Slots, call[c] \in Requests, call[c] # Idle,
           NEW s \in Projects, s = call[c].of, s \notin Agents, Stage(call[c]),
           call[c].task = "deploy", HealthPasses(c) \/ HealthFails(c) \/ CleanUpFails(c)
    PROVE  Lands(c, s)
<1> USE DEF IType, TypeOK
<1>1. /\ call[c].at = "health" /\ DOMAIN container = Subjects /\ s \in Subjects
      /\ "deploy" \notin Deploys /\ call[c].url \in Ports
  BY DEF HealthPasses, HealthFails, CleanUpFails, At, LabTypeOK, Subjects, Deploys, Requests,
     Carries
<1>2. Raises(call[c]) /\ ~Clears(call[c])
  BY <1>1 DEF Raises, Clears
<1>3. Trusted(s) => /\ \E b \in BOOLEAN : container[s] = Running(call[c].url, b)
                    /\ Backed(s, TargetTypes)
  BY <1>1 DEF Stage, AliveStage, BackedTypes, Recording
<1>4. CASE HealthPasses(c)
  <2>1. /\ call'[c].task = "deploy" /\ call'[c].of = s /\ call'[c].at = "load"
        /\ call'[c].url = call[c].url /\ call'[c].form = call[c].form
    BY <1>4, EditsFields DEF HealthPasses, SameTask
  <2>2. UNCHANGED <<container, records, registryVars>> /\ targets' = targets
    BY <1>4 DEF HealthPasses, registryVars
  <2>3. Raises(call[c])' /\ ~Clears(call[c])' /\ Editing(call[c])'
    BY <1>1, <2>1 DEF Raises, Clears, Editing
  <2>4. AccountStage(call[c])'
    BY <2>3 DEF AccountStage
  <2>5. ASSUME Trusted(s)'
        PROVE  AliveStage(call[c])'
    <3>1. Trusted(s) /\ ~Moves(c)
      BY <1>4, <2>2, <2>5 DEF HealthPasses, Trusted, SpoiledBy, registryVars
    <3>2. container'[s] = Running(call[c].url, TRUE)
      <4>1. PICK b \in BOOLEAN : container[s] = Running(call[c].url, b)
        BY <1>3, <3>1
      <4>2. PICK t \in Subjects : /\ container[t].at = "up" /\ container[t].port = call[c].url
                                  /\ container[t].serves
        BY <1>1, <1>4 DEF HealthPasses, Healthy, Responds
      <4>3. container[s].at = "up" /\ container[s].port = call[c].url /\ container[s].serves = b
        BY <4>1 DEF Running
      <4>4. t = s
        BY <1>1, <4>2, <4>3 DEF IPorts
      <4> QED
        BY <2>2, <4>1, <4>2, <4>3, <4>4
    <3>3. \A type \in TargetTypes \ {call[c].form.type} :
             Url(s, type)' \in Ports => Url(s, type)' = call[c].url
      BY <2>2, <3>1 DEF Moves, Url
    <3>4. Backed(s, TargetTypes)'
      BY <1>3, <2>2, <3>1 DEF Backed, Url, RecordsOf, InContainer
    <3> QED
      BY <2>1, <2>3, <3>2, <3>3, <3>4 DEF AliveStage, BackedTypes, Recording
  <2> QED
    BY <2>1, <2>4, <2>5 DEF Lands, Stage
<1>5. CASE HealthFails(c)
  <2>1. container'[s].at # "up"
    BY <1>1, <1>5 DEF HealthFails, SetContainer, Absent
  <2>2. call'[c].at = "answered"
    BY <1>5, AnswersFields DEF HealthFails
  <2> QED
    BY <1>3, <1>5, <2>1, <2>2, LosesLands DEF HealthFails
<1>6. CASE CleanUpFails(c)
  <2>1. call'[c].at = "answered" /\ <<s, "docker">> \in spoiled'
    BY <1>6, AnswersFields DEF CleanUpFails
  <2> QED
    BY <2>1, SpoiltLands
<1> QED
  BY <1>4, <1>5, <1>6

(* Registering an endpoint that is not on a port of the host. *)
LEMMA ElsewhereEditLands ==
    ASSUME IType, IEdits, NEW c \in Slots, call[c] \in Requests, call[c] # Idle,
           NEW s \in Projects, s = call[c].of, s \notin Agents, Stage(call[c]),
           call[c].task = "deploy", LoadTargets(c) \/ WriteTargets(c), call[c].url \notin Ports
    PROVE  Lands(c, s)
<1> USE DEF IType, TypeOK
<1>1. /\ SameTask(c) /\ call'[c].url = call[c].url /\ s \in Subjects
      /\ call[c].at \in {"load", "write"} /\ call'[c].at \in {"write", "record"}
  BY LoadFields, WriteFields DEF Subjects, LoadTargets, WriteTargets, At, Requests, Stands,
     ImportTasks, Deploys
<1>2. Plain(call[c]) /\ Plain(call[c])'
  BY <1>1 DEF Plain, Raises, Clears, SameTask
<1>3. CASE LoadTargets(c)
  <2>1. Untouched(s)
    BY <1>3, SameDocker DEF LoadTargets, dockerVars
  <2> QED
    BY <1>1, <1>2, <2>1, QuietLands DEF SameTask
<1>4. CASE WriteTargets(c)
  <2>1. UNCHANGED <<container, records, spoiled>> /\ (staleWrite => staleWrite')
    BY <1>4 DEF WriteTargets, WriteBack, dockerVars, registryVars, LabTypeOK
  <2>2. Rests(s) /\ (Tracked(s)' => Tracked(s)) /\ (Trusted(s)' => Trusted(s))
    BY <1>1, <1>2, <2>1, PlainRests, PromisesStand
  <2>3. Accounted(s)' = Accounted(s)
    BY <2>1 DEF Accounted, RecordsOf, InContainer
  <2>4. ASSUME Trusted(s)', NEW type \in TargetTypes, Url(s, type)' \in Ports
        PROVE  Url(s, type)' = Url(s, type)
    <3>1. LabTarget(s, type) \in TargetIds
      BY LabAssumption DEF LabTarget
    <3> QED
      BY <1>4, <2>4, <3>1, Written DEF Trusted, Changed, Url
  <2>5. Trusted(s)' => Alive(s)' /\ Backed(s, TargetTypes)'
    BY <2>1, <2>2, <2>4 DEF Rests, Alive, Backed, RecordsOf, InContainer
  <2>6. Rests(s)'
    BY <2>2, <2>3, <2>5 DEF Rests
  <2> QED
    BY <1>1, <1>2, <2>6, LandsPlain DEF SameTask
<1> QED
  BY <1>3, <1>4

(* Registering it leaves no target of the project on another port. *)
LEMMA RegisterLands ==
    ASSUME IType, IEdits, NEW c \in Slots, call[c] \in Requests, call[c] # Idle,
           NEW s \in Projects, s = call[c].of, s \notin Agents, Stage(call[c]),
           call[c].task = "deploy", LoadTargets(c) \/ WriteTargets(c), call[c].url \in Ports
    PROVE  Lands(c, s)
<1> USE DEF IType, TypeOK
<1>1. /\ SameTask(c) /\ call'[c].url = call[c].url /\ call'[c].of = s /\ call'[c].task = "deploy"
      /\ call[c].at \in {"load", "write"} /\ call'[c].at \in {"write", "record"}
      /\ LoadTargets(c) => call'[c].at = "write"
      /\ WriteTargets(c) => call'[c].at = "record" /\ call[c].at = "write"
  BY LoadFields, WriteFields DEF SameTask, LoadTargets, WriteTargets, At, Requests, Stands,
     ImportTasks, Deploys
<1>2. /\ Raises(call[c]) /\ ~Clears(call[c]) /\ Editing(call[c]) /\ EditFits(call[c])
      /\ Raises(call[c])' /\ ~Clears(call[c])'
  BY <1>1 DEF Raises, Clears, Editing, Recording, IEdits
<1>3. AccountStage(call[c])'
  BY <1>2 DEF AccountStage
<1>4. /\ UNCHANGED <<container, records, spoiled>> /\ (staleWrite => staleWrite')
      /\ None \notin Ports
  BY LabAssumption DEF LoadTargets, WriteTargets, WriteBack, dockerVars, registryVars, LabTypeOK
<1>5. Trusted(s)' => Trusted(s)
  BY <1>4, PromisesStand
<1>6. ASSUME Trusted(s)'
      PROVE  AliveStage(call[c])'
  <2>1. /\ container[s] = Running(call[c].url, TRUE)
        /\ \A type \in TargetTypes \ {call[c].form.type} :
              Url(s, type) \in Ports => Url(s, type) = call[c].url
        /\ Backed(s, TargetTypes)
    BY <1>1, <1>2, <1>5, <1>6 DEF Stage, AliveStage, BackedTypes, Editing, Recording
  <2>2. CASE LoadTargets(c)
    <3>1. targets' = targets
      BY <2>2 DEF LoadTargets, registryVars
    <3>2. Backed(s, TargetTypes)' /\ \A type \in TargetTypes : Url(s, type)' = Url(s, type)
      BY <1>4, <2>1, <3>1 DEF Backed, Url, RecordsOf, InContainer
    <3>3. BackedTypes(call[c])' = TargetTypes /\ call'[c].at = "write"
      BY <1>1, <2>2 DEF BackedTypes, Recording
    <3>4. Backed(s, BackedTypes(call[c]))'
      BY <3>2, <3>3
    <3>5. /\ container'[s] = Running(call'[c].url, TRUE)
          /\ \A type \in TargetTypes \ {call'[c].form.type} :
                Url(s, type)' \in Ports => Url(s, type)' = call'[c].url
      BY <1>1, <1>4, <2>1, <3>2 DEF SameTask
    <3> QED
      BY <1>1, <1>2, <3>3, <3>4, <3>5 DEF AliveStage, Recording
  <2>3. CASE WriteTargets(c)
    <3>1. call[c].ids = {LabTarget(s, call[c].form.type)}
      BY <1>1, <1>2 DEF EditFits
    <3>2. ASSUME NEW type \in TargetTypes
          PROVE  Url(s, type)' = IF type = call[c].form.type THEN call[c].url ELSE Url(s, type)
      <4>1. LabTarget(s, type) \in TargetIds
        BY LabAssumption DEF LabTarget
      <4>2. LabTarget(s, type) \in call[c].ids <=> type = call[c].form.type
        BY <3>1 DEF LabTarget
      <4> QED
        BY <1>4, <1>6, <2>3, <4>1, <4>2, Written DEF Trusted, Changed, Url
    <3>3. Alive(s)'
      BY <1>4, <2>1, <3>2 DEF Alive
    <3>4. \A type \in TargetTypes \ {call[c].form.type} : Url(s, type)' \in Ports =>
             \E d \in RecordsOf(s)' : d.target = LabTarget(s, type)
      <4>1. RecordsOf(s)' = RecordsOf(s)
        BY <1>4 DEF RecordsOf, InContainer
      <4> QED
        BY <2>1, <3>2, <4>1 DEF Backed
    <3>5. BackedTypes(call[c])' = TargetTypes \ {call[c].form.type} /\ ~Editing(call[c])'
      BY <1>1, <1>2, <2>3 DEF BackedTypes, SameTask, Editing, Recording
    <3>6. Backed(s, BackedTypes(call[c]))'
      BY <3>4, <3>5 DEF Backed
    <3> QED
      BY <1>1, <1>2, <2>3, <3>3, <3>5, <3>6 DEF AliveStage
  <2> QED
    BY <2>2, <2>3
<1> QED
  BY <1>1, <1>3, <1>6 DEF Lands, Stage

(* Recording it closes the account of the container. *)
LEMMA SaveLands ==
    ASSUME IType, IEdits, NEW c \in Slots, call[c] \in Requests, call[c] # Idle,
           NEW s \in Projects, s = call[c].of, s \notin Agents, Stage(call[c]),
           call[c].task = "deploy", SaveDeployment(c)
    PROVE  Lands(c, s)
<1> USE DEF IType, TypeOK
<1> DEFINE new == NewRecord(c)
<1>1. /\ call[c].at = "save" /\ call'[c].at = "answered"
      /\ records' = call[c].copy \union {new}
      /\ spoiled' = spoiled \union Undone(call[c].copy, call[c].copy \union {new}) \X {"overwritten"}
      /\ UNCHANGED <<container, registryVars>>
      /\ targets' = targets /\ staleWrite' = staleWrite
      /\ EditFits(call[c])
  BY RecordedFields DEF SaveDeployment, WriteRecords, At, registryVars, IEdits
<1>2. ~Clears(call[c]) /\ (call[c].url \in Ports => Raises(call[c]))
  BY <1>1 DEF Clears, Raises, Recording
<1>3. /\ new.of = s /\ new.url = call[c].url /\ new.target = LabTarget(s, call[c].form.type)
      /\ call[c].url \in Ports => new \in RecordsOf(s)'
  <2>1. new.of = s /\ new.url = call[c].url /\ new.target = LabTarget(s, call[c].form.type)
    BY DEF NewRecord
  <2> HIDE DEF new
  <2> QED
    BY <1>1, <2>1, LabAssumption DEF RecordsOf, InContainer
<1> HIDE DEF new
<1>4. (Tracked(s)' => Tracked(s)) /\ (Tracked(s)' => RecordsOf(s) \subseteq RecordsOf(s)')
  <2>1. Tracked(s)' => Tracked(s) /\ s \notin Undone(call[c].copy, call[c].copy \union {new})
    BY <1>1 DEF Tracked
  <2>2. s \notin Undone(call[c].copy, call[c].copy \union {new}) =>
           \A d \in records : d.of = s => d \in records'
    BY <1>1 DEF Undone
  <2> QED
    BY <2>1, <2>2 DEF RecordsOf, InContainer
<1>5. Tracked(s)' => Accounted(s)'
  <2>1. CASE call[c].url \in Ports
    BY <1>3, <2>1 DEF Accounted
  <2>2. CASE call[c].url \notin Ports
    <3>1. Tracked(s) => Accounted(s)
      BY <1>1, <2>2 DEF Stage, AccountStage, Raises
    <3> QED
      BY <1>1, <1>4, <3>1 DEF Accounted
  <2> QED
    BY <2>1, <2>2
<1>6. ASSUME Trusted(s)'
      PROVE  Alive(s)' /\ Backed(s, TargetTypes)'
  <2>1. /\ Alive(s) /\ Backed(s, BackedTypes(call[c]))
        /\ RecordsOf(s) \subseteq RecordsOf(s)'
    <3>1. Trusted(s) /\ Tracked(s)'
      BY <1>1, <1>6, PromisesStand, TrustedTracked
    <3>2. AliveStage(call[c])
      BY <3>1 DEF Stage
    <3> QED
      BY <1>1, <1>2, <1>4, <3>1, <3>2 DEF AliveStage, Recording
  <2>2. ASSUME NEW type \in TargetTypes, Url(s, type)' \in Ports
        PROVE  \E d \in RecordsOf(s)' : d.target = LabTarget(s, type)
    <3>1. CASE type \in BackedTypes(call[c])
      BY <1>1, <2>1, <2>2, <3>1 DEF Backed, Url
    <3>2. CASE type \notin BackedTypes(call[c])
      <4>1. call[c].url \in Ports /\ type = call[c].form.type
        BY <1>1, <2>2, <3>2 DEF BackedTypes, Raises, Recording
      <4>2. new \in RecordsOf(s)' /\ new.target = LabTarget(s, type)
        BY <1>3, <4>1
      <4> QED
        BY <4>2
    <3> QED
      BY <3>1, <3>2
  <2> QED
    BY <1>1, <2>1, <2>2 DEF Alive, Backed, Url
<1> QED
  BY <1>1, <1>5, <1>6, LandsAnswered DEF Rests

(* A handler keeps what the subject of its request was promised. *)
LEMMA HandlerHere ==
    ASSUME IType, IRecords, IEdits, IPorts, NEW c \in Slots, Serving(c),
           NEW s \in Subjects, s = call[c].of, Fits(s), Alone(s)'
    PROVE  Fits(s)'
<1> SUFFICES Lands(c, s)
  BY LandsFits DEF Fits
<1>1. /\ call[c] \in Requests /\ call[c] # Idle
      /\ call[c].at \notin Reads \union {"idle", "answered"}
  BY WhoServes DEF IType
<1>2. Stage(call[c])
  BY <1>1 DEF Fits, Works
<1>3. Projects \intersect Agents = {}
  BY LabAssumption
<1>4. CASE call[c].task \in ImportTasks \union {"delete"} /\ Importing(c)
  BY <1>1, <1>2, <1>4, ImportLands
<1>5. CASE call[c].task = "deploy" /\ (LoadTargets(c) \/ WriteTargets(c) \/ Deploying(c))
  <2>1. s \in Projects /\ s \notin Agents
    BY <1>1, <1>3, <1>5 DEF Requests, About, ProjectTasks
  <2>2. CASE LoadTargets(c) \/ WriteTargets(c)
    BY <1>1, <1>2, <1>5, <2>1, <2>2, ElsewhereEditLands, RegisterLands
  <2>3. CASE Deploying(c)
    BY <1>1, <1>2, <1>5, <2>1, <2>3, StartLands, RunLands, HealthLands, SaveLands DEF Deploying
  <2> QED
    BY <1>5, <2>2, <2>3
<1>6. CASE call[c].task = "undeploy" /\ (LoadTargets(c) \/ WriteTargets(c) \/ Undeploying(c))
  BY <1>1, <1>2, <1>6, UndeployLands, UndeployEditLands DEF Undeploying
<1>7. CASE /\ call[c].task \in Deploys
           /\ LoadTargets(c) \/ WriteTargets(c) \/ RunAgent(c) \/ RunAgentFails(c)
  BY <1>1, <1>2, <1>7, RunAgentLands, AgentEditLands
<1>8. CASE call[c].task = "remove" /\ (LoadTargets(c) \/ WriteTargets(c) \/ RemoveAgent(c))
  BY <1>1, <1>2, <1>8, RemoveAgentLands, RemovalEditLands
<1>9. CASE \/ call[c].task = "stop" /\ StopAgent(c)
           \/ call[c].task = "start" /\ StartAgent(c)
  BY <1>1, <1>2, <1>9, StopStartLands
<1>10. CASE \/ call[c].task = "save-template" /\ SaveTemplate(c)
            \/ call[c].task = "delete-template" /\ DeleteTemplate(c)
  BY <1>1, <1>2, <1>10, TemplateLands
<1>11. CASE LoadRecords(c) \/ FileFails(c)
  BY <1>1, <1>2, <1>11, ReadLands, FailLands
<1> QED
  BY <1>4, <1>5, <1>6, <1>7, <1>8, <1>9, <1>10, <1>11, WhoServes DEF IType
-----------------------------------------------------------------------------
(* The invariant of the server, and what follows once no request is in progress. *)

LEMMA LabInitServer ==
    ASSUME NEW I, NEW D \in {{}} \union {{p} : p \in Projects}, NEW port \in Ports,
           NEW R \in SUBSET Agents, LabInit(I, D, port, R), overlapped = {},
           \/ importer.deployment = NoDeployment
           \/ \E d \in records : importer.deployment.id = d.id /\ importer.deployment.of = d.of
    PROVE  IServer
<1>1. /\ D \subseteq Projects /\ \A p, q \in D : p = q
      /\ Projects \intersect Agents = {}
      /\ port \in Ports /\ None \notin Ports /\ AgentUrl \notin Ports /\ AgentUrl # None
      /\ port # External
  BY LabAssumption
<1>2. stamps = Cardinality(D) /\ (D = {} => stamps = 0) /\ (D # {} => stamps = 1)
  <2>1. ASSUME NEW p, D = {p}
        PROVE  Cardinality(D) = 1
    BY <2>1, FS_Singleton
  <2> QED
    BY <2>1, FS_EmptySet DEF LabInit
<1>3. \A d \in records : /\ d.of \in D /\ d.id = 1 /\ d.url = port
                         /\ d.target = LabTarget(d.of, "http_json")
  BY DEF LabInit
<1>4. \A c \in Slots : call[c] = Idle /\ \A s \in Subjects : ~Works(c, s)
  BY IdleIs DEF LabInit, Works
<1>5. IRecords
  <2>1. NoDeployment.id = 0 /\ 0 <= stamps
    BY <1>2 DEF NoDeployment
  <2>2. \A d : d \in Filed <=> d \in records
    BY <1>4, FiledIs, IdleIs
  <2>3. \A d \in Filed : d.id = 1 /\ d.id \in 1..stamps /\ d.target \in {d.of} \X TargetTypes
    BY <1>2, <1>3, <2>2 DEF LabTarget, TargetTypes
  <2>4. Knows(importer.deployment.id, importer.deployment.of)
    BY <1>1, <1>2, <1>3, <2>1, <2>2, <2>3 DEF Knows
  <2> QED
    BY <1>4, <2>3, <2>4 DEF IRecords
<1>6. IEdits
  BY <1>4 DEF IEdits
<1>7. \A s \in Subjects : container[s] = IF s \in D THEN Running(port, TRUE)
                                         ELSE IF s \in R THEN Running(None, TRUE) ELSE Absent
  BY DEF LabInit, Subjects
<1>8. IPorts
  <2>1. \A s \in Subjects : container[s].at = "up" /\ container[s].port \in Ports => s \in D
    BY <1>1, <1>7 DEF Running, Absent
  <2> QED
    BY <1>1, <2>1 DEF IPorts
<1>9. ASSUME NEW p \in Projects
      PROVE  Accounted(p) /\ Alive(p) /\ Backed(p, TargetTypes)
  <2>1. ASSUME NEW type \in TargetTypes
        PROVE  Url(p, type) = IF p \in D /\ type = "http_json" THEN port ELSE None
    <3>1. LabTarget(p, type) \in TargetIds
      BY LabAssumption DEF LabTarget
    <3>2. \A q : LabTarget(p, type) = LabTarget(q, "http_json") <=> p = q /\ type = "http_json"
      BY DEF LabTarget
    <3>3. \A a : LabTarget(p, type) # AgentTarget(a)
      BY DEF LabTarget, AgentTarget, TargetTypes
    <3> QED
      BY <3>1, <3>2, <3>3 DEF LabInit, Url
  <2>2. ASSUME p \in D
        PROVE  \E d \in RecordsOf(p) : d.target = LabTarget(p, "http_json")
    <3> DEFINE d == [of |-> p, id |-> 1, target |-> LabTarget(p, "http_json"), url |-> port]
    <3>1. d \in RecordsOf(p)
      BY <1>1, <2>2 DEF LabInit, RecordsOf, InContainer
    <3> QED
      BY <3>1
  <2>3. /\ p \in D => container[p] = Running(port, TRUE)
        /\ p \notin D => container[p].at # "up"
    <3>1. p \in Subjects /\ p \notin R
      BY <1>1 DEF Subjects
    <3>2. Absent.at # "up"
      BY DEF Absent
    <3> QED
      BY <1>7, <3>1, <3>2
  <2> QED
    BY <1>1, <2>1, <2>2, <2>3 DEF Accounted, Alive, Backed
<1>10. ASSUME NEW a \in Agents
       PROVE  Together(a)
  <2>1. AgentTarget(a) \in TargetIds /\ a \notin D /\ a \in Subjects
    BY <1>1, LabAssumption DEF AgentTarget, Subjects
  <2>2. targets[AgentTarget(a)] = IF a \in R THEN AgentUrl ELSE None
    <3>1. \A q : AgentTarget(a) # LabTarget(q, "http_json")
      BY DEF LabTarget, AgentTarget
    <3>2. \A b : AgentTarget(a) = AgentTarget(b) <=> a = b
      BY DEF AgentTarget
    <3> QED
      BY <2>1, <3>1, <3>2 DEF LabInit
  <2>3. container[a] = IF a \in R THEN Running(None, TRUE) ELSE Absent
    BY <1>7, <2>1
  <2>4. Running(None, TRUE).at # Absent.at
    BY DEF Running, Absent
  <2> QED
    BY <1>1, <2>2, <2>3, <2>4 DEF Together
<1>11. IFits
  BY <1>4, <1>9, <1>10 DEF IFits, Fits, Alone, Rests
<1> QED
  BY <1>5, <1>6, <1>8, <1>11 DEF IServer

LEMMA InitServer == Init => IServer
<1> SUFFICES ASSUME Init
             PROVE  IServer
  OBVIOUS
<1>1. /\ overlapped = {}
      /\ \/ importer.deployment = NoDeployment
         \/ \E d \in records : importer.deployment.id = d.id /\ importer.deployment.of = d.of
  <2>1. PICK p : \E d \in Shown(p) : importer.deployment = d
    BY DEF Init, NewImporter
  <2> QED
    BY <2>1 DEF Init, Shown, RecordsOf
<1>2. PICK I \in SUBSET Projects, D \in {{}} \union {{p} : p \in Projects}, port \in Ports,
           R \in SUBSET Agents : LabInit(I, D, port, R)
  <2>1. CASE \E I \in SUBSET Projects, D \in {{}} \union {{p} : p \in Projects}, port \in Ports :
                LabInit(I, D, port, {})
    <3>1. {} \in SUBSET Agents
      OBVIOUS
    <3> QED
      BY <2>1, <3>1
  <2>2. CASE \E p \in Projects : LabInit({p}, {p}, Preferred, Agents \ Custom)
    <3>1. Preferred \in Ports /\ Agents \ Custom \in SUBSET Agents
      BY LabAssumption DEF Preferred
    <3> QED
      BY <2>2, <3>1
  <2> QED
    BY <2>1, <2>2 DEF Init
<1> QED
  BY <1>1, <1>2, LabInitServer

(* Every step keeps the invariant of the server. *)
LEMMA NextServer == IType /\ IServer /\ [Next]_vars => IServer'
<1> SUFFICES ASSUME IType, IServer, [Next]_vars
             PROVE  IServer'
  OBVIOUS
<1> USE DEF IServer
<1>1. CASE Next /\ (Operate \/ Continue)
  <2>1. IRecords' /\ IEdits'
    BY <1>1, ConsoleRecords, ConsoleEdits
  <2>2. IPorts'
    BY <1>1, ConsoleAsks DEF IPorts
  <2>3. ASSUME NEW s \in Subjects \ overlapped'
        PROVE  Fits(s)'
    BY <1>1, <2>3, ConsoleFits, NextAlone DEF Next, IFits
  <2> QED
    BY <2>1, <2>2, <2>3 DEF IFits
<1>2. CASE Next /\ Handle
  <2>1. PICK c \in Slots : Serving(c)
    BY <1>2 DEF Handle
  <2>2. IRecords' /\ IEdits' /\ IPorts'
    BY <1>2, <2>1, HandlerRecords, HandlerEdits, HandlerPorts DEF Handle
  <2>3. ASSUME NEW s \in Subjects \ overlapped'
        PROVE  Fits(s)'
    <3>1. Fits(s) /\ Alone(s)'
      BY <1>2, <2>3, NextAlone DEF Next, IFits
    <3> QED
      BY <2>1, <3>1, HandlerElsewhere, HandlerHere
  <2> QED
    BY <2>2, <2>3 DEF IFits
<1>3. CASE UNCHANGED vars
  <2> USE <1>3 DEF vars, labVars, dockerVars, registryVars
  <2>1. IRecords' /\ IEdits' /\ IPorts'
    BY DEF IRecords, IEdits, IPorts, Knows, EditFits, Filed
  <2>2. ASSUME NEW s \in Subjects \ overlapped'
        PROVE  Fits(s)'
    <3>1. Fits(s) /\ Untouched(s) /\ Alone(s)'
      BY <2>2, SameDocker DEF IFits, Fits, IType, TypeOK, Alone, Works
    <3>2. \A d \in Slots : (Works(d, s)' <=> Works(d, s)) /\ SameRequest(d)
      BY DEF Works, SameRequest
    <3>3. ASSUME NEW d \in Slots, Works(d, s)'
          PROVE  Stage(call[d])'
      BY <2>2, <3>1, <3>2, <3>3, StageKept DEF Fits, Works
    <3> QED
      BY <2>2, <3>1, <3>2, <3>3, RestsKept DEF Fits
  <2> QED
    BY <2>1, <2>2 DEF IFits
<1> QED
  BY <1>1, <1>2, <1>3 DEF Next

(* With no request in progress every subject rests. *)
LEMMA QuietRests ==
    ASSUME IServer, Quiet, NEW s \in Subjects \ overlapped
    PROVE  Rests(s)
BY DEF IServer, IFits, Fits, Quiet, InProgress, Works

(* With no request in progress a running container of a project has a record    *)
(* that can remove it, unless docker failed to remove it, a file could not be    *)
(* written after it was started, its record was lost to a write on an older copy *)
(* of the file, requests for the project overlapped, or the Agents view handled  *)
(* the container.                                                                *)
THEOREM RecordedWhenUp == Spec => []RunningIsRecorded
<1>1. Init => IType /\ IServer
  BY InitTyped, InitServer
<1>2. IType /\ IServer /\ [Next]_vars => IType' /\ IServer'
  BY NextTyped, NextServer
<1>3. IServer => RunningIsRecorded
  <2> SUFFICES ASSUME IServer, Quiet, NEW p \in Projects, container[p].at = "up",
                      p \notin overlapped, Tracked(p)
               PROVE  RecordsOf(p) # {}
    BY DEF RunningIsRecorded, Tracked
  <2>1. Rests(p)
    BY QuietRests DEF Subjects
  <2> QED
    BY <2>1 DEF Rests, Accounted
<1> QED
  BY <1>1, <1>2, <1>3, PTL DEF Spec

(* With no request in progress a target on a host port reaches a serving     *)
(* container of its own project, where nothing spoiled the project and no     *)
(* requests for it overlapped.                                                *)
THEOREM TargetsAlive == Spec => []NoDeadTarget
<1>1. Init => IType /\ IServer
  BY InitTyped, InitServer
<1>2. IType /\ IServer /\ [Next]_vars => IType' /\ IServer'
  BY NextTyped, NextServer
<1>3. IServer => NoDeadTarget
  <2> SUFFICES ASSUME IServer, Quiet, ~staleWrite, NEW p \in Projects, NEW type \in TargetTypes,
                      targets[LabTarget(p, type)] \in Ports, Sound(p)
               PROVE  container[p] = Running(targets[LabTarget(p, type)], TRUE)
    BY DEF NoDeadTarget
  <2>1. Rests(p) /\ Trusted(p)
    BY QuietRests DEF Subjects, Sound, Trusted
  <2> QED
    BY <2>1 DEF Rests, Alive, Url
<1> QED
  BY <1>1, <1>2, <1>3, PTL DEF Spec

(* The agent of a template and its target come and go together, unless docker *)
(* or the write of the registry failed, requests for the agent overlapped, or  *)
(* an agent of its image was removed.                                          *)
THEOREM TargetsFollow == Spec => []AgentTargetsFollow
<1>1. Init => IType /\ IServer
  BY InitTyped, InitServer
<1>2. IType /\ IServer /\ [Next]_vars => IType' /\ IServer'
  BY NextTyped, NextServer
<1>3. IServer => AgentTargetsFollow
  <2> SUFFICES ASSUME IServer, Quiet, ~staleWrite, NEW a \in Agents, Sound(a)
               PROVE  /\ targets[AgentTarget(a)] # None => container[a] # Absent
                      /\ a \notin Custom /\ container[a] # Absent => targets[AgentTarget(a)] # None
    BY DEF AgentTargetsFollow
  <2>1. Rests(a) /\ Trusted(a)
    BY QuietRests DEF Subjects, Sound, Trusted
  <2> QED
    BY <2>1 DEF Rests, Together
<1> QED
  BY <1>1, <1>2, <1>3, PTL DEF Spec
=============================================================================
